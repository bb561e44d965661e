---------------------------- MODULE PromptProofs ----------------------------
(***************************************************************************)
(* What a prompt shows, for any memory, traces and caps: what the text of  *)
(* the rejected rounds and the block of the traces give up first, which    *)
(* traces come back when, and what a Guide reads of its graph.             *)
(***************************************************************************)
EXTENDS RoundProofs

USE TextAssumption

-----------------------------------------------------------------------------
(* RejectionText: what a text shows of rejection memory.                   *)

\* An entry that is shown, in full or as a line.
Item(n) == [entry : 1 .. n, full : BOOLEAN]

\* The items are in the order of their entries, each entry once.
InRow(s) == \A i, j \in 1 .. Len(s) : i < j => s[i].entry < s[j].entry

\* The entries shown in full, or as a line.
EntriesOf(s, full) == {s[i].entry : i \in {k \in 1 .. Len(s) : s[k].full = full}}

\* Where they are.
Places(s, full) == {k \in 1 .. Len(s) : s[k].full = full}

\* A set of numbers that is not empty has a first, the one Oldest chooses.
LEMMA OldestIsFirst ==
    ASSUME NEW is \in SUBSET Nat, is # {}
    PROVE  Rejections!Oldest(is) \in is /\ \A j \in is : Rejections!Oldest(is) <= j
<1>1. \E x \in is : \A y \in is : ~ (<<y, x>> \in OpToRel(<, Nat))
  BY NatLessThanWellFounded, WFMin
<1>2. PICK x \in is : \A y \in is : ~ (<<y, x>> \in OpToRel(<, Nat))
  BY <1>1
<1>3. \A y \in is : ~ (y \in Nat /\ x \in Nat /\ y < x)
  BY <1>2, Zenon DEF OpToRel
<1>4. \A y \in is : x <= y
  BY <1>3
<1> QED
  BY <1>4 DEF Rejections!Oldest

\* A sequence without one of its items.
LEMMA ItemRemoved ==
    ASSUME NEW S, NEW s \in Seq(S), NEW p \in 1 .. Len(s), NEW r, r = Rejections!RemoveAt(s, p)
    PROVE  /\ r \in Seq(S) /\ Len(r) = Len(s) - 1
           /\ \A i \in 1 .. Len(s) - 1 : r[i] = IF i < p THEN s[i] ELSE s[i + 1]
<1> DEFINE n == Len(s)
           a == SubSeq(s, 1, p - 1)
           b == SubSeq(s, p + 1, n)
<1>0. n \in Nat /\ p \in Nat /\ 1 <= p /\ p <= n
  OBVIOUS
<1>1. \A i \in 1 .. n : s[i] \in S
  OBVIOUS
<1>2. a \in Seq(S) /\ Len(a) = p - 1 /\ \A i \in 1 .. p - 1 : a[i] = s[i]
  <2>1. 1 \in Int /\ p - 1 \in Int /\ \A i \in 1 .. p - 1 : s[i] \in S
    BY <1>0, <1>1
  <2>2. /\ SubSeq(s, 1, p - 1) \in Seq(S)
        /\ Len(SubSeq(s, 1, p - 1)) = IF 1 <= p - 1 THEN (p - 1) - 1 + 1 ELSE 0
        /\ \A i \in 1 .. (p - 1) - 1 + 1 : SubSeq(s, 1, p - 1)[i] = s[1 + i - 1]
    BY <2>1, SubSeqProperties
  <2> QED
    BY <1>0, <2>2
<1>3. b \in Seq(S) /\ Len(b) = n - p /\ \A i \in 1 .. n - p : b[i] = s[p + i]
  <2>1. p + 1 \in Int /\ n \in Int /\ \A i \in p + 1 .. n : s[i] \in S
    BY <1>0, <1>1
  <2>2. /\ SubSeq(s, p + 1, n) \in Seq(S)
        /\ Len(SubSeq(s, p + 1, n)) = IF p + 1 <= n THEN n - (p + 1) + 1 ELSE 0
        /\ \A i \in 1 .. n - (p + 1) + 1 : SubSeq(s, p + 1, n)[i] = s[p + 1 + i - 1]
    BY <2>1, SubSeqProperties
  <2>3. ASSUME NEW i \in 1 .. n - p PROVE b[i] = s[p + i]
    <3>1. i \in 1 .. n - (p + 1) + 1 /\ p + 1 + i - 1 = p + i
      BY <1>0
    <3>2. b[i] = s[p + 1 + i - 1]
      BY <2>2, <3>1
    <3> QED
      BY <3>1, <3>2
  <2>4. Len(b) = n - p
    <3>1. Len(b) = IF p + 1 <= n THEN n - (p + 1) + 1 ELSE 0
      BY <2>2
    <3> HIDE DEF b
    <3> QED
      BY <1>0, <3>1
  <2>5. b \in Seq(S)
    BY <2>2
  <2> QED
    BY <2>3, <2>4, <2>5
<1>4. r = a \o b
  BY DEF Rejections!RemoveAt
<1> HIDE DEF a, b, n
<1>5. /\ a \o b \in Seq(S) /\ Len(a \o b) = Len(a) + Len(b)
      /\ \A i \in 1 .. Len(a) + Len(b) : (a \o b)[i] = IF i <= Len(a) THEN a[i] ELSE b[i - Len(a)]
  BY <1>2, <1>3, ConcatProperties
<1>6. Len(a) + Len(b) = n - 1
  BY <1>0, <1>2, <1>3
<1>7. ASSUME NEW i \in 1 .. n - 1 PROVE r[i] = IF i < p THEN s[i] ELSE s[i + 1]
  <2>1. r[i] = IF i <= Len(a) THEN a[i] ELSE b[i - Len(a)]
    BY <1>4, <1>5, <1>6
  <2>2. CASE i < p
    <3>1. i <= Len(a) /\ i \in 1 .. p - 1
      BY <1>0, <1>2, <2>2
    <3> QED
      BY <1>2, <2>1, <2>2, <3>1
  <2>3. CASE ~ (i < p)
    <3>1. ~ (i <= Len(a)) /\ i - Len(a) \in 1 .. n - p /\ p + (i - Len(a)) = i + 1
      BY <1>0, <1>2, <2>3
    <3>2. b[i - Len(a)] = s[p + (i - Len(a))]
      BY <1>3, <3>1
    <3> QED
      BY <2>1, <2>3, <3>1, <3>2
  <2> QED
    BY <2>2, <2>3
<1>8. r \in Seq(S) /\ Len(r) = n - 1
  BY <1>4, <1>5, <1>6
<1> QED
  BY <1>7, <1>8 DEF n

\* Items in a row show no entry twice.
LEMMA RowShowsOnce ==
    ASSUME NEW n \in Nat, NEW s \in Seq(Item(n)), InRow(s),
           NEW i \in 1 .. Len(s), NEW j \in 1 .. Len(s), s[i].entry = s[j].entry
    PROVE  i = j
<1>0. s[i] \in Item(n) /\ s[j] \in Item(n)
  OBVIOUS
<1>1. s[i].entry \in Nat /\ s[j].entry \in Nat
  BY <1>0 DEF Item
<1>2. ~ (i < j) /\ ~ (j < i)
  BY <1>1 DEF InRow
<1> QED
  BY <1>2

\* Without the item at p, its entry is gone, and nothing else is.
LEMMA RowWithout ==
    ASSUME NEW n \in Nat, NEW s \in Seq(Item(n)), InRow(s), NEW p \in 1 .. Len(s),
           NEW r, r = Rejections!RemoveAt(s, p)
    PROVE  /\ r \in Seq(Item(n)) /\ InRow(r)
           /\ \A f \in BOOLEAN : EntriesOf(r, f) = EntriesOf(s, f) \ {s[p].entry}
<1>1. /\ r \in Seq(Item(n)) /\ Len(r) = Len(s) - 1
      /\ \A i \in 1 .. Len(s) - 1 : r[i] = IF i < p THEN s[i] ELSE s[i + 1]
  BY ItemRemoved
<1> DEFINE was(i) == IF i < p THEN i ELSE i + 1
<1>2. Len(s) \in Nat /\ p \in Nat /\ 1 <= p /\ p <= Len(s)
  OBVIOUS
<1>3. ASSUME NEW i \in 1 .. Len(r) PROVE was(i) \in 1 .. Len(s) /\ was(i) # p /\ r[i] = s[was(i)]
  BY <1>1, <1>2
<1>4. ASSUME NEW i \in 1 .. Len(r), NEW j \in 1 .. Len(r), i < j PROVE was(i) < was(j)
  BY <1>2, <1>4
<1>5. ASSUME NEW k \in 1 .. Len(s), k # p PROVE \E i \in 1 .. Len(r) : was(i) = k
  <2>1. CASE k < p
    <3>1. k \in 1 .. Len(r) /\ was(k) = k
      BY <1>1, <1>2, <2>1
    <3> QED
      BY <3>1
  <2>2. CASE ~ (k < p)
    <3>1. k - 1 \in 1 .. Len(r) /\ was(k - 1) = k
      BY <1>1, <1>2, <1>5, <2>2
    <3> QED
      BY <3>1
  <2> QED
    BY <2>1, <2>2
<1> HIDE DEF was
<1>6. InRow(r)
  <2> SUFFICES ASSUME NEW i \in 1 .. Len(r), NEW j \in 1 .. Len(r), i < j PROVE r[i].entry < r[j].entry
    BY DEF InRow
  <2>1. was(i) < was(j) /\ was(i) \in 1 .. Len(s) /\ was(j) \in 1 .. Len(s)
    BY <1>3, <1>4
  <2>2. s[was(i)].entry < s[was(j)].entry
    BY <2>1 DEF InRow
  <2> QED
    BY <1>3, <2>2
<1>7. ASSUME NEW f \in BOOLEAN PROVE EntriesOf(r, f) = EntriesOf(s, f) \ {s[p].entry}
  <2>1. ASSUME NEW e \in EntriesOf(r, f) PROVE e \in EntriesOf(s, f) \ {s[p].entry}
    <3>1. PICK i \in 1 .. Len(r) : r[i].full = f /\ e = r[i].entry
      BY <2>1 DEF EntriesOf
    <3>2. was(i) \in 1 .. Len(s) /\ was(i) # p /\ r[i] = s[was(i)]
      BY <1>3
    <3>3. s[was(i)].entry # s[p].entry
      BY <3>2, RowShowsOnce
    <3> QED
      BY <3>1, <3>2, <3>3 DEF EntriesOf
  <2>2. ASSUME NEW e \in EntriesOf(s, f) \ {s[p].entry} PROVE e \in EntriesOf(r, f)
    <3>1. PICK k \in 1 .. Len(s) : s[k].full = f /\ e = s[k].entry
      BY <2>2 DEF EntriesOf
    <3>2. PICK i \in 1 .. Len(r) : was(i) = k
      BY <1>5, <2>2, <3>1
    <3>3. r[i] = s[k]
      BY <1>3, <3>2
    <3> QED
      BY <3>1, <3>3 DEF EntriesOf
  <2> QED
    BY <2>1, <2>2
<1> QED
  BY <1>1, <1>6, <1>7

\* The same, by their names.
InFull(s) == EntriesOf(s, TRUE)
AsLine(s) == EntriesOf(s, FALSE)
FullPlaces(s) == Places(s, TRUE)

\* The entry at place p becomes a line.
Demoted(s, p) == [s EXCEPT ![p].full = FALSE]

\* With the item at p a line, its entry is shown as a line, and nothing else changes.
LEMMA RowDemoted ==
    ASSUME NEW n \in Nat, NEW s \in Seq(Item(n)), InRow(s), NEW p \in FullPlaces(s),
           NEW r, r = Demoted(s, p)
    PROVE  /\ r \in Seq(Item(n)) /\ InRow(r)
           /\ InFull(r) = InFull(s) \ {s[p].entry}
           /\ AsLine(r) = AsLine(s) \cup {s[p].entry}
<1> DEFINE line == [s[p] EXCEPT !.full = FALSE]
<1>0. p \in 1 .. Len(s)
  BY DEF FullPlaces, Places
<1>1. s[p] \in Item(n)
  BY <1>0
<1>2. line \in Item(n) /\ line.entry = s[p].entry /\ line.full = FALSE
  BY <1>1 DEF Item
<1>3. r = [s EXCEPT ![p] = line]
  BY DEF Demoted
<1> HIDE DEF line
<1>4. r \in Seq(Item(n)) /\ Len(r) = Len(s) /\ r[p] = line /\ \A i \in 1 .. Len(s) : i # p => r[i] = s[i]
  <2> DEFINE I == Item(n)
  <2>1. s \in Seq(I) /\ line \in I
    BY <1>2
  <2> HIDE DEF I
  <2>2. s \in [1 .. Len(s) -> I] /\ Len(s) \in Nat
    BY <2>1
  <2>3. r \in [1 .. Len(s) -> I] /\ r[p] = line /\ \A i \in 1 .. Len(s) : i # p => r[i] = s[i]
    BY <1>0, <1>3, <2>1, <2>2
  <2>4. r \in Seq(I) /\ Len(r) = Len(s)
    BY <2>2, <2>3
  <2> QED
    BY <2>3, <2>4 DEF I
<1>5. \A i \in 1 .. Len(s) : r[i].entry = s[i].entry
  BY <1>0, <1>2, <1>4
<1>6. InRow(r)
  BY <1>4, <1>5 DEF InRow
<1>7. ASSUME NEW e PROVE e \in EntriesOf(r, TRUE) <=> e \in EntriesOf(s, TRUE) \ {s[p].entry}
  <2>1. ASSUME e \in EntriesOf(r, TRUE) PROVE e \in EntriesOf(s, TRUE) \ {s[p].entry}
    <3>1. PICK i \in 1 .. Len(r) : r[i].full = TRUE /\ e = r[i].entry
      BY <2>1 DEF EntriesOf
    <3>2. i # p
      BY <1>0, <1>2, <1>4, <3>1
    <3>3. s[i].entry # s[p].entry
      BY <1>0, <1>4, <3>2, RowShowsOnce
    <3> QED
      BY <1>4, <3>1, <3>2, <3>3 DEF EntriesOf
  <2>2. ASSUME e \in EntriesOf(s, TRUE) \ {s[p].entry} PROVE e \in EntriesOf(r, TRUE)
    <3>1. PICK k \in 1 .. Len(s) : s[k].full = TRUE /\ e = s[k].entry
      BY <2>2 DEF EntriesOf
    <3>2. k # p
      BY <2>2, <3>1
    <3> QED
      BY <1>4, <3>1, <3>2 DEF EntriesOf
  <2> QED
    BY <2>1, <2>2
<1>8. ASSUME NEW e PROVE e \in EntriesOf(r, FALSE) <=> e \in EntriesOf(s, FALSE) \cup {s[p].entry}
  <2>1. ASSUME e \in EntriesOf(r, FALSE) PROVE e \in EntriesOf(s, FALSE) \cup {s[p].entry}
    <3>1. PICK i \in 1 .. Len(r) : r[i].full = FALSE /\ e = r[i].entry
      BY <2>1 DEF EntriesOf
    <3> QED
      BY <1>4, <1>5, <3>1 DEF EntriesOf
  <2>2. ASSUME e \in EntriesOf(s, FALSE) PROVE e \in EntriesOf(r, FALSE)
    <3>1. PICK k \in 1 .. Len(s) : s[k].full = FALSE /\ e = s[k].entry
      BY <2>2 DEF EntriesOf
    <3>2. k # p
      BY <3>1 DEF FullPlaces, Places
    <3> QED
      BY <1>4, <3>1, <3>2 DEF EntriesOf
  <2>3. s[p].entry \in EntriesOf(r, FALSE)
    BY <1>0, <1>2, <1>4 DEF EntriesOf
  <2> QED
    BY <2>1, <2>2, <2>3
<1> QED
  BY <1>4, <1>6, <1>7, <1>8 DEF InFull, AsLine

\* The first item of a kind is that of the oldest entry of the kind.
LEMMA FirstIsOldest ==
    ASSUME NEW n \in Nat, NEW s \in Seq(Item(n)), InRow(s), NEW f \in BOOLEAN,
           Places(s, f) # {}, NEW p, p = Rejections!Oldest(Places(s, f))
    PROVE  /\ p \in 1 .. Len(s) /\ s[p].full = f
           /\ \A e \in EntriesOf(s, f) : e # s[p].entry => s[p].entry < e
<1> DEFINE is == Places(s, f)
<1>0. is \in SUBSET Nat /\ is = {i \in 1 .. Len(s) : s[i].full = f} /\ is # {} /\ p = Rejections!Oldest(is)
  BY DEF Places
<1> HIDE DEF is
<1>1. p \in is /\ \A j \in is : p <= j
  BY <1>0, OldestIsFirst
<1>2. ASSUME NEW e \in EntriesOf(s, f), e # s[p].entry PROVE s[p].entry < e
  <2>1. PICK k \in is : e = s[k].entry
    BY <1>0 DEF EntriesOf
  <2>2. p < k
    BY <1>0, <1>1, <1>2, <2>1
  <2> QED
    BY <1>0, <1>1, <2>1, <2>2 DEF InRow
<1> QED
  BY <1>0, <1>1, <1>2

\* The entries of which only a line was ever to be shown.
Lines == 1 .. Len(entries) \ Rejections!Recent

\* The entries of the text that is being fitted.
Shows(f) == EntriesOf(rendered, f)

\* Lines go first, and all of them before an entry is demoted; then every entry shown is recent.
TrimInv ==
    /\ entries \in Seq(EntryTexts)
    /\ cap \in Int
    /\ trimming \in {"lines", "full", "done"}
    /\ rendered \in Seq(Item(Len(entries)))
    /\ InRow(rendered)
    /\ Shows(TRUE) \subseteq Rejections!Recent
    /\ trimming = "lines" => Rejections!Recent \subseteq Shows(TRUE) /\ Shows(FALSE) \subseteq Lines
    /\ trimming = "full" => Lines \cap (Shows(TRUE) \cup Shows(FALSE)) = {}
    /\ Rejections!LeastNeededGoesFirst

\* What the text shows, by both names.
LEMMA ShownIs == \A f \in BOOLEAN : Rejections!Shown(f) = Shows(f)
  BY DEF Rejections!Shown, Rejections!Positions, Shows, EntriesOf

\* What the text shows is numbers of entries.
LEMMA ShowsEntries ==
    ASSUME NEW n \in Nat, NEW s \in Seq(Item(n)), NEW f
    PROVE  EntriesOf(s, f) \subseteq 1 .. n
<1>1. \A i \in 1 .. Len(s) : s[i] \in Item(n)
  OBVIOUS
<1>2. \A i \in 1 .. Len(s) : s[i].entry \in 1 .. n
  BY <1>1 DEF Item
<1> QED
  BY <1>2 DEF EntriesOf

\* Kept in terms of what was shown and is shown: a line goes, the oldest.
LEMMA DropKeepsOrder ==
    ASSUME TrimInv, Rejections!DropLine PROVE TrimInv'
<1> DEFINE n == Len(entries)
           is == Rejections!Positions(FALSE)
           p == Rejections!Oldest(is)
           e == rendered[p].entry
<1>1. /\ UNCHANGED <<entries, wanted, cap, trimming, length>> /\ trimming = "lines"
      /\ is # {} /\ rendered' = Rejections!RemoveAt(rendered, p)
  BY DEF Rejections!DropLine
<1>2. n \in Nat /\ rendered \in Seq(Item(n)) /\ InRow(rendered)
  BY DEF TrimInv
<1>3. is = Places(rendered, FALSE)
  BY DEF Rejections!Positions, Places
<1> HIDE DEF is
<1>p. p = Rejections!Oldest(is)
  OBVIOUS
<1> HIDE DEF p, n
<1>4. p \in 1 .. Len(rendered) /\ rendered[p].full = FALSE
      /\ \A x \in EntriesOf(rendered, FALSE) : x # e => e < x
  <2>1. is # {} /\ FALSE \in BOOLEAN
    BY <1>1
  <2>2. p \in 1 .. Len(rendered) /\ rendered[p].full = FALSE
    BY <1>2, <1>3, <1>p, <2>1, FirstIsOldest
  <2>3. \A x \in EntriesOf(rendered, FALSE) : x # rendered[p].entry => rendered[p].entry < x
    BY <1>2, <1>3, <1>p, <2>1, FirstIsOldest
  <2> QED
    BY <2>2, <2>3
<1>5. /\ rendered' \in Seq(Item(n)) /\ InRow(rendered')
      /\ \A f \in BOOLEAN : EntriesOf(rendered', f) = EntriesOf(rendered, f) \ {e}
  <2> DEFINE r == rendered'
  <2>1. r = Rejections!RemoveAt(rendered, p)
    BY <1>1
  <2>2. p \in 1 .. Len(rendered)
    BY <1>4
  <2> HIDE DEF r
  <2>3. /\ r \in Seq(Item(n)) /\ InRow(r)
        /\ \A f \in BOOLEAN : EntriesOf(r, f) = EntriesOf(rendered, f) \ {rendered[p].entry}
    BY <1>2, <2>1, <2>2, RowWithout
  <2> QED
    BY <2>3 DEF r
<1>6. e \in Shows(FALSE)
  BY <1>4 DEF Shows, EntriesOf
<1> HIDE DEF e
<1>7. Shows(TRUE)' = Shows(TRUE) \ {e} /\ Shows(FALSE)' = Shows(FALSE) \ {e}
  BY <1>5 DEF Shows
<1>8. Rejections!Recent' = Rejections!Recent /\ Lines' = Lines
  BY <1>1 DEF Rejections!Recent, Rejections!NonAccepted, Lines
<1>9. Shows(TRUE) = Rejections!Recent /\ Shows(FALSE) \subseteq Lines
  BY <1>1 DEF TrimInv
<1>10. e \notin Rejections!Recent
  BY <1>6, <1>9 DEF Lines
<1>11. Shows(TRUE)' = Rejections!Recent' /\ Shows(FALSE)' \subseteq Lines'
  BY <1>7, <1>8, <1>9, <1>10
<1>12. \A i \in Lines \cap (Shows(TRUE) \cup Shows(FALSE)), j \in Lines \ (Shows(TRUE) \cup Shows(FALSE)) : j < i
  BY ShownIs DEF TrimInv, Rejections!LeastNeededGoesFirst, Rejections!OldestGoFirst, Lines
<1>13. ASSUME NEW i \in Lines' \cap (Shows(TRUE)' \cup Shows(FALSE)'), NEW j \in Lines' \ (Shows(TRUE)' \cup Shows(FALSE)')
       PROVE  j < i
  <2>1. i \in Lines \cap Shows(FALSE) /\ i # e
    BY <1>7, <1>8, <1>11 DEF Lines
  <2>2. CASE j = e
    BY <1>4, <2>1, <2>2 DEF Shows
  <2>3. CASE j # e
    BY <1>7, <1>8, <1>12, <2>1, <2>3
  <2> QED
    BY <2>2, <2>3
<1>14. Rejections!OldestGoFirst'
  BY <1>11, <1>13, ShownIs DEF Rejections!OldestGoFirst, Lines, Rejections!Shown, Rejections!Positions, Shows, EntriesOf
<1>15. Rejections!RecentStayNamed'
  BY <1>11, ShownIs DEF Rejections!RecentStayNamed, Rejections!Shown, Rejections!Positions, Shows, EntriesOf
<1>16. Rejections!CapIsKept'
  BY <1>1 DEF Rejections!CapIsKept
<1>17. rendered' \in Seq(Item(Len(entries')))
  BY <1>1, <1>5 DEF n
<1> QED
  BY <1>1, <1>5, <1>11, <1>14, <1>15, <1>16, <1>17 DEF TrimInv, Rejections!LeastNeededGoesFirst

\* The oldest entry in full becomes a line; no other line than those of recent entries is left.
LEMMA DemoteKeepsOrder ==
    ASSUME TrimInv, Rejections!Demote PROVE TrimInv'
<1> DEFINE n == Len(entries)
           is == Rejections!Positions(TRUE)
           p == Rejections!Oldest(is)
           e == rendered[p].entry
<1>1. /\ UNCHANGED <<entries, wanted, cap, length>> /\ trimming' = "full"
      /\ trimming = "full" \/ (trimming = "lines" /\ Rejections!Positions(FALSE) = {})
      /\ is # {} /\ rendered' = [rendered EXCEPT ![p].full = FALSE]
  BY DEF Rejections!Demote
<1>2. n \in Nat /\ rendered \in Seq(Item(n)) /\ InRow(rendered)
  BY DEF TrimInv
<1>3. is = Places(rendered, TRUE)
  BY DEF Rejections!Positions, Places
<1> HIDE DEF is
<1>p. p = Rejections!Oldest(is)
  OBVIOUS
<1> HIDE DEF p, n
<1>4. p \in 1 .. Len(rendered) /\ rendered[p].full = TRUE
      /\ \A x \in EntriesOf(rendered, TRUE) : x # e => e < x
  <2>1. is # {} /\ TRUE \in BOOLEAN
    BY <1>1
  <2>2. p \in 1 .. Len(rendered) /\ rendered[p].full = TRUE
    BY <1>2, <1>3, <1>p, <2>1, FirstIsOldest
  <2>3. \A x \in EntriesOf(rendered, TRUE) : x # rendered[p].entry => rendered[p].entry < x
    BY <1>2, <1>3, <1>p, <2>1, FirstIsOldest
  <2> QED
    BY <2>2, <2>3
<1>5. /\ rendered' \in Seq(Item(n)) /\ InRow(rendered')
      /\ EntriesOf(rendered', TRUE) = EntriesOf(rendered, TRUE) \ {e}
      /\ EntriesOf(rendered', FALSE) = EntriesOf(rendered, FALSE) \cup {e}
  <2> DEFINE r == rendered'
  <2>1. r = Demoted(rendered, p)
    BY <1>1 DEF Demoted
  <2>2. p \in FullPlaces(rendered)
    BY <1>4 DEF FullPlaces, Places
  <2> HIDE DEF r
  <2>3. /\ r \in Seq(Item(n)) /\ InRow(r)
        /\ InFull(r) = InFull(rendered) \ {rendered[p].entry}
        /\ AsLine(r) = AsLine(rendered) \cup {rendered[p].entry}
    BY <1>2, <2>1, <2>2, RowDemoted
  <2> QED
    BY <2>3 DEF r, InFull, AsLine
<1>6. e \in Shows(TRUE)
  BY <1>4 DEF Shows, EntriesOf
<1> HIDE DEF e
<1>7. Shows(TRUE)' = Shows(TRUE) \ {e} /\ Shows(FALSE)' = Shows(FALSE) \cup {e}
  BY <1>5 DEF Shows
<1>8. Rejections!Recent' = Rejections!Recent /\ Lines' = Lines
  BY <1>1 DEF Rejections!Recent, Rejections!NonAccepted, Lines
<1>9. Lines \cap (Shows(TRUE) \cup Shows(FALSE)) = {}
  <2>1. CASE trimming = "full"
    BY <2>1 DEF TrimInv
  <2>2. CASE trimming = "lines" /\ Rejections!Positions(FALSE) = {}
    <3>1. Shows(FALSE) = {}
      BY <2>2, ShownIs DEF Rejections!Shown
    <3>2. Shows(TRUE) \subseteq Rejections!Recent
      BY DEF TrimInv
    <3> QED
      BY <3>1, <3>2 DEF Lines
  <2> QED
    BY <1>1, <2>1, <2>2
<1>10. Shows(TRUE)' \cup Shows(FALSE)' = Shows(TRUE) \cup Shows(FALSE)
  BY <1>6, <1>7
<1>11. Shows(TRUE)' \subseteq Rejections!Recent' /\ Lines' \cap (Shows(TRUE)' \cup Shows(FALSE)') = {}
  BY <1>7, <1>8, <1>9, <1>10 DEF TrimInv
<1>12. \A i \in Rejections!Recent \ Shows(TRUE), j \in Shows(TRUE) : i < j
  BY ShownIs DEF TrimInv, Rejections!LeastNeededGoesFirst, Rejections!OldestGoFirst
<1>13. ASSUME NEW i \in Rejections!Recent' \ Shows(TRUE)', NEW j \in Shows(TRUE)' PROVE i < j
  <2>1. j \in Shows(TRUE) /\ j # e
    BY <1>7
  <2>2. CASE i = e
    BY <1>4, <2>1, <2>2 DEF Shows
  <2>3. CASE i # e
    BY <1>7, <1>8, <1>12, <2>1, <2>3
  <2> QED
    BY <2>2, <2>3
<1>14. Rejections!OldestGoFirst'
  BY <1>11, <1>13, ShownIs DEF Rejections!OldestGoFirst, Lines, Rejections!Shown, Rejections!Positions, Shows, EntriesOf
<1>15. Rejections!RecentStayNamed'
  <2>1. Rejections!Recent \subseteq Shows(TRUE) \cup Shows(FALSE)
    BY ShownIs DEF TrimInv, Rejections!LeastNeededGoesFirst, Rejections!RecentStayNamed
  <2>2. Rejections!Recent' \subseteq Shows(TRUE)' \cup Shows(FALSE)'
    BY <1>8, <1>10, <2>1
  <2> QED
    BY <2>2 DEF Rejections!RecentStayNamed, Rejections!Shown, Rejections!Positions, Shows, EntriesOf
<1>16. Rejections!CapIsKept'
  BY <1>1 DEF Rejections!CapIsKept
<1>17. rendered' \in Seq(Item(Len(entries')))
  BY <1>1, <1>5 DEF n
<1> QED
  BY <1>1, <1>5, <1>11, <1>14, <1>15, <1>16, <1>17 DEF TrimInv, Rejections!LeastNeededGoesFirst

\* A text that is left alone stays as long as it is.
LEMMA SizeStays ==
    ASSUME UNCHANGED <<entries, rendered, cap>> PROVE Rejections!TooLong' = Rejections!TooLong
<1>1. Rejections!TextSize(rendered)' = Rejections!TextSize(rendered)
  BY DEF Rejections!TextSize, Rejections!Size, Rejections!FoldLeft, Rejections!MapThenFoldSet, Rejections!Max
<1> QED
  BY <1>1 DEF Rejections!TooLong

\* The text is returned as it is, or cut to the cap with recent lines only.
LEMMA ReturnKeepsOrder ==
    ASSUME TrimInv, Rejections!Return PROVE TrimInv'
<1>1. /\ UNCHANGED <<entries, wanted, cap, rendered>> /\ trimming' = "done"
      /\ trimming \in {"lines", "full"}
  BY DEF Rejections!Return, TrimInv
<1>2. Rejections!Recent' = Rejections!Recent /\ Rejections!TooLong' = Rejections!TooLong
  BY <1>1, SizeStays DEF Rejections!Recent, Rejections!NonAccepted
<1>3. Rejections!Shown(TRUE)' = Rejections!Shown(TRUE) /\ Rejections!Shown(FALSE)' = Rejections!Shown(FALSE)
  BY <1>1 DEF Rejections!Shown, Rejections!Positions
<1>4. Rejections!CapIsKept'
  <2>1. CASE ~ Rejections!TooLong
    BY <1>2, <2>1 DEF Rejections!CapIsKept
  <2>2. CASE Rejections!TooLong
    <3>1. length' = (IF cap > MarkLength THEN cap - MarkLength ELSE 0) + MarkLength
      BY <2>2 DEF Rejections!Return
    <3>2. cap \in Int /\ MarkLength \in Nat
      BY DEF TrimInv
    <3>3. length' <= (IF cap > MarkLength THEN cap ELSE MarkLength)
      BY <3>1, <3>2
    <3>4. Rejections!Positions(TRUE) = {} /\ (trimming = "full" \/ Rejections!Positions(FALSE) = {})
      BY <2>2 DEF Rejections!Return
    <3>5. Shows(TRUE) = {}
      BY <3>4, ShownIs DEF Rejections!Shown
    <3>6. Shows(FALSE) \subseteq Rejections!Recent
      <4>1. CASE trimming = "full"
        <5>1. Lines \cap Shows(FALSE) = {}
          BY <4>1 DEF TrimInv
        <5>2. Shows(FALSE) \subseteq 1 .. Len(entries)
          <6>1. Len(entries) \in Nat /\ rendered \in Seq(Item(Len(entries)))
            BY DEF TrimInv
          <6>2. EntriesOf(rendered, FALSE) \subseteq 1 .. Len(entries)
            BY <6>1, ShowsEntries
          <6> QED
            BY <6>2 DEF Shows
        <5> QED
          BY <5>1, <5>2 DEF Lines
      <4>2. CASE Rejections!Positions(FALSE) = {}
        BY <4>2, ShownIs DEF Rejections!Shown
      <4> QED
        BY <3>4, <4>1, <4>2
    <3>7. Rejections!Recent \subseteq Shows(TRUE) \cup Shows(FALSE)
      BY ShownIs DEF TrimInv, Rejections!LeastNeededGoesFirst, Rejections!RecentStayNamed
    <3>8. Rejections!Shown(TRUE)' = {} /\ Rejections!Shown(FALSE)' = Rejections!Recent'
      BY <1>2, <1>3, <3>5, <3>6, <3>7, ShownIs
    <3> QED
      BY <1>1, <3>3, <3>8 DEF Rejections!CapIsKept
  <2> QED
    BY <2>1, <2>2
<1>5. Rejections!OldestGoFirst' /\ Rejections!RecentStayNamed'
  BY <1>1, <1>2, <1>3 DEF TrimInv, Rejections!LeastNeededGoesFirst, Rejections!OldestGoFirst, Rejections!RecentStayNamed
<1>6. Shows(TRUE)' = Shows(TRUE)
  BY <1>1 DEF Shows, EntriesOf
<1> QED
  BY <1>1, <1>2, <1>4, <1>5, <1>6 DEF TrimInv, Rejections!LeastNeededGoesFirst, InRow

\* Every entry is shown at the beginning, the recent ones in full.
LEMMA TrimInit == Rejections!Init => TrimInv
<1> SUFFICES ASSUME Rejections!Init PROVE TrimInv
  OBVIOUS
<1> DEFINE n == Len(entries)
           item(i) == [entry |-> i, full |-> i \in Rejections!Recent]
<1>1. PICK k \in 1 .. MaxEntries : entries \in [1 .. k -> EntryTexts]
  BY DEF Rejections!Init
<1>2. entries \in Seq(EntryTexts) /\ n \in Nat
  BY <1>1
<1>3. cap \in Int /\ trimming = "lines"
  BY DEF Rejections!Init
<1>4. rendered = [i \in 1 .. n |-> item(i)]
  BY DEF Rejections!Init
<1>5. \A i \in 1 .. n : item(i) \in Item(n)
  BY DEF Item
<1> HIDE DEF n
<1>6. rendered \in Seq(Item(n)) /\ Len(rendered) = n
  <2>1. rendered \in [1 .. n -> Item(n)]
    BY <1>4, <1>5
  <2> DEFINE I == Item(n)
  <2> HIDE DEF I, item
  <2>2. rendered \in [1 .. n -> I]
    BY <2>1 DEF I
  <2>3. rendered \in Seq(I) /\ Len(rendered) = n
    BY <1>2, <2>2
  <2> QED
    BY <2>3 DEF I
<1>7. ASSUME NEW i \in 1 .. n
      PROVE  /\ rendered[i].entry = i
             /\ i \in Rejections!Recent => rendered[i].full = TRUE
             /\ i \notin Rejections!Recent => rendered[i].full = FALSE
  <2> DEFINE recent == i \in Rejections!Recent
  <2>1. rendered[i] = [entry |-> i, full |-> recent]
    BY <1>4
  <2>2. recent <=> i \in Rejections!Recent
    OBVIOUS
  <2>3. recent \in BOOLEAN
    OBVIOUS
  <2> HIDE DEF recent
  <2>4. rendered[i].entry = i /\ rendered[i].full = recent
    BY <2>1
  <2>5. i \in Rejections!Recent => recent = TRUE
    BY <2>2, <2>3
  <2>6. i \notin Rejections!Recent => recent = FALSE
    BY <2>2, <2>3
  <2> QED
    BY <2>4, <2>5, <2>6
<1>8. InRow(rendered)
  BY <1>2, <1>6, <1>7 DEF InRow
<1>9. Rejections!Recent \subseteq 1 .. n
  BY DEF Rejections!Recent, Rejections!NonAccepted, n
<1>10. Shows(TRUE) = Rejections!Recent
  BY <1>6, <1>7, <1>9 DEF Shows, EntriesOf
<1>11. Shows(FALSE) = Lines
  <2>1. ASSUME NEW i \in 1 .. n PROVE rendered[i].full = FALSE <=> i \notin Rejections!Recent
    BY <1>7
  <2>2. Shows(FALSE) = {i \in 1 .. n : i \notin Rejections!Recent}
    <3>1. \A i \in 1 .. n : rendered[i].entry = i
      BY <1>7
    <3>2. \A i \in 1 .. n : rendered[i].full = FALSE <=> i \notin Rejections!Recent
      BY <2>1
    <3> QED
      BY <1>6, <3>1, <3>2 DEF Shows, EntriesOf
  <2> QED
    BY <2>2 DEF Lines, n
<1>12. Rejections!OldestGoFirst
  BY <1>10, <1>11, ShownIs DEF Rejections!OldestGoFirst, Lines
<1>13. Rejections!RecentStayNamed
  BY <1>10, ShownIs DEF Rejections!RecentStayNamed
<1>14. Rejections!CapIsKept
  BY <1>3 DEF Rejections!CapIsKept
<1> QED
  BY <1>2, <1>3, <1>6, <1>8, <1>10, <1>11, <1>12, <1>13, <1>14 DEF TrimInv, Rejections!LeastNeededGoesFirst, n

\* Every step keeps it.
LEMMA TrimStep == ASSUME TrimInv, [Rejections!Next]_Rejections!vars PROVE TrimInv'
<1>1. CASE UNCHANGED Rejections!vars
  <2>1. UNCHANGED <<entries, wanted, cap, rendered, trimming, length>>
    BY <1>1 DEF Rejections!vars
  <2>2. Rejections!Recent' = Rejections!Recent /\ Rejections!TooLong' = Rejections!TooLong
    BY <2>1, SizeStays DEF Rejections!Recent, Rejections!NonAccepted
  <2>3. Rejections!Shown(TRUE)' = Rejections!Shown(TRUE) /\ Rejections!Shown(FALSE)' = Rejections!Shown(FALSE)
    BY <2>1 DEF Rejections!Shown, Rejections!Positions
  <2>4. Rejections!LeastNeededGoesFirst'
    BY <2>1, <2>2, <2>3 DEF TrimInv, Rejections!LeastNeededGoesFirst, Rejections!OldestGoFirst,
                            Rejections!RecentStayNamed, Rejections!CapIsKept
  <2>5. Shows(TRUE)' = Shows(TRUE) /\ Shows(FALSE)' = Shows(FALSE) /\ Lines' = Lines
    BY <2>1, <2>2 DEF Shows, EntriesOf, Lines
  <2> QED
    BY <2>1, <2>2, <2>4, <2>5 DEF TrimInv, InRow
<1> QED
  BY <1>1, DropKeepsOrder, DemoteKeepsOrder, ReturnKeepsOrder DEF Rejections!Next

HIDE TextAssumption

USE NoneAssumption, AttemptsAssumption

-----------------------------------------------------------------------------
(* AttemptsBlock: what the refiner is shown of the traces.                 *)

PieceType == [piece : {"summary", "trace", "usage"}, of : Nat]

\* What a sequence has drawn.
Got(s) == {s[n] : n \in 1 .. Len(s)}

\* A sample leaves nobody of a stratum without a budget and as many of another as its budget, and
\* has the stratum without a budget in its order.
SampleOf(s) ==
    /\ s \in Seq(1 .. Len(batch))
    /\ Got(s) \subseteq Block!Left
    /\ \A i \in Block!Left \ Got(s) :
          /\ Block!Budget(batch[i].passed) # None
          /\ Cardinality({j \in Got(s) : batch[j].passed = batch[i].passed}) = Block!Budget(batch[i].passed)
    /\ \A m, n \in 1 .. Len(s) :
          m < n /\ batch[s[m]].passed = batch[s[n]].passed /\ Block!Budget(batch[s[n]].passed) = None
             => s[m] < s[n]

\* A trace at its place in the block, or the table at the end.
TraceAt(n) == block[n].piece = "trace" /\ block[n].of \in Block!Taken
TableAt(n) == block[n].piece = "usage" /\ block[n].of = 0 /\ n = Len(block) /\ whole # None

\* The block lists the traces in their order, and is cut when all of them are in it.
ListInv ==
    /\ SampleOf(chosen)
    /\ Len(block) >= 1 /\ block[1].piece = "summary"
    /\ \A n \in 2 .. Len(block) : TraceAt(n) \/ TableAt(n)
    /\ \A m, n \in 2 .. Len(block) : m < n /\ TraceAt(n) => Block!Before(block[m].of, block[n].of)
    /\ \A n \in 2 .. Len(block) : TraceAt(n) =>
          \A j \in Block!Taken \ Block!Listed : Block!Before(block[n].of, j)

BlockInv ==
    /\ batch \in Seq(Attempts)
    /\ images \in Nat /\ budgets \in Budgets
    /\ block \in Seq(PieceType)
    /\ pictures \in Seq(Nat)
    /\ chosen = None => whole = None
    /\ chosen # None => ListInv
    /\ whole = None => pictures = <<>>
    /\ whole # None => whole \in 0 .. Len(block) /\ Block!Taken \subseteq Block!Listed
    /\ Block!ImagesOfFailures

-----------------------------------------------------------------------------
(* The sample.                                                             *)

\* The instance counts as this module does.
LEMMA BlockCount == \A S : Block!Cardinality(S) = Cardinality(S)
  BY DEF Block!Cardinality, Cardinality

\* A sequence that takes each of a set once has all of it.
LEMMA AllAreListed ==
    ASSUME NEW S, IsFiniteSet(S), NEW f \in Block!SetToSeqs(S)
    PROVE  f \in Seq(S) /\ Got(f) = S
<1> DEFINE n == Cardinality(S)
           D == 1 .. n
<1>1. n \in Nat
  BY FS_CardinalityType
<1>2. f \in [D -> S] /\ \A i, j \in D : i # j => f[i] # f[j]
  BY BlockCount DEF Block!SetToSeqs
<1>3. Cardinality(D) = n
  BY <1>1, FS_Interval
<1>4. f \in Injection(D, S)
  BY <1>2 DEF Injection, IsInjective
<1>5. f \in Surjection(D, S)
  BY <1>3, <1>4, FS_Injection
<1>6. f \in Seq(S) /\ Len(f) = n
  BY <1>1, <1>2
<1>7. \A x \in S : \E i \in D : f[i] = x
  BY <1>5 DEF Surjection
<1> QED
  BY <1>2, <1>6, <1>7 DEF Got

\* The traces that are left are finitely many, and of one stratum or the other.
LEMMA StratumIsLeft ==
    ASSUME batch \in Seq(Attempts), NEW p \in BOOLEAN
    PROVE  /\ Block!Stratum(p) \subseteq Block!Left /\ IsFiniteSet(Block!Stratum(p))
           /\ Block!Left \subseteq 1 .. Len(batch) /\ IsFiniteSet(Block!Left)
           /\ \A i \in Block!Stratum(p) : batch[i].passed = p
           /\ \A i \in Block!Left : batch[i].passed \in BOOLEAN /\ i \in Block!Stratum(batch[i].passed)
<1>1. Block!Left \subseteq 1 .. Len(batch) /\ Block!Stratum(p) \subseteq Block!Left
  BY DEF Block!Left, Block!Stratum
<1>2. IsFiniteSet(1 .. Len(batch))
  BY FS_Interval
<1>3. IsFiniteSet(Block!Left) /\ IsFiniteSet(Block!Stratum(p))
  BY <1>1, <1>2, FS_Subset
<1>4. \A i \in 1 .. Len(batch) : batch[i].passed \in BOOLEAN
  <2>1. \A i \in 1 .. Len(batch) : batch[i] \in Attempts
    OBVIOUS
  <2> QED
    BY <2>1
<1> QED
  BY <1>1, <1>3, <1>4 DEF Block!Stratum

\* In turn, a set is all there and rising.
LEMMA TurnRises ==
    ASSUME NEW S, IsFiniteSet(S), NEW f \in Block!InTurn(S)
    PROVE  /\ f \in Seq(S) /\ Got(f) = S
           /\ \A m, n \in 1 .. Len(f) : m < n => f[m] < f[n]
  BY AllAreListed DEF Block!InTurn

\* A stratum is drawn whole and in turn, or as far as its budget goes.
LEMMA StratumIsDrawn ==
    ASSUME batch \in Seq(Attempts), budgets \in Budgets, NEW p \in BOOLEAN, NEW f \in Block!Drawn(p)
    PROVE  /\ f \in Seq(Block!Stratum(p))
           /\ \A i \in Block!Stratum(p) \ Got(f) :
                 Block!Budget(p) # None /\ Cardinality(Got(f)) = Block!Budget(p)
           /\ Block!Budget(p) = None => \A m, n \in 1 .. Len(f) : m < n => f[m] < f[n]
<1> DEFINE pool == Block!Stratum(p)
           size == Cardinality(pool)
           allowed == Block!Budget(p)
<1>1. IsFiniteSet(pool)
  BY StratumIsLeft
<1>2. size \in Nat
  BY <1>1, FS_CardinalityType
<1>3. allowed \in Nat \cup {None}
  <2>1. budgets.failing \in Nat \cup {None} /\ budgets.passing \in Nat \cup {None}
    OBVIOUS
  <2> QED
    BY <2>1 DEF Block!Budget
<1>4. f \in IF allowed = None THEN Block!InTurn(pool)
            ELSE UNION {Block!SetToSeqs(t) : t \in Block!kSubset(IF allowed < size THEN allowed ELSE size, pool)}
  BY BlockCount DEF Block!Drawn
<1> HIDE DEF pool, allowed
<1>5. CASE allowed = None
  <2>1. f \in Block!InTurn(pool)
    BY <1>4, <1>5
  <2>2. /\ f \in Seq(pool) /\ Got(f) = pool
        /\ \A m, n \in 1 .. Len(f) : m < n => f[m] < f[n]
    BY <1>1, <2>1, TurnRises
  <2> QED
    BY <2>2 DEF pool, allowed
<1>6. CASE allowed # None
  <2>1. PICK t \in Block!kSubset(IF allowed < size THEN allowed ELSE size, pool) : f \in Block!SetToSeqs(t)
    BY <1>4, <1>6
  <2>2. t \subseteq pool /\ Cardinality(t) = IF allowed < size THEN allowed ELSE size
    BY BlockCount DEF Block!kSubset
  <2>3. IsFiniteSet(t)
    BY <1>1, <2>2, FS_Subset
  <2>4. f \in Seq(t) /\ Got(f) = t
    BY <2>1, <2>3, AllAreListed
  <2>5. f \in Seq(pool)
    BY <2>2, <2>4
  <2>6. ASSUME NEW i \in pool \ t PROVE Cardinality(t) = allowed
    <3>1. Cardinality(t) # size
      BY <1>1, <2>2, <2>6, FS_Subset
    <3> QED
      BY <2>2, <3>1
  <2> QED
    BY <1>6, <2>4, <2>5, <2>6 DEF pool, allowed
<1> QED
  BY <1>5, <1>6

\* A sequence of some is a sequence of more.
LEMMA SeqOfMore ==
    ASSUME NEW S, NEW T, S \subseteq T, NEW s \in Seq(S)
    PROVE  s \in Seq(T) /\ Len(s) \in Nat /\ \A i \in 1 .. Len(s) : s[i] \in S
  OBVIOUS

\* Two strata, one behind the other.
LEMMA StrataJoin ==
    ASSUME batch \in Seq(Attempts), budgets \in Budgets,
           NEW f \in Block!Drawn(FALSE), NEW q \in Block!Drawn(TRUE)
    PROVE  SampleOf(f \o q)
<1> DEFINE s == f \o q
           N == Len(f)
           M == Len(q)
           failed == Block!Stratum(FALSE)
           passed == Block!Stratum(TRUE)
<1>1. /\ f \in Seq(failed)
      /\ \A i \in failed \ Got(f) :
            Block!Budget(FALSE) # None /\ Cardinality(Got(f)) = Block!Budget(FALSE)
      /\ Block!Budget(FALSE) = None => \A m, n \in 1 .. N : m < n => f[m] < f[n]
  BY StratumIsDrawn
<1>2. /\ q \in Seq(passed)
      /\ \A i \in passed \ Got(q) :
            Block!Budget(TRUE) # None /\ Cardinality(Got(q)) = Block!Budget(TRUE)
      /\ Block!Budget(TRUE) = None => \A m, n \in 1 .. M : m < n => q[m] < q[n]
  BY StratumIsDrawn
<1>3. /\ failed \subseteq Block!Left /\ passed \subseteq Block!Left /\ Block!Left \subseteq 1 .. Len(batch)
      /\ \A i \in failed : batch[i].passed = FALSE
      /\ \A i \in passed : batch[i].passed = TRUE
      /\ \A i \in Block!Left : i \in failed \/ i \in passed
  BY StratumIsLeft
<1> HIDE DEF failed, passed
<1>4. f \in Seq(1 .. Len(batch)) /\ q \in Seq(1 .. Len(batch)) /\ N \in Nat /\ M \in Nat
  <2>1. failed \subseteq 1 .. Len(batch) /\ passed \subseteq 1 .. Len(batch)
    BY <1>3
  <2> QED
    BY <1>1, <1>2, <2>1, SeqOfMore
<1>5. /\ s \in Seq(1 .. Len(batch)) /\ Len(s) = N + M
      /\ \A i \in 1 .. N + M : s[i] = IF i <= N THEN f[i] ELSE q[i - N]
  BY <1>4, ConcatProperties
<1> HIDE DEF s, N, M
<1>n. N \in Nat /\ M \in Nat
  BY <1>4
<1>s. Len(s) = N + M /\ \A i \in 1 .. N + M : s[i] = IF i <= N THEN f[i] ELSE q[i - N]
  BY <1>5
<1>6. \A m \in 1 .. N + M : \/ (m \in 1 .. N) /\ s[m] = f[m]
                            \/ (m - N \in 1 .. M) /\ (m > N) /\ s[m] = q[m - N]
  <2> SUFFICES ASSUME NEW m \in 1 .. N + M
               PROVE  ((m \in 1 .. N) /\ s[m] = f[m]) \/ ((m - N \in 1 .. M) /\ (m > N) /\ s[m] = q[m - N])
    OBVIOUS
  <2>1. s[m] = IF m <= N THEN f[m] ELSE q[m - N]
    BY <1>s
  <2> QED
    BY <1>n, <2>1
<1>7. Got(s) = Got(f) \cup Got(q)
  <2>1. Got(s) \subseteq Got(f) \cup Got(q)
    <3>1. ASSUME NEW m \in 1 .. N + M PROVE s[m] \in Got(f) \cup Got(q)
      BY <1>6 DEF Got, N, M
    <3> QED
      BY <1>s, <3>1 DEF Got
  <2>2. ASSUME NEW i \in 1 .. N PROVE f[i] \in Got(s)
    <3>1. i \in 1 .. N + M /\ i <= N
      BY <1>n
    <3>2. s[i] = f[i]
      BY <1>s, <3>1
    <3> QED
      BY <1>s, <3>1, <3>2 DEF Got
  <2>3. ASSUME NEW i \in 1 .. M PROVE q[i] \in Got(s)
    <3>1. N + i \in 1 .. N + M /\ ~ (N + i <= N) /\ (N + i) - N = i
      BY <1>n
    <3>2. s[N + i] = q[i]
      BY <1>s, <3>1
    <3> QED
      BY <1>s, <3>1, <3>2 DEF Got
  <2> QED
    BY <2>1, <2>2, <2>3 DEF Got, N, M
<1>8. Got(f) \subseteq failed /\ Got(q) \subseteq passed
  BY <1>1, <1>2 DEF Got
<1>9. {j \in Got(s) : batch[j].passed = FALSE} = Got(f) /\ {j \in Got(s) : batch[j].passed = TRUE} = Got(q)
  BY <1>3, <1>7, <1>8
<1>10. ASSUME NEW i \in Block!Left \ Got(s)
       PROVE  /\ Block!Budget(batch[i].passed) # None
              /\ Cardinality({j \in Got(s) : batch[j].passed = batch[i].passed}) = Block!Budget(batch[i].passed)
  <2>1. CASE i \in failed
    <3>1. batch[i].passed = FALSE /\ i \in failed \ Got(f)
      BY <1>3, <1>7, <1>10, <2>1
    <3> QED
      BY <1>1, <1>9, <3>1
  <2>2. CASE i \in passed
    <3>1. batch[i].passed = TRUE /\ i \in passed \ Got(q)
      BY <1>3, <1>7, <1>10, <2>2
    <3> QED
      BY <1>2, <1>9, <3>1
  <2> QED
    BY <1>3, <2>1, <2>2
<1>11. ASSUME NEW m \in 1 .. N + M, NEW n \in 1 .. N + M, m < n,
              batch[s[m]].passed = batch[s[n]].passed, Block!Budget(batch[s[n]].passed) = None
       PROVE  s[m] < s[n]
  <2>f. ASSUME NEW k \in 1 .. N PROVE batch[f[k]].passed = FALSE
    BY <1>3, <1>8 DEF Got, N
  <2>q. ASSUME NEW k \in 1 .. M PROVE batch[q[k]].passed = TRUE
    BY <1>3, <1>8 DEF Got, M
  <2>1. CASE (m \in 1 .. N) /\ s[m] = f[m] /\ (n \in 1 .. N) /\ s[n] = f[n]
    BY <1>1, <1>11, <2>f, <2>1
  <2>2. CASE (m - N \in 1 .. M) /\ s[m] = q[m - N] /\ (n - N \in 1 .. M) /\ s[n] = q[n - N]
    <3>1. m - N < n - N
      BY <1>4, <1>11
    <3> QED
      BY <1>2, <1>11, <2>q, <2>2, <3>1
  <2>3. CASE (m \in 1 .. N) /\ s[m] = f[m] /\ (n - N \in 1 .. M) /\ s[n] = q[n - N]
    BY <1>11, <2>f, <2>q, <2>3
  <2>4. CASE (m - N \in 1 .. M) /\ (m > N) /\ (n \in 1 .. N)
    BY <1>4, <1>11, <2>4
  <2> QED
    BY <1>6, <2>1, <2>2, <2>3, <2>4
<1> QED
  BY <1>3, <1>5, <1>7, <1>8, <1>10, <1>11 DEF SampleOf, s

\* With or without budgets, what Apply chooses is a sample (traces.py:208-223).
LEMMA SampleIsDrawn ==
    ASSUME batch \in Seq(Attempts), budgets \in Budgets, NEW s \in Block!Sampled
    PROVE  SampleOf(s)
<1>1. CASE budgets.failing = None /\ budgets.passing = None
  <2>1. s \in Block!InTurn(Block!Left)
    BY <1>1 DEF Block!Sampled
  <2>2. IsFiniteSet(Block!Left) /\ Block!Left \subseteq 1 .. Len(batch)
    BY StratumIsLeft
  <2>3. /\ s \in Seq(Block!Left) /\ Got(s) = Block!Left
        /\ \A m, n \in 1 .. Len(s) : m < n => s[m] < s[n]
    BY <2>1, <2>2, TurnRises
  <2>4. s \in Seq(1 .. Len(batch))
    BY <2>2, <2>3
  <2> QED
    BY <2>3, <2>4 DEF SampleOf
<1>2. CASE ~ (budgets.failing = None /\ budgets.passing = None)
  <2>1. s \in UNION {{f \o q : q \in Block!Drawn(TRUE)} : f \in Block!Drawn(FALSE)}
    BY <1>2 DEF Block!Sampled
  <2>2. PICK f \in Block!Drawn(FALSE) : s \in {f \o q : q \in Block!Drawn(TRUE)}
    BY <2>1
  <2>3. PICK q \in Block!Drawn(TRUE) : s = f \o q
    BY <2>2
  <2> QED
    BY <2>3, StrataJoin
<1> QED
  BY <1>1, <1>2

-----------------------------------------------------------------------------
(* The block and the images.                                               *)

\* A trace is not before one with a higher score, and not before itself.
LEMMA BeforeFalls ==
    ASSUME batch \in Seq(Attempts), NEW i \in 1 .. Len(batch), NEW j \in 1 .. Len(batch), Block!Before(i, j)
    PROVE  i # j /\ batch[j].score <= batch[i].score
<1>1. batch[i] \in Attempts /\ batch[j] \in Attempts
  OBVIOUS
<1>2. batch[i].score \in Nat /\ batch[j].score \in Nat
  BY <1>1
<1> QED
  BY <1>2 DEF Block!Before

\* Cut anywhere, a block that lists all traces in their order keeps the low scores.
LEMMA LowScoresOutlive == ASSUME BlockInv PROVE Block!FailuresOutlive
<1> SUFFICES ASSUME whole # None PROVE Block!FailuresOutlive
  BY DEF Block!FailuresOutlive
<1>1. chosen # None /\ ListInv /\ whole \in 0 .. Len(block) /\ Block!Taken \subseteq Block!Listed /\ Len(block) \in Nat
  BY DEF BlockInv
<1>2. Block!Taken = Got(chosen) /\ Block!Taken \subseteq 1 .. Len(batch) /\ batch \in Seq(Attempts)
  BY <1>1 DEF ListInv, BlockInv, SampleOf, Got, Block!Taken
<1>3. ASSUME NEW i \in Block!Shown
      PROVE  \E n \in 2 .. Len(block) : n > Len(block) - whole /\ TraceAt(n) /\ block[n].of = i
  <2>1. PICK n \in 2 .. Len(block) : n > Len(block) - whole /\ block[n].piece = "trace" /\ block[n].of = i
    BY DEF Block!Shown
  <2>2. TraceAt(n) \/ TableAt(n)
    BY <1>1 DEF ListInv
  <2> QED
    BY <2>1, <2>2 DEF TableAt
<1>4. ASSUME NEW j \in Block!Taken PROVE \E n \in 2 .. Len(block) : TraceAt(n) /\ block[n].of = j
  <2>1. PICK n \in 2 .. Len(block) : block[n].of = j
    BY <1>1 DEF Block!Listed
  <2>2. TraceAt(n) \/ TableAt(n)
    BY <1>1 DEF ListInv
  <2>3. j # 0
    BY <1>2
  <2> QED
    BY <2>1, <2>2, <2>3 DEF TableAt
<1>5. ASSUME NEW i \in Block!Shown, NEW j \in Block!Taken, batch[j].score < batch[i].score PROVE j \in Block!Shown
  <2>1. PICK m \in 2 .. Len(block) : m > Len(block) - whole /\ TraceAt(m) /\ block[m].of = i
    BY <1>3
  <2>2. PICK n \in 2 .. Len(block) : TraceAt(n) /\ block[n].of = j
    BY <1>4
  <2>3. i \in 1 .. Len(batch) /\ j \in 1 .. Len(batch)
    BY <1>2, <2>1 DEF TraceAt
  <2>4. batch[i].score \in Nat /\ batch[j].score \in Nat
    <3>1. batch[i] \in Attempts /\ batch[j] \in Attempts
      BY <1>2, <2>3
    <3> QED
      BY <3>1
  <2>5. ~ (n < m)
    <3>1. SUFFICES ASSUME n < m PROVE FALSE
      OBVIOUS
    <3>2. Block!Before(j, i)
      BY <1>1, <2>1, <2>2, <3>1 DEF ListInv
    <3> QED
      BY <1>2, <1>5, <2>3, <2>4, <3>2, BeforeFalls
  <2>6. n > Len(block) - whole
    BY <1>1, <2>1, <2>5
  <2> QED
    BY <2>2, <2>6 DEF Block!Shown, TraceAt
<1>6. ASSUME Block!Shown # {}, NEW n \in 1 .. Len(block), block[n].piece = Block!Usage
      PROVE  n > Len(block) - whole
  <2>1. PICK m \in 2 .. Len(block) : m > Len(block) - whole
    BY <1>3, <1>6
  <2>2. n # 1
    BY <1>1, <1>6 DEF ListInv, Block!Usage
  <2>3. n \in 2 .. Len(block)
    BY <2>2
  <2>4. n = Len(block)
    BY <1>1, <1>6, <2>3 DEF ListInv, TraceAt, TableAt, Block!Usage
  <2> QED
    BY <1>1, <2>1, <2>4
<1>7. ASSUME whole = Len(block), NEW i \in 1 .. Len(batch) \ Block!Shown
      PROVE  (stale = "drop" /\ batch[i].stale) \/ Block!Filled(batch[i].passed)
  <2>1. Block!Shown \subseteq Block!Taken
    BY <1>3 DEF TraceAt
  <2>2. Block!Taken \subseteq Block!Shown
    <3>1. ASSUME NEW j \in Block!Taken PROVE j \in Block!Shown
      <4>1. PICK n \in 2 .. Len(block) : TraceAt(n) /\ block[n].of = j
        BY <1>4
      <4>2. n > Len(block) - whole
        BY <1>1, <1>7
      <4> QED
        BY <4>1, <4>2 DEF Block!Shown, TraceAt
    <3> QED
      BY <3>1
  <2>3. Block!Shown = Got(chosen)
    BY <1>2, <2>1, <2>2
  <2>4. CASE i \in Block!Left
    <3>1. /\ Block!Budget(batch[i].passed) # None
          /\ Cardinality({j \in Block!Shown : batch[j].passed = batch[i].passed}) = Block!Budget(batch[i].passed)
      BY <1>1, <1>7, <2>3, <2>4 DEF ListInv, SampleOf
    <3> QED
      BY <3>1, BlockCount DEF Block!Filled
  <2>5. CASE i \notin Block!Left
    BY <2>5 DEF Block!Left
  <2> QED
    BY <2>4, <2>5
<1> QED
  BY <1>5, <1>6, <1>7 DEF Block!FailuresOutlive

\* Nothing is listed at the beginning.
LEMMA BlockInit == Block!Init => BlockInv
<1> SUFFICES ASSUME Block!Init PROVE BlockInv
  OBVIOUS
<1>1. PICK k \in 0 .. MaxAttempts : batch \in [1 .. k -> Attempts]
  BY DEF Block!Init
<1>2. batch \in Seq(Attempts)
  BY <1>1
<1>3. images \in Nat /\ budgets \in Budgets /\ chosen = None /\ block = <<>> /\ pictures = <<>> /\ whole = None
  BY DEF Block!Init
<1>4. Block!ImagesOfFailures
  BY <1>3 DEF Block!ImagesOfFailures
<1> QED
  BY <1>2, <1>3, <1>4 DEF BlockInv

\* The stale ones are left out, or not, the rest is sampled, and the block begins.
LEMMA ApplyKeeps == ASSUME BlockInv, Block!Apply PROVE BlockInv'
<1>1. /\ UNCHANGED <<batch, stale, images, budgets, pictures, whole>> /\ chosen = None
      /\ chosen' \in Block!Sampled /\ block' = <<Block!Piece(Block!Summary)>>
  BY DEF Block!Apply
<1>2. whole = None /\ pictures = <<>> /\ images \in Nat
  BY <1>1 DEF BlockInv
<1>3. block' \in Seq(PieceType) /\ Len(block') = 1 /\ block'[1].piece = "summary"
  BY <1>1 DEF Block!Piece, Block!Summary, PieceType
<1>4. ListInv'
  <2>1. SampleOf(chosen')
    BY <1>1, SampleIsDrawn DEF BlockInv
  <2>2. SampleOf(chosen)'
    BY <1>1, <2>1 DEF SampleOf, Got, Block!Left, Block!Budget
  <2> QED
    BY <1>3, <2>2 DEF ListInv
<1>5. Block!ImagesOfFailures'
  BY <1>1, <1>2 DEF Block!ImagesOfFailures
<1> QED
  BY <1>1, <1>2, <1>3, <1>4, <1>5 DEF BlockInv

\* What does not touch the sample or the batch keeps the one a sample of the other.
LEMMA SampleStays ==
    ASSUME SampleOf(chosen), UNCHANGED <<batch, stale, budgets, chosen>> PROVE SampleOf(chosen)'
<1>1. Got(chosen)' = Got(chosen) /\ Block!Left' = Block!Left
  BY DEF Got, Block!Left
<1> QED
  BY <1>1 DEF SampleOf, Block!Budget

\* Nor does what leaves the block as it is disturb the list.
LEMMA ListStays ==
    ASSUME ListInv, UNCHANGED <<batch, stale, budgets, chosen, block, whole>> PROVE ListInv'
<1>1. SampleOf(chosen)'
  BY SampleStays DEF ListInv
<1>2. Block!Taken' = Block!Taken /\ Block!Listed' = Block!Listed
  BY DEF Block!Taken, Block!Listed
<1> QED
  BY <1>1, <1>2 DEF ListInv, TraceAt, TableAt, Block!Before

\* Images that stay are of the same traces.
LEMMA ImagesStay ==
    ASSUME Block!ImagesOfFailures, UNCHANGED <<batch, images, budgets, chosen, pictures>>
    PROVE  Block!ImagesOfFailures'
<1>1. Block!ImagesLeft' = Block!ImagesLeft
  BY DEF Block!ImagesLeft
<1> QED
  BY <1>1 DEF Block!ImagesOfFailures, Block!Passed, Block!Budget

\* The next trace comes behind those that are listed and before those that are not.
LEMMA ListKeeps == ASSUME BlockInv, NEW i \in 1 .. Len(batch), Block!List(i) PROVE BlockInv'
<1>1. /\ UNCHANGED <<batch, stale, images, budgets, chosen, pictures, whole>> /\ chosen # None
      /\ i \in Block!Taken \ Block!Listed /\ block' = Append(block, Block!Number(i))
      /\ \A j \in Block!Taken \ Block!Listed : j = i \/ Block!Before(i, j)
  BY DEF Block!List
<1>t. Block!Taken' = Block!Taken
  BY <1>1 DEF Block!Taken
<1>2. ListInv /\ block \in Seq(PieceType) /\ whole = None
  BY <1>1 DEF BlockInv
<1>3. Block!Number(i) \in PieceType /\ Block!Number(i).piece = "trace" /\ Block!Number(i).of = i
  BY DEF Block!Number, PieceType
<1> DEFINE n == Len(block)
           x == Block!Number(i)
           b == block'
<1> HIDE DEF x
<1>4. n \in Nat /\ n >= 1
  BY <1>2 DEF ListInv
<1>5. /\ b \in Seq(PieceType) /\ Len(b) = n + 1
      /\ \A k \in 1 .. n : b[k] = block[k]
      /\ b[n + 1] = x
  <2>1. b = Append(block, x)
    BY <1>1 DEF x
  <2>2. x \in PieceType
    BY <1>3 DEF x
  <2> HIDE DEF b
  <2>3. /\ Append(block, x) \in Seq(PieceType) /\ Len(Append(block, x)) = Len(block) + 1
        /\ \A k \in 1 .. Len(block) : Append(block, x)[k] = block[k]
        /\ Append(block, x)[Len(block) + 1] = x
    BY <1>2, <2>2, AppendProperties
  <2> QED
    BY <2>1, <2>3
<1>6. x.piece = "trace" /\ x.of = i
  BY <1>3 DEF x
<1> HIDE DEF n, b
<1>7. \A k \in 2 .. n : TraceAt(k)
  BY <1>2 DEF ListInv, TableAt, n
<1>8. ASSUME NEW k \in 2 .. n PROVE TraceAt(k)' /\ b[k] = block[k]
  <2>1. b[k] = block[k]
    BY <1>5
  <2> QED
    BY <1>1, <1>t, <1>7, <2>1 DEF TraceAt, b
<1>9. ASSUME NEW k, k = n + 1 PROVE TraceAt(k)'
  BY <1>1, <1>t, <1>5, <1>6, <1>9 DEF TraceAt, b
<1>10. Block!Listed' = Block!Listed \cup {i}
  <2>1. Block!Listed' = {b[k].of : k \in 2 .. n + 1}
    BY <1>5 DEF Block!Listed, b
  <2>2. ASSUME NEW y PROVE y \in Block!Listed' <=> y \in Block!Listed \cup {i}
    <3>1. ASSUME y \in Block!Listed' PROVE y \in Block!Listed \cup {i}
      <4>1. PICK k \in 2 .. n + 1 : y = b[k].of
        BY <2>1, <3>1
      <4>2. CASE k = n + 1
        BY <1>5, <1>6, <4>1, <4>2
      <4>3. CASE k # n + 1
        <5>1. k \in 2 .. n
          BY <1>4, <4>3
        <5> QED
          BY <1>8, <4>1, <5>1 DEF Block!Listed, n
      <4> QED
        BY <4>2, <4>3
    <3>2. ASSUME y \in Block!Listed PROVE y \in Block!Listed'
      <4>1. PICK k \in 2 .. n : y = block[k].of
        BY <3>2 DEF Block!Listed, n
      <4>2. k \in 2 .. n + 1 /\ y = b[k].of
        BY <1>4, <1>8, <4>1
      <4> QED
        BY <2>1, <4>2
    <3>3. i \in Block!Listed'
      <4>1. n + 1 \in 2 .. n + 1 /\ b[n + 1].of = i
        BY <1>4, <1>5, <1>6
      <4> QED
        BY <2>1, <4>1
    <3> QED
      BY <3>1, <3>2, <3>3
  <2> QED
    BY <2>2
<1>11. ASSUME NEW k \in 2 .. n + 1, NEW m \in 2 .. n + 1, m < k PROVE Block!Before(b[m].of, b[k].of)
  <2>1. m \in 2 .. n
    BY <1>4, <1>11
  <2>2. CASE k = n + 1
    <3>1. Block!Before(block[m].of, i)
      BY <1>1, <1>2, <1>7, <2>1 DEF ListInv, n
    <3> QED
      BY <1>5, <1>6, <1>8, <2>1, <2>2, <3>1
  <2>3. CASE k # n + 1
    <3>1. k \in 2 .. n
      BY <1>4, <2>3
    <3>2. Block!Before(block[m].of, block[k].of)
      BY <1>2, <1>7, <1>11, <2>1, <3>1 DEF ListInv, n
    <3> QED
      BY <1>8, <2>1, <3>1, <3>2
  <2> QED
    BY <2>2, <2>3
<1>12. ASSUME NEW k \in 2 .. n + 1, NEW j \in Block!Taken \ (Block!Listed \cup {i}) PROVE Block!Before(b[k].of, j)
  <2>1. CASE k = n + 1
    BY <1>1, <1>5, <1>6, <2>1
  <2>2. CASE k # n + 1
    <3>1. k \in 2 .. n
      BY <1>4, <2>2
    <3> QED
      BY <1>2, <1>7, <1>8, <3>1 DEF ListInv, n
  <2> QED
    BY <2>1, <2>2
<1>13. ListInv'
  <2>1. SampleOf(chosen)'
    BY <1>1, <1>2, SampleStays DEF ListInv
  <2>2. Len(block') >= 1 /\ block'[1].piece = "summary"
    <3>1. 1 \in 1 .. n /\ block[1].piece = "summary"
      BY <1>2, <1>4 DEF ListInv
    <3> QED
      BY <1>4, <1>5, <3>1 DEF b
  <2>3. \A k \in 2 .. Len(block') : TraceAt(k)'
    <3>1. Len(block') = n + 1
      BY <1>5 DEF b
    <3>2. \A k \in 2 .. n + 1 : k \in 2 .. n \/ k = n + 1
      BY <1>4
    <3> QED
      BY <1>8, <1>9, <3>1, <3>2
  <2>4. Len(block') = n + 1
    BY <1>5 DEF b
  <2>5. ASSUME NEW m \in 2 .. Len(block'), NEW k \in 2 .. Len(block'), m < k
        PROVE  Block!Before(block[m].of, block[k].of)'
    <3>1. Block!Before(block'[m].of, block'[k].of)
      BY <1>11, <2>4, <2>5 DEF b
    <3> QED
      BY <1>1, <3>1 DEF Block!Before
  <2>6. ASSUME NEW k \in 2 .. Len(block'), NEW j \in Block!Taken' \ Block!Listed' PROVE Block!Before(block[k].of, j)'
    <3>1. Block!Before(block'[k].of, j)
      BY <1>t, <1>10, <1>12, <2>4 DEF b
    <3> QED
      BY <1>1, <3>1 DEF Block!Before
  <2> QED
    BY <2>1, <2>2, <2>3, <2>5, <2>6 DEF ListInv
<1>14. Block!ImagesOfFailures'
  BY <1>1, ImagesStay DEF BlockInv
<1> QED
  BY <1>1, <1>2, <1>5, <1>13, <1>14 DEF BlockInv, b

\* The table closes the block, which is cut anywhere.
LEMMA CutKeeps == ASSUME BlockInv, Block!Cut PROVE BlockInv'
<1>1. /\ UNCHANGED <<batch, stale, images, budgets, chosen, pictures>> /\ chosen # None
      /\ whole = None /\ Block!Taken \subseteq Block!Listed /\ whole' \in 0 .. Len(block')
      /\ block' = block \/ block' = Append(block, Block!Piece(Block!Usage))
  BY DEF Block!Cut
<1>t. Block!Taken' = Block!Taken
  BY <1>1 DEF Block!Taken
<1>2. ListInv /\ block \in Seq(PieceType) /\ pictures = <<>>
  BY <1>1 DEF BlockInv
<1> DEFINE n == Len(block)
           x == Block!Piece(Block!Usage)
           b == block'
<1>3. x \in PieceType /\ x.piece = "usage" /\ x.of = 0
  BY DEF Block!Piece, Block!Usage, PieceType
<1> HIDE DEF x
<1>4. n \in Nat /\ n >= 1
  BY <1>2 DEF ListInv
<1>5. \A k \in 2 .. n : TraceAt(k)
  BY <1>1, <1>2 DEF ListInv, TableAt
<1>6. /\ b \in Seq(PieceType) /\ Len(b) \in {n, n + 1}
      /\ \A k \in 1 .. n : b[k] = block[k]
      /\ Len(b) = n + 1 => b[n + 1] = x
  <2>1. CASE block' = block
    BY <1>2, <1>4, <2>1
  <2>2. CASE block' = Append(block, x)
    <3> HIDE DEF b
    <3>1. /\ Append(block, x) \in Seq(PieceType) /\ Len(Append(block, x)) = Len(block) + 1
          /\ \A k \in 1 .. Len(block) : Append(block, x)[k] = block[k]
          /\ Append(block, x)[Len(block) + 1] = x
      BY <1>2, <1>3, AppendProperties
    <3>2. b = Append(block, x)
      BY <2>2 DEF b
    <3> QED
      BY <3>1, <3>2
  <2> QED
    BY <1>1, <2>1, <2>2 DEF x
<1> HIDE DEF n, b
<1>7. ASSUME NEW k \in 2 .. n PROVE TraceAt(k)' /\ b[k] = block[k] /\ k \in 2 .. Len(b)
  <2>1. b[k] = block[k] /\ k \in 2 .. Len(b)
    BY <1>4, <1>6
  <2> QED
    BY <1>t, <1>5, <2>1 DEF TraceAt, b
<1>8. ASSUME NEW k \in 2 .. Len(b), k \notin 2 .. n PROVE TableAt(k)' /\ ~ TraceAt(k)'
  <2>1. k = n + 1 /\ Len(b) = n + 1 /\ b[k] = x
    BY <1>4, <1>6, <1>8
  <2>2. whole' # None
    <3>1. Len(b) \in Nat
      BY <1>4, <1>6
    <3> QED
      BY <1>1, <3>1 DEF b
  <2> QED
    BY <1>3, <2>1, <2>2 DEF TableAt, TraceAt, b
<1>9. Block!Listed \subseteq Block!Listed'
  <2>1. ASSUME NEW k \in 2 .. n PROVE block[k].of \in Block!Listed'
    <3>1. b[k] = block[k] /\ k \in 2 .. Len(b)
      BY <1>7
    <3> QED
      BY <3>1 DEF Block!Listed, b
  <2> QED
    BY <2>1 DEF Block!Listed, n
<1>10. Block!Taken' \subseteq Block!Listed'
  BY <1>1, <1>t, <1>9
<1>11. ListInv'
  <2>1. SampleOf(chosen)'
    BY <1>1, <1>2, SampleStays DEF ListInv
  <2>2. Len(block') >= 1 /\ block'[1].piece = "summary"
    <3>1. 1 \in 1 .. n /\ block[1].piece = "summary"
      BY <1>2, <1>4 DEF ListInv
    <3> QED
      BY <1>4, <1>6, <3>1 DEF b
  <2>3. \A k \in 2 .. Len(block') : TraceAt(k)' \/ TableAt(k)'
    BY <1>7, <1>8 DEF b
  <2>5. ASSUME NEW m \in 2 .. Len(block'), NEW k \in 2 .. Len(block'), m < k, TraceAt(k)'
        PROVE  Block!Before(block[m].of, block[k].of)'
    <3>1. k \in 2 .. n
      BY <1>8, <2>5 DEF b
    <3>2. m \in 2 .. n
      BY <1>4, <2>5, <3>1
    <3>3. Block!Before(block[m].of, block[k].of)
      BY <1>2, <1>5, <2>5, <3>1, <3>2 DEF ListInv, n
    <3>4. block'[m] = block[m] /\ block'[k] = block[k]
      BY <1>7, <3>1, <3>2 DEF b
    <3> QED
      BY <1>1, <3>3, <3>4 DEF Block!Before
  <2>6. Block!Taken' \ Block!Listed' = {}
    BY <1>10
  <2> QED
    BY <2>1, <2>2, <2>3, <2>5, <2>6 DEF ListInv
<1>12. Block!ImagesOfFailures'
  BY <1>1, <1>2 DEF BlockInv, Block!ImagesOfFailures
<1> QED
  BY <1>1, <1>2, <1>6, <1>10, <1>11, <1>12 DEF BlockInv, b

\* An image more leaves no more of them to be taken.
LEMMA LeftShrinks ==
    ASSUME NEW i, i \in Nat, pictures \in Seq(Nat), pictures' = Append(pictures, i), UNCHANGED <<batch, chosen>>,
           chosen \in Seq(1 .. Len(batch)), batch \in Seq(Attempts)
    PROVE  Block!ImagesLeft' \subseteq Block!ImagesLeft
<1>1. ASSUME NEW j \in Block!ImagesLeft' PROVE j \in Block!ImagesLeft
  <2> DEFINE was == {n \in 1 .. Len(pictures) : pictures[n] = j}
             is == {n \in 1 .. Len(pictures') : pictures'[n] = j}
  <2>1. /\ Len(pictures') = Len(pictures) + 1 /\ Len(pictures) \in Nat
        /\ \A n \in 1 .. Len(pictures) : pictures'[n] = pictures[n]
    BY AppendProperties
  <2>2. was \subseteq is
    BY <2>1
  <2>3. IsFiniteSet(is)
    <3>1. IsFiniteSet(1 .. Len(pictures'))
      BY <2>1, FS_Interval
    <3> QED
      BY <3>1, FS_Subset
  <2>4. Block!Cardinality(is) < batch[chosen[j]].images /\ j \in 1 .. Len(chosen)
    BY DEF Block!ImagesLeft
  <2> HIDE DEF is, was
  <2>5. Cardinality(was) <= Cardinality(is) /\ Cardinality(was) \in Nat /\ Cardinality(is) \in Nat
    BY <2>2, <2>3, FS_Subset, FS_CardinalityType
  <2>6. Block!Cardinality(is) = Cardinality(is) /\ Block!Cardinality(was) = Cardinality(was)
    BY BlockCount
  <2>7. batch[chosen[j]] \in Attempts
    <3>1. chosen[j] \in 1 .. Len(batch)
      BY <2>4, SeqOfMore
    <3> QED
      BY <3>1
  <2>8. batch[chosen[j]].images \in Nat
    BY <2>7
  <2>9. Block!Cardinality(was) < batch[chosen[j]].images
    BY <2>4, <2>5, <2>6, <2>8
  <2> QED
    BY <2>4, <2>9 DEF was, Block!ImagesLeft
<1> QED
  BY <1>1

\* The image taken is of the failure that comes next.
LEMMA PictureKeeps == ASSUME BlockInv, NEW i \in 1 .. Len(batch), Block!Picture(i) PROVE BlockInv'
<1>1. /\ UNCHANGED <<batch, stale, images, budgets, chosen, block, whole>> /\ whole # None
      /\ Len(pictures) < images /\ i \in Block!ImagesLeft /\ pictures' = Append(pictures, i)
      /\ \A j \in Block!ImagesLeft : j = i \/ Block!Sooner(i, j)
  BY DEF Block!Picture
<1>2. /\ chosen # None /\ ListInv /\ batch \in Seq(Attempts) /\ pictures \in Seq(Nat) /\ images \in Nat
      /\ Block!ImagesOfFailures
  BY <1>1 DEF BlockInv
<1>3. /\ chosen \in Seq(1 .. Len(batch)) /\ i \in Nat
      /\ \A m, n \in 1 .. Len(chosen) :
            m < n /\ Block!Passed(m) = Block!Passed(n) /\ Block!Budget(Block!Passed(n)) = None
               => chosen[m] < chosen[n]
  BY <1>2 DEF ListInv, SampleOf, Block!Passed
<1>4. Block!ImagesLeft' \subseteq Block!ImagesLeft
  BY <1>1, <1>2, <1>3, LeftShrinks
<1>5. /\ pictures' \in Seq(Nat) /\ Len(pictures') = Len(pictures) + 1 /\ Len(pictures) \in Nat
      /\ \A n \in 1 .. Len(pictures) : pictures'[n] = pictures[n]
      /\ pictures'[Len(pictures) + 1] = i
  BY <1>1, <1>2, <1>3, AppendProperties
<1>6. Len(pictures') <= images'
  BY <1>1, <1>2, <1>5
<1>7. ASSUME NEW n \in 1 .. Len(pictures'), NEW j \in Block!ImagesLeft'
      PROVE  /\ Block!Passed(pictures'[n]) => Block!Passed(j)
             /\ (Block!Passed(pictures'[n]) = Block!Passed(j) /\ Block!Budget(Block!Passed(j)) = None)
                   => chosen[pictures'[n]] >= chosen[j]
  <2>1. j \in Block!ImagesLeft /\ j \in 1 .. Len(chosen) /\ i \in 1 .. Len(chosen)
    BY <1>1, <1>4 DEF Block!ImagesLeft
  <2>2. CASE n = Len(pictures) + 1
    <3>1. j = i \/ Block!Sooner(i, j)
      BY <1>1, <2>1
    <3>2. pictures'[n] = i
      BY <1>5, <2>2
    <3>3. chosen[i] \in 1 .. Len(batch) /\ chosen[j] \in 1 .. Len(batch)
      BY <1>3, <2>1
    <3>4. batch[chosen[i]] \in Attempts /\ batch[chosen[j]] \in Attempts
      BY <1>2, <3>3
    <3>5. Block!Passed(i) \in BOOLEAN /\ Block!Passed(j) \in BOOLEAN
      BY <3>4 DEF Block!Passed
    <3>6. Block!Passed(i) => Block!Passed(j)
      BY <3>1, <3>5 DEF Block!Sooner
    <3>7. ASSUME Block!Passed(i) = Block!Passed(j), Block!Budget(Block!Passed(j)) = None
          PROVE  chosen[i] >= chosen[j]
      <4>1. CASE j = i
        BY <3>3, <4>1
      <4>2. CASE j < i
        <5>1. Block!Budget(Block!Passed(i)) = None
          BY <3>7
        <5>2. chosen[j] < chosen[i]
          BY <1>3, <2>1, <3>7, <4>2, <5>1
        <5> QED
          BY <3>3, <5>2
      <4> QED
        BY <1>3, <2>1, <3>1, <3>5, <3>7, <4>1, <4>2 DEF Block!Sooner
    <3> QED
      BY <3>2, <3>6, <3>7
  <2>3. CASE n # Len(pictures) + 1
    <3>1. n \in 1 .. Len(pictures)
      BY <1>5, <2>3
    <3> QED
      BY <1>2, <1>5, <2>1, <3>1 DEF Block!ImagesOfFailures
  <2> QED
    BY <2>2, <2>3
<1>8. Block!ImagesOfFailures'
  BY <1>1, <1>6, <1>7 DEF Block!ImagesOfFailures, Block!Passed, Block!Budget
<1>9. ListInv'
  BY <1>1, <1>2, ListStays
<1>10. Block!Taken' = Block!Taken /\ Block!Listed' = Block!Listed
  BY <1>1 DEF Block!Taken, Block!Listed
<1> QED
  BY <1>1, <1>5, <1>8, <1>9, <1>10 DEF BlockInv

\* Every step keeps it.
LEMMA BlockStep == ASSUME BlockInv, [Block!Next]_Block!vars PROVE BlockInv'
<1>1. CASE UNCHANGED Block!vars
  <2>1. UNCHANGED <<batch, stale, images, budgets, chosen, block, pictures, whole>>
    BY <1>1 DEF Block!vars
  <2>2. ListInv => ListInv'
    BY <2>1, ListStays
  <2>3. Block!ImagesOfFailures'
    BY <2>1, ImagesStay DEF BlockInv
  <2> QED
    BY <2>1, <2>2, <2>3 DEF BlockInv, Block!Listed, Block!Taken
<1> QED
  BY <1>1, ApplyKeeps, ListKeeps, PictureKeeps, CutKeeps DEF Block!Next

HIDE NoneAssumption
HIDE AttemptsAssumption

-----------------------------------------------------------------------------
(* The behaviours of the texts.                                            *)

\* While the part is the rejections, a step is one of RejectionText or changes nothing of it.
LEMMA RejectionsMove ==
    ASSUME part = "rejections", [MCNext]_MCVars PROVE part' = part /\ [Rejections!Next]_Rejections!vars
  <1>1. CASE MCNext
    BY <1>1 DEF MCNext, Rejections!vars
  <1>2. CASE UNCHANGED MCVars
    <2>1. UNCHANGED <<part, stageVars>>
      BY <1>2 DEF MCVars
    <2>2. UNCHANGED rejectionsVars
      BY <2>1 DEF stageVars
    <2> QED
      BY <2>1, <2>2 DEF rejectionsVars, Rejections!vars
  <1> QED
    BY <1>1, <1>2

\* While the part is the block, a step is one of AttemptsBlock or changes nothing of it.
LEMMA BlockMoves ==
    ASSUME part = "block", [MCNext]_MCVars PROVE part' = part /\ [Block!Next]_Block!vars
  <1>1. CASE MCNext
    BY <1>1 DEF MCNext, Block!vars
  <1>2. CASE UNCHANGED MCVars
    <2>1. UNCHANGED <<part, newerVars>>
      BY <1>2 DEF MCVars
    <2>2. UNCHANGED blockVars
      BY <2>1 DEF newerVars
    <2> QED
      BY <2>1, <2>2 DEF blockVars, Block!vars
  <1> QED
    BY <1>1, <1>2

\* Each text keeps its invariant while it is written.
TextsHold ==
    /\ part = "rejections" => TrimInv
    /\ part = "block" => BlockInv

\* The invariants of the two texts hold at every step of their parts.
LEMMA TextsAlways == MCSpec => []TextsHold
  <1>1. MCInit => TextsHold
    BY TrimInit, BlockInit DEF MCInit, TextsHold
  <1>2. TextsHold /\ [MCNext]_MCVars => TextsHold'
    <2> SUFFICES ASSUME TextsHold, [MCNext]_MCVars PROVE TextsHold'
      OBVIOUS
    <2>1. part' = part
      BY PartStays
    <2>2. ASSUME part = "rejections" PROVE TrimInv'
      BY <2>2, RejectionsMove, TrimStep DEF TextsHold
    <2>3. ASSUME part = "block" PROVE BlockInv'
      BY <2>3, BlockMoves, BlockStep DEF TextsHold
    <2> QED
      BY <2>1, <2>2, <2>3 DEF TextsHold
  <1> QED
    BY <1>1, <1>2, PTL DEF MCSpec

\* Whatever memory, traces and caps: a cap takes the oldest lines first, then the text of the
\* oldest entries, and never the name of a recent refusal; of the traces that were sampled it leaves
\* those with the lowest scores, and nobody is missing from the sample but the stale ones and those of
\* a stratum that fills its budget; the images are of sampled failures before any that passed, the
\* most recent first where the stratum has no budget (rejections.py:246-282, traces.py:191-272,
\* harness.py:285-305, 513-531).
THEOREM CapsTakeTheLeast == MCSpec => []LeastNeededGoesFirst
  <1>1. TextsHold => LeastNeededGoesFirst
    BY LowScoresOutlive DEF TextsHold, LeastNeededGoesFirst, TrimInv, BlockInv, Block!LowScoresAreKept
  <1> QED
    BY <1>1, TextsAlways, PTL

-----------------------------------------------------------------------------
(* TraceSampling: the strides.                                             *)

\* A number is a multiple and what remains.
LEMMA Division ==
    \A a \in Int, n \in Int :
        n > 0 => a % n \in 0 .. n - 1 /\ a \div n \in Int /\ a = n * (a \div n) + (a % n)
  OBVIOUS

\* And only one of the numbers below n remains.
LEMMA Remainder ==
    \A a \in Int, n \in Int, q \in Int, r \in Int :
        n > 0 /\ a = n * q + r /\ 0 <= r /\ r < n => a % n = r
  OBVIOUS

\* A remainder can be taken before another number is added.
LEMMA RemainderOfSum ==
    ASSUME NEW n \in Nat \ {0}, NEW a \in Nat, NEW b \in Nat
    PROVE  ((a % n) + b) % n = (a + b) % n
<1> DEFINE q == a \div n
           e == a % n
           c == a + b
           s == e + b
           p == s \div n
           f == s % n
<1>1. e \in 0 .. n - 1 /\ q \in Int /\ a = n * q + e
  BY Division
<1> HIDE DEF q, e
<1>2. s \in Int /\ n \in Int /\ n > 0 /\ c \in Int
  BY <1>1
<1> HIDE DEF s
<1>3. f \in 0 .. n - 1 /\ p \in Int /\ s = n * p + f
  BY <1>2, Division
<1> HIDE DEF p, f
<1>4. c = n * q + s
  BY <1>1 DEF s
<1> HIDE DEF c
<1>5. c = n * (q + p) + f
  BY <1>1, <1>2, <1>3, <1>4
<1>6. q + p \in Int /\ f \in Int /\ 0 <= f /\ f < n
  BY <1>1, <1>3
<1>7. c % n = f
  BY <1>2, <1>5, <1>6, Remainder
<1> QED
  BY <1>7 DEF f, s, e, c

\* From any place, less than a whole turn leads to any other.
LEMMA Turn ==
    ASSUME NEW n \in Nat \ {0}, NEW a \in 0 .. n - 1, NEW u \in 0 .. n - 1
    PROVE  \E d \in 0 .. n - 1 : (a + d) % n = u
<1>1. CASE u >= a
  <2>1. u - a \in 0 .. n - 1 /\ a + (u - a) = n * 0 + u
    BY <1>1
  <2>2. (a + (u - a)) % n = u
    BY <2>1, Remainder
  <2> QED
    BY <2>1, <2>2
<1>2. CASE u < a
  <2>1. u - a + n \in 0 .. n - 1 /\ a + (u - a + n) = n * 1 + u
    BY <1>2
  <2>2. (a + (u - a + n)) % n = u
    BY <2>1, Remainder
  <2> QED
    BY <2>1, <2>2
<1> QED
  BY <1>1, <1>2

USE NoneAssumption, SamplingAssumption

\* The traces of a stratum, and its budget.
Pool(i) == IF i = 1 THEN Failing ELSE Traces \ Failing
Share(i) == IF i = 1 THEN config.failing ELSE config.passing

\* The strata are those of the model.
LEMMA StrataAre ==
    \A i \in 1 .. 2 :
        Sampling!Strata[i].of = Pool(i) /\ Sampling!Strata[i].wanted = Share(i) /\ Pool(i) \subseteq Traces
<1>1. \A i \in 1 .. 2 : i = 1 \/ i = 2
  OBVIOUS
<1>2. Sampling!Strata[1].of = Pool(1) /\ Sampling!Strata[1].wanted = Share(1)
  BY DEF Sampling!Strata, Pool, Share
<1>3. Sampling!Strata[2].of = Pool(2) /\ Sampling!Strata[2].wanted = Share(2)
  BY DEF Sampling!Strata, Pool, Share
<1>4. Pool(1) \subseteq Traces /\ Pool(2) \subseteq Traces
  BY DEF Pool
<1> QED
  BY <1>1, <1>2, <1>3, <1>4

\* TraceSampling counts as FiniteSets does.
LEMMA SamplingCount == \A S : Sampling!Cardinality(S) = Cardinality(S)
  BY DEF Sampling!Cardinality, Cardinality

\* The source has finitely many traces, 1 to N.
LEMMA TracesAre == Sampling!N \in Nat /\ Traces = 1 .. Sampling!N /\ IsFiniteSet(Traces)
<1>1. Sampling!N = Cardinality(Traces)
  BY SamplingCount DEF Sampling!N
<1> QED
  BY <1>1, FS_CardinalityType

\* A stride shows traces of the list.
LEMMA BatchIsOfList ==
    ASSUME config \in Samplings, NEW k \in Nat \ {0} PROVE Sampling!Batch(k) \subseteq Traces
<1> DEFINE n == Sampling!N
<1>1. n \in Nat /\ Traces = 1 .. n
  BY TracesAre
<1>2. config.stride \in Nat \ {0}
  OBVIOUS
<1>3. CASE n = 0
  <2>1. Sampling!Smaller(config.stride, n) = 0
    BY <1>2, <1>3 DEF Sampling!Smaller
  <2> QED
    BY <2>1 DEF Sampling!Batch
<1>4. CASE n > 0
  <2> DEFINE a == (k - 1) * config.stride
  <2>1. a \in Nat
    BY <1>2
  <2> HIDE DEF a, n
  <2>2. a % n \in Nat
    BY <1>1, <1>4, <2>1, Division
  <2>3. ASSUME NEW i \in Nat PROVE 1 + (((a % n) + i) % n) \in Traces
    <3> DEFINE b == (a % n) + i
    <3>1. b \in Int
      BY <2>2
    <3> HIDE DEF b
    <3>2. b % n \in 0 .. n - 1
      BY <1>1, <1>4, <3>1, Division
    <3> QED
      BY <1>1, <3>2 DEF b
  <2>4. Sampling!Smaller(config.stride, n) \in Nat
    BY <1>1, <1>2 DEF Sampling!Smaller
  <2>5. \A i \in 0 .. Sampling!Smaller(config.stride, n) - 1 : 1 + (((a % n) + i) % n) \in Traces
    BY <2>3, <2>4
  <2> QED
    BY <2>5 DEF Sampling!Batch, a, n
<1> QED
  BY <1>1, <1>3, <1>4

\* From a, strides of s lead through a list of n to u.
Reach(n, s, a, u) ==
    \E i \in 0 .. ((n + s - 1) \div s) - 1, r \in 0 .. s - 1 :
        r < n /\ (((a + s * i) % n) + r) % n = u

\* As many strides as it takes to count through the list lead to every trace.
LEMMA StridesReach ==
    ASSUME NEW n \in Nat \ {0}, NEW s \in Nat \ {0}, NEW a \in Nat, NEW u \in 0 .. n - 1
    PROVE  Reach(n, s, a, u)
<1>1. a % n \in 0 .. n - 1
  <2>1. n \in Int /\ n > 0 /\ a \in Int
    OBVIOUS
  <2> QED
    BY <2>1, Division
<1>2. PICK d \in 0 .. n - 1 : ((a % n) + d) % n = u
  BY <1>1, Turn
<1>3. (a + d) % n = u
  <2>1. d \in Nat
    OBVIOUS
  <2>2. ((a % n) + d) % n = (a + d) % n
    BY <2>1, RemainderOfSum
  <2> QED
    BY <1>2, <2>2
<1> DEFINE i == d \div s
           r == d % s
           m == n + s - 1
           t == m \div s
           o == m % s
<1>4. r \in 0 .. s - 1 /\ i \in Int /\ d = s * i + r
  <2>1. d \in Int /\ s \in Int /\ s > 0
    OBVIOUS
  <2> QED
    BY <2>1, Division
<1>5. m \in Int
  OBVIOUS
<1> HIDE DEF i, r, m
<1>6. o \in 0 .. s - 1 /\ t \in Int /\ m = s * t + o
  BY <1>5, Division
<1> HIDE DEF t, o
<1>7. i >= 0
  <2>1. s * (i + 1) > 0
    BY <1>4
  <2>2. i + 1 > 0
    BY <1>4, <2>1
  <2> QED
    BY <1>4, <2>2
<1>8. s * t >= n /\ s * i < n
  <2>1. s * i >= 0
    BY <1>4, <1>7
  <2> QED
    BY <1>4, <1>6, <2>1 DEF m
<1>9. i < t
  <2>1. s * (t - i) > 0
    BY <1>4, <1>6, <1>8
  <2>2. t - i > 0
    BY <1>4, <1>6, <2>1
  <2> QED
    BY <1>4, <1>6, <2>2
<1>10. r < n
  <2>1. s * i >= 0
    BY <1>4, <1>7
  <2> QED
    BY <1>4, <2>1
<1>11. a + s * i \in Nat /\ r \in Nat /\ (a + s * i) + r = a + d
  <2>1. s * i \in Nat
    BY <1>4, <1>7
  <2> QED
    BY <1>4, <2>1
<1>12. (((a + s * i) % n) + r) % n = u
  BY <1>3, <1>11, RemainderOfSum
<1>13. i \in 0 .. t - 1
  BY <1>4, <1>6, <1>7, <1>9
<1> QED
  BY <1>4, <1>10, <1>12, <1>13 DEF t, m, Reach

\* A stride of the whole list shows all of it.
LEMMA WholeBatch ==
    ASSUME config \in Samplings, Sampling!Whole, NEW k \in Nat \ {0} PROVE Sampling!Batch(k) = Traces
<1> DEFINE n == Sampling!N
           a == (k - 1) * config.stride
<1>1. n \in Nat /\ Traces = 1 .. n /\ config.stride \in Nat \ {0} /\ n <= config.stride
  BY TracesAre DEF Sampling!Whole
<1>2. Sampling!Batch(k) \subseteq Traces
  BY BatchIsOfList
<1>3. Sampling!Smaller(config.stride, n) = n
  BY <1>1 DEF Sampling!Smaller
<1>4. a \in Nat
  BY <1>1
<1> HIDE DEF a
<1>5. Sampling!Batch(k) = {1 + (((a % n) + i) % n) : i \in 0 .. n - 1}
  BY <1>3 DEF Sampling!Batch, a
<1> HIDE DEF n
<1>6. ASSUME NEW t \in Traces PROVE t \in Sampling!Batch(k)
  <2>1. n \in Nat \ {0} /\ t - 1 \in 0 .. n - 1
    BY <1>1
  <2>2. a % n \in 0 .. n - 1
    BY <1>4, <2>1, Division
  <2> DEFINE b == a % n
             u == t - 1
  <2>3. b \in 0 .. n - 1 /\ u \in 0 .. n - 1
    BY <2>1, <2>2
  <2> HIDE DEF b
  <2>4. PICK d \in 0 .. n - 1 : (b + d) % n = u
    BY <2>1, <2>3, Turn
  <2>5. t = 1 + ((b + d) % n)
    BY <1>1, <2>4
  <2> QED
    BY <1>5, <2>5 DEF b
<1> QED
  BY <1>2, <1>6

\* The strides cover the list, from any round on.
LEMMA ListIsCovered ==
    ASSUME config \in Samplings, round \in Nat \ {0} PROVE Sampling!StridesCover
<1> DEFINE n == Sampling!N
           s == config.stride
           Turns == 0 .. ((n + s - 1) \div s) - 1
<1>1. n \in Nat /\ Traces = 1 .. n /\ s \in Nat \ {0}
  BY TracesAre
<1>2. \A i \in Turns : Sampling!Batch(round + i) \subseteq Traces
  <2>1. \A i \in Turns : round + i \in Nat \ {0}
    <3>1. \A i \in Turns : i \in Int /\ i >= 0
      OBVIOUS
    <3> QED
      BY <3>1
  <2> QED
    BY <2>1, BatchIsOfList
<1>3. ASSUME NEW t \in Traces PROVE \E i \in Turns : t \in Sampling!Batch(round + i)
  <2> DEFINE a == (round - 1) * s
             u == t - 1
  <2>1. n \in Nat \ {0} /\ u \in 0 .. n - 1 /\ a \in Nat
    BY <1>1
  <2> HIDE DEF a, n, s, u
  <2>2. Reach(n, s, a, u)
    BY <1>1, <2>1, StridesReach
  <2>3. PICK i \in 0 .. ((n + s - 1) \div s) - 1, r \in 0 .. s - 1 :
                r < n /\ (((a + s * i) % n) + r) % n = u
    BY <2>2 DEF Reach
  <2>4. i \in Int /\ i >= 0
    OBVIOUS
  <2>5. a + s * i = ((round + i) - 1) * s
    <3> DEFINE k == round - 1
    <3>1. k \in Int /\ s \in Int /\ i \in Int /\ (round + i) - 1 = k + i
      BY <1>1, <2>4
    <3> HIDE DEF k
    <3>2. (k + i) * s = k * s + s * i
      BY <3>1
    <3> QED
      BY <3>1, <3>2 DEF a, k
  <2>6. r \in 0 .. Sampling!Smaller(s, n) - 1
    BY <1>1, <2>1, <2>3 DEF Sampling!Smaller
  <2>7. t = 1 + ((((((round + i) - 1) * s) % n) + r) % n)
    BY <1>1, <2>1, <2>3, <2>5 DEF u
  <2>8. t \in Sampling!Batch(round + i)
    BY <2>6, <2>7 DEF Sampling!Batch, n, s
  <2> QED
    BY <2>3, <2>8 DEF n, s
<1>4. UNION {Sampling!Batch(round + i) : i \in Turns} = Traces
  BY <1>2, <1>3
<1> QED
  BY <1>4 DEF Sampling!StridesCover

-----------------------------------------------------------------------------
(* TraceSampling: the sample.                                              *)

\* The traces seen of a pool are forgotten if too few are new.
Forgot(pool, share, known) == Cardinality(pool \ known) < Sampling!Need(share, pool)

\* A pick of a pool: what is chosen, and what is seen then.
Picked(pool, share, known, then, picks) ==
    /\ picks \subseteq pool
    /\ picks \subseteq then
    /\ then \subseteq known \cup picks
    /\ then \ pool = known \ pool
    /\ share # None =>
         /\ Cardinality(picks) = Sampling!Need(share, pool)
         /\ \/ Forgot(pool, share, known) /\ then \cap pool = picks
            \/ /\ ~ Forgot(pool, share, known)
               /\ picks \subseteq pool \ known
               /\ then \cap pool = (known \cap pool) \cup picks

\* The picks of stratified_sample() are such picks.
LEMMA PicksPick ==
    ASSUME NEW pool, NEW share, NEW known, NEW x \in Sampling!Picks(pool, share, known)
    PROVE  Picked(pool, share, known, x.seen, x.chosen)
<1>1. CASE share = None
  <2>1. x = [chosen |-> pool, seen |-> known \cup pool]
    BY <1>1 DEF Sampling!Picks
  <2>2. x.chosen = pool /\ x.seen = known \cup pool
    BY <2>1
  <2> QED
    BY <1>1, <2>2 DEF Picked
<1>2. CASE share # None
  <2> DEFINE n == Sampling!Need(share, pool)
             over == Forgot(pool, share, known)
             unseen == IF over THEN pool ELSE pool \ known
             rest == IF over THEN known \ pool ELSE known
  <2>1. Sampling!Picks(pool, share, known) =
            {[chosen |-> c, seen |-> rest \cup c] : c \in {s \in SUBSET unseen : Cardinality(s) = n}}
    BY <1>2, SamplingCount DEF Sampling!Picks, Sampling!kSubset, Forgot
  <2> HIDE DEF n, rest, unseen
  <2>2. PICK c \in SUBSET unseen : Cardinality(c) = n /\ x = [chosen |-> c, seen |-> rest \cup c]
    BY <2>1
  <2>3. x.chosen = c /\ x.seen = rest \cup c
    BY <2>2
  <2>4. CASE over
    <3>1. unseen = pool /\ rest = known \ pool
      BY <2>4 DEF unseen, rest
    <3> QED
      BY <1>2, <2>2, <2>3, <2>4, <3>1 DEF Picked, n
  <2>5. CASE ~ over
    <3>1. unseen = pool \ known /\ rest = known
      BY <2>5 DEF unseen, rest
    <3> QED
      BY <1>2, <2>2, <2>3, <2>5, <3>1 DEF Picked, n
  <2> QED
    BY <2>4, <2>5
<1> QED
  BY <1>1, <1>2

\* The part of a stratum that the stride shows.
Strip(i) == Sampling!Batch(round) \cap Pool(i)

\* What the sample does to a stratum with a budget.
Turned(i) ==
    Share(i) # None =>
        /\ Cardinality(pending' \cap Strip(i)) = Sampling!Need(Share(i), Strip(i))
        /\ \/ /\ Forgot(Strip(i), Share(i), seen)
              /\ seen' \cap Strip(i) = pending' \cap Strip(i)
           \/ /\ ~ Forgot(Strip(i), Share(i), seen)
              /\ pending' \cap Strip(i) \subseteq Strip(i) \ seen
              /\ seen' \cap Strip(i) = (seen \cap Strip(i)) \cup (pending' \cap Strip(i))

\* The two strata have no trace in common, so the picks do not disturb each other.
LEMMA SampleTurns ==
    ASSUME config \in Samplings, round \in Nat \ {0}, Sampling!Sample
    PROVE  /\ Turned(1) /\ Turned(2)
           /\ pending' \subseteq Traces /\ pending' \subseteq Sampling!Batch(round)
           /\ pending' \subseteq seen' /\ seen' \subseteq seen \cup pending'
           /\ sampled' = [traces |-> pending', before |-> recorded]
           /\ shown' = [t \in Traces |-> IF t \in pending' THEN shown[t] + 1 ELSE shown[t]]
           /\ pending = None
           /\ UNCHANGED <<config, round, recorded, stops, resumed>>
<1> DEFINE b == Sampling!Batch(round)
<1>1. Strip(1) = b \cap Failing /\ Strip(2) = b \cap (Traces \ Failing) /\ b \subseteq Traces
  BY BatchIsOfList DEF Strip, Pool
<1>2. PICK f \in Sampling!Picks(Strip(1), Share(1), seen) :
        \E p \in Sampling!Picks(Strip(2), Share(2), f.seen) :
            LET sample == f.chosen \cup p.chosen
            IN  /\ seen' = p.seen
                /\ pending' = sample
                /\ shown' = [t \in Traces |-> IF t \in sample THEN shown[t] + 1 ELSE shown[t]]
                /\ sampled' = [traces |-> sample, before |-> recorded]
  <2>1. /\ Sampling!Batch(round) \cap Sampling!Strata[1].of = Strip(1)
        /\ Sampling!Batch(round) \cap Sampling!Strata[2].of = Strip(2)
        /\ Sampling!Strata[1].wanted = Share(1) /\ Sampling!Strata[2].wanted = Share(2)
    BY StrataAre DEF Strip
  <2> QED
    BY <2>1, Zenon DEF Sampling!Sample
<1>3. PICK p \in Sampling!Picks(Strip(2), Share(2), f.seen) :
            LET sample == f.chosen \cup p.chosen
            IN  /\ seen' = p.seen
                /\ pending' = sample
                /\ shown' = [t \in Traces |-> IF t \in sample THEN shown[t] + 1 ELSE shown[t]]
                /\ sampled' = [traces |-> sample, before |-> recorded]
  BY <1>2
<1> DEFINE c == f.chosen
           d == p.chosen
           s == f.seen
<1>4. Picked(Strip(1), Share(1), seen, s, c)
  BY PicksPick
<1>5. Picked(Strip(2), Share(2), s, seen', d)
  BY <1>3, PicksPick
<1>6. pending' = c \cup d
  BY <1>3
<1>7. /\ sampled' = [traces |-> pending', before |-> recorded]
      /\ shown' = [t \in Traces |-> IF t \in pending' THEN shown[t] + 1 ELSE shown[t]]
      /\ pending = None
      /\ UNCHANGED <<config, round, recorded, stops, resumed>>
  BY <1>3, <1>6 DEF Sampling!Sample
<1> HIDE DEF b, c, d, s
<1>8. Strip(1) \cap Strip(2) = {} /\ Strip(1) \subseteq b /\ Strip(2) \subseteq b
  BY <1>1
<1> DEFINE A == Strip(1)
           B == Strip(2)
<1> HIDE DEF A, B
<1>9. /\ A \cap B = {} /\ A \subseteq b /\ B \subseteq b
      /\ Picked(A, Share(1), seen, s, c) /\ Picked(B, Share(2), s, seen', d)
  BY <1>4, <1>5, <1>8 DEF A, B
<1>10. /\ c \subseteq A /\ c \subseteq s /\ s \subseteq seen \cup c /\ s \ A = seen \ A
       /\ d \subseteq B /\ d \subseteq seen' /\ seen' \subseteq s \cup d /\ seen' \ B = s \ B
  BY <1>9 DEF Picked
<1>11. pending' \cap A = c /\ pending' \cap B = d /\ pending' \subseteq b
  BY <1>6, <1>9, <1>10
<1>12. pending' \subseteq seen' /\ seen' \subseteq seen \cup pending'
  BY <1>6, <1>9, <1>10
<1>13. seen' \cap A = s \cap A /\ s \cap B = seen \cap B /\ B \ s = B \ seen
  BY <1>9, <1>10
<1>14. Turned(1)
  <2> SUFFICES ASSUME Share(1) # None
               PROVE  /\ Cardinality(c) = Sampling!Need(Share(1), A)
                      /\ \/ Forgot(A, Share(1), seen) /\ seen' \cap A = c
                         \/ ~ Forgot(A, Share(1), seen) /\ c \subseteq A \ seen /\ seen' \cap A = (seen \cap A) \cup c
    BY <1>11 DEF Turned, A
  <2> QED
    BY <1>9, <1>13 DEF Picked
<1>15. Turned(2)
  <2> SUFFICES ASSUME Share(2) # None
               PROVE  /\ Cardinality(d) = Sampling!Need(Share(2), B)
                      /\ \/ Forgot(B, Share(2), seen) /\ seen' \cap B = d
                         \/ ~ Forgot(B, Share(2), seen) /\ d \subseteq B \ seen /\ seen' \cap B = (seen \cap B) \cup d
    BY <1>11 DEF Turned, B
  <2>1. Forgot(B, Share(2), s) <=> Forgot(B, Share(2), seen)
    BY <1>13 DEF Forgot
  <2> QED
    BY <1>9, <1>13, <2>1 DEF Picked
<1>16. pending' \subseteq Traces
  BY <1>1, <1>11 DEF b
<1> QED
  BY <1>7, <1>11, <1>12, <1>14, <1>15, <1>16 DEF b

\* Over the whole list, with a budget that divides the stratum: the traces seen in this turn
\* were shown once more than the others, and are a number of samples.
EvenTurns(i) ==
    Sampling!Whole /\ Sampling!Divides(i) /\ stops = 0 =>
        \E c \in Nat, k \in Nat :
            /\ Cardinality(Pool(i) \cap seen) = Share(i) * k
            /\ \A t \in Pool(i) : shown[t] = IF t \in seen THEN c + 1 ELSE c

\* While enough of a stratum is in no recorded round, what is recorded of it counts as seen.
KnownStay(i) ==
    /\ Sampling!Whole /\ ~ resumed
    /\ Share(i) # None
    /\ Cardinality(Pool(i) \ recorded) >= Share(i)
    => recorded \cap Pool(i) \subseteq seen

\* The invariant of the rounds.
SampInv ==
    /\ config \in Samplings
    /\ round \in Nat \ {0}
    /\ Sampling!TypeOK
    /\ stops \in Nat
    /\ resumed \in BOOLEAN
    /\ pending # None /\ ~ resumed => pending \subseteq seen
    /\ \A i \in 1 .. 2 : EvenTurns(i) /\ KnownStay(i)
    /\ Sampling!FreshFirst

\* A budget is a number, or there is none.
LEMMA ShareType == ASSUME config \in Samplings, NEW i \in 1 .. 2 PROVE Share(i) \in Nat \cup {None}
  BY DEF Share

\* Traces are finitely many, and are counted.
LEMMA CountsAre ==
    ASSUME NEW S, NEW T, S \subseteq Traces
    PROVE  /\ IsFiniteSet(S) /\ Cardinality(S) \in Nat
           /\ S # {} => Cardinality(S) > 0
           /\ Cardinality(S \ T) = Cardinality(S) - Cardinality(S \cap T)
           /\ Cardinality(S \cap T) \in Nat /\ Cardinality(S \ T) \in Nat
           /\ T \subseteq S => Cardinality(T) <= Cardinality(S)
<1>1. IsFiniteSet(S)
  BY TracesAre, FS_Subset
<1>2. IsFiniteSet(S \cap T) /\ IsFiniteSet(S \ T) /\ (T \subseteq S => Cardinality(T) <= Cardinality(S))
  BY <1>1, FS_Subset
<1>3. S # {} => Cardinality(S) # 0
  BY <1>1, FS_EmptySet
<1>4. Cardinality(S) \in Nat /\ Cardinality(S \cap T) \in Nat /\ Cardinality(S \ T) \in Nat
  BY <1>1, <1>2, FS_CardinalityType
<1>5. Cardinality(S \ T) = Cardinality(S) - Cardinality(S \cap T)
  BY <1>1, FS_Difference
<1> QED
  BY <1>1, <1>2, <1>3, <1>4, <1>5

\* What has no trace in common adds up.
LEMMA DisjointCount ==
    ASSUME NEW S, NEW T, S \subseteq Traces, T \subseteq Traces, S \cap T = {}
    PROVE  Cardinality(S \cup T) = Cardinality(S) + Cardinality(T)
<1>1. IsFiniteSet(S) /\ IsFiniteSet(T) /\ Cardinality(S) \in Nat /\ Cardinality(T) \in Nat
  BY CountsAre
<1>2. Cardinality(S \cap T) = 0
  BY FS_EmptySet
<1> QED
  <2>1. Cardinality(S \cup T) = Cardinality(S) + Cardinality(T) - Cardinality(S \cap T)
    BY <1>1, FS_Union, Zenon
  <2> QED
    BY <1>1, <1>2, <2>1

\* A sample of a stratum that its budget divides is as large as the budget, and forgets only when
\* all of it was seen.
LEMMA DividedSample ==
    ASSUME NEW w \in Nat \ {0}, NEW P, P \subseteq Traces, P # {}, Cardinality(P) % w = 0,
           NEW S, NEW k \in Nat, Cardinality(P \cap S) = w * k
    PROVE  /\ Sampling!Need(w, P) = w
           /\ Cardinality(P \ S) < w => P \subseteq S
<1> DEFINE n == Cardinality(P)
           m == n \div w
           r == n % w
<1>1. n \in Nat /\ n > 0 /\ Cardinality(P \ S) = n - w * k /\ Cardinality(P \ S) \in Nat
  BY CountsAre
<1>2. r = 0
  OBVIOUS
<1> HIDE DEF n
<1>3. r \in 0 .. w - 1 /\ m \in Int /\ n = w * m + r
  BY <1>1, Division
<1> HIDE DEF m, r
<1>4. n = w * m
  BY <1>2, <1>3
<1>5. w * m > 0
  BY <1>1, <1>4
<1>6. m >= 1
  BY <1>3, <1>5
<1>7. w <= n
  BY <1>3, <1>4, <1>6
<1>8. Sampling!Need(w, P) = w
  <2>1. Sampling!Cardinality(P) = n
    BY SamplingCount DEF n
  <2> QED
    BY <1>1, <1>7, <2>1 DEF Sampling!Need, Sampling!Smaller
<1>9. ASSUME Cardinality(P \ S) < w PROVE P \subseteq S
  <2> DEFINE z == m - k
  <2>1. z \in Int /\ w * z = w * m - w * k
    BY <1>3
  <2>2. w * z < w /\ w * z >= 0
    BY <1>1, <1>4, <1>9, <2>1
  <2> HIDE DEF z
  <2>3. ~ (z >= 1)
    BY <2>1, <2>2
  <2>4. ~ (z <= -1)
    BY <2>1, <2>2
  <2>5. z = 0
    BY <2>1, <2>3, <2>4
  <2>6. Cardinality(P \ S) = 0
    BY <1>1, <1>4, <2>1, <2>5
  <2>7. P \ S = {}
    <3>1. P \ S \subseteq Traces
      OBVIOUS
    <3>2. P \ S # {} => Cardinality(P \ S) > 0
      BY <3>1, CountsAre
    <3> QED
      BY <2>6, <3>2
  <2> QED
    BY <2>7
<1> QED
  BY <1>8, <1>9

\* A sample goes on with the turn, or starts the next when all were seen.
LEMMA SampleKeepsTurns ==
    ASSUME SampInv, Sampling!Sample, NEW i \in 1 .. 2 PROVE EvenTurns(i)'
<1>1. config \in Samplings /\ round \in Nat \ {0} /\ Sampling!TypeOK /\ EvenTurns(i)
  BY DEF SampInv
<1>2. /\ Turned(i)
      /\ shown' = [t \in Traces |-> IF t \in pending' THEN shown[t] + 1 ELSE shown[t]]
      /\ UNCHANGED <<config, round, recorded, stops, resumed>>
  <2>1. i = 1 \/ i = 2
    OBVIOUS
  <2> QED
    BY <1>1, <2>1, SampleTurns
<1>3. (Sampling!Whole <=> Sampling!Whole') /\ (Sampling!Divides(i) <=> Sampling!Divides(i)') /\ Share(i)' = Share(i)
  BY <1>2, StrataAre DEF Sampling!Whole, Sampling!Divides, Share, Sampling!Strata
<1> SUFFICES ASSUME Sampling!Whole, Sampling!Divides(i), stops = 0
             PROVE  \E c \in Nat, k \in Nat :
                        /\ Cardinality(Pool(i) \cap seen') = Share(i) * k
                        /\ \A t \in Pool(i) : shown'[t] = IF t \in seen' THEN c + 1 ELSE c
  BY <1>2, <1>3 DEF EvenTurns
<1> DEFINE P == Pool(i)
           w == Share(i)
           C == pending' \cap P
<1>4. Strip(i) = P /\ P \subseteq Traces
  BY <1>1, WholeBatch, StrataAre DEF Strip
<1>5. w \in Nat \ {0} /\ w # None /\ Cardinality(P) % w = 0
  BY <1>1, StrataAre, ShareType, SamplingCount DEF Sampling!Divides
<1>6. PICK c \in Nat, k \in Nat : /\ Cardinality(P \cap seen) = w * k
                                  /\ \A t \in P : shown[t] = IF t \in seen THEN c + 1 ELSE c
  BY <1>1 DEF EvenTurns
<1>7. \A t \in P : shown'[t] = IF t \in C THEN shown[t] + 1 ELSE shown[t]
  BY <1>2, <1>4
<1>8. /\ Cardinality(C) = Sampling!Need(w, P)
      /\ \/ Forgot(P, w, seen) /\ seen' \cap P = C
         \/ ~ Forgot(P, w, seen) /\ C \subseteq P \ seen /\ seen' \cap P = (seen \cap P) \cup C
  BY <1>2, <1>4, <1>5 DEF Turned
<1>9. C \subseteq P
  OBVIOUS
<1> HIDE DEF P, w, C
<1>10. CASE P = {}
  <2>1. Cardinality(P \cap seen') = w * 0
    BY <1>5, <1>10, FS_EmptySet
  <2> QED
    BY <1>10, <2>1 DEF P, w
<1>11. CASE P # {}
  <2>1. Sampling!Need(w, P) = w /\ (Cardinality(P \ seen) < w => P \subseteq seen)
    BY <1>4, <1>5, <1>6, <1>11, DividedSample
  <2>2. CASE Forgot(P, w, seen)
    <3>1. P \subseteq seen
      BY <2>1, <2>2 DEF Forgot
    <3>2. P \cap seen' = C /\ Cardinality(P \cap seen') = w * 1
      <4>1. P \cap seen' = C
        BY <1>8, <2>2
      <4>2. Cardinality(C) = w /\ w * 1 = w
        BY <1>5, <1>8, <2>1
      <4> QED
        BY <4>1, <4>2
    <3>3. \A t \in P : shown'[t] = IF t \in seen' THEN (c + 1) + 1 ELSE c + 1
      BY <1>6, <1>7, <3>1, <3>2
    <3>4. c + 1 \in Nat /\ 1 \in Nat
      OBVIOUS
    <3> QED
      BY <3>2, <3>3, <3>4 DEF P, w
  <2>3. CASE ~ Forgot(P, w, seen)
    <3>1. C \subseteq P \ seen /\ P \cap seen' = (P \cap seen) \cup C
      BY <1>8, <2>3
    <3>2. Cardinality(P \cap seen') = w * (k + 1)
      <4>1. (P \cap seen) \cap C = {} /\ P \cap seen \subseteq Traces /\ C \subseteq Traces
        BY <1>4, <3>1
      <4>2. Cardinality(P \cap seen') = Cardinality(P \cap seen) + Cardinality(C)
        BY <3>1, <4>1, DisjointCount
      <4> QED
        BY <1>5, <1>6, <1>8, <2>1, <4>2
    <3>3. \A t \in P : shown'[t] = IF t \in seen' THEN c + 1 ELSE c
      BY <1>6, <1>7, <3>1
    <3>4. k + 1 \in Nat
      OBVIOUS
    <3> QED
      BY <3>2, <3>3, <3>4 DEF P, w
  <2> QED
    BY <2>2, <2>3
<1> QED
  BY <1>10, <1>11

\* While enough of a stratum is new, the sample forgets nothing of it and takes new ones only.
LEMMA SampleTakesNew ==
    ASSUME SampInv, Sampling!Sample, NEW i \in 1 .. 2, Sampling!Whole, ~ resumed,
           Share(i) # None, Cardinality(Pool(i) \ recorded) >= Share(i)
    PROVE  /\ recorded \cap Pool(i) \subseteq seen'
           /\ pending' \cap Pool(i) \subseteq Pool(i) \ recorded
<1>1. config \in Samplings /\ round \in Nat \ {0} /\ Sampling!TypeOK /\ KnownStay(i)
  BY DEF SampInv
<1>2. Turned(i) /\ pending = None
  <2>1. i = 1 \/ i = 2
    OBVIOUS
  <2> QED
    BY <1>1, <2>1, SampleTurns
<1> DEFINE P == Pool(i)
           w == Share(i)
<1>3. Strip(i) = P /\ P \subseteq Traces
  BY <1>1, WholeBatch, StrataAre DEF Strip
<1>4. w \in Nat
  BY <1>1, ShareType
<1>5. recorded \cap P \subseteq seen /\ seen \subseteq recorded
  BY <1>1, <1>2 DEF KnownStay, Sampling!TypeOK
<1>6. P \ seen = P \ recorded
  BY <1>5
<1> HIDE DEF P, w
<1>7. Sampling!Need(w, P) <= w /\ Sampling!Need(w, P) \in Nat
  <2>1. Sampling!Cardinality(P) \in Nat
    BY <1>3, CountsAre, SamplingCount
  <2> QED
    BY <1>4, <2>1 DEF Sampling!Need, Sampling!Smaller
<1>8. ~ Forgot(P, w, seen)
  <2>1. Cardinality(P \ seen) \in Nat /\ Cardinality(P \ seen) >= w
    BY <1>3, <1>6, CountsAre DEF P, w
  <2> QED
    BY <1>4, <1>7, <2>1 DEF Forgot
<1>9. pending' \cap P \subseteq P \ seen /\ seen' \cap P = (seen \cap P) \cup (pending' \cap P)
  BY <1>2, <1>3, <1>8 DEF Turned, P, w
<1> QED
  BY <1>5, <1>6, <1>9 DEF P

\* Strata and budgets stay with the configuration.
LEMMA SettingsStay ==
    ASSUME config' = config
    PROVE  /\ Sampling!Whole' <=> Sampling!Whole
           /\ Sampling!Strata' = Sampling!Strata
           /\ \A i \in 1 .. 2 : Share(i)' = Share(i) /\ (Sampling!Divides(i)' <=> Sampling!Divides(i))
<1>1. Sampling!Strata' = Sampling!Strata
  BY DEF Sampling!Strata
<1>2. Sampling!Whole' <=> Sampling!Whole
  BY DEF Sampling!Whole
<1>3. \A i \in 1 .. 2 : Share(i)' = Share(i)
  BY DEF Share
<1>4. \A i \in 1 .. 2 : Sampling!Divides(i)' <=> Sampling!Divides(i)
  BY <1>1 DEF Sampling!Divides
<1> QED
  BY <1>1, <1>2, <1>3, <1>4

\* stratified_sample().
LEMMA SampleKeeps == ASSUME SampInv, Sampling!Sample PROVE SampInv'
<1>1. config \in Samplings /\ round \in Nat \ {0} /\ Sampling!TypeOK /\ stops \in Nat /\ resumed \in BOOLEAN
  BY DEF SampInv
<1>2. /\ pending' \subseteq Traces /\ pending' \subseteq seen' /\ seen' \subseteq seen \cup pending'
      /\ sampled' = [traces |-> pending', before |-> recorded]
      /\ shown' = [t \in Traces |-> IF t \in pending' THEN shown[t] + 1 ELSE shown[t]]
      /\ pending = None
      /\ UNCHANGED <<config, round, recorded, stops, resumed>>
  BY <1>1, SampleTurns
<1>3. pending' # None
  BY <1>2
<1>4. Sampling!TypeOK'
  <2>1. shown' \in [Traces -> Nat]
    BY <1>1, <1>2 DEF Sampling!TypeOK
  <2>2. seen' \subseteq Traces /\ seen' \subseteq recorded \cup pending'
    BY <1>1, <1>2 DEF Sampling!TypeOK
  <2> QED
    BY <1>1, <1>2, <1>3, <2>1, <2>2 DEF Sampling!TypeOK
<1>5. \A i \in 1 .. 2 : EvenTurns(i)'
  BY SampleKeepsTurns
<1>6. /\ Sampling!Whole' <=> Sampling!Whole
      /\ \A i \in 1 .. 2 : /\ Share(i)' = Share(i)
                           /\ Sampling!Strata'[i].wanted = Share(i)
                           /\ Sampling!Strata'[i].of = Pool(i)
  BY <1>2, SettingsStay, StrataAre
<1>7. \A i \in 1 .. 2 : KnownStay(i)'
  <2> SUFFICES ASSUME NEW i \in 1 .. 2, Sampling!Whole, ~ resumed, Share(i) # None,
                      Cardinality(Pool(i) \ recorded) >= Share(i)
               PROVE  recorded \cap Pool(i) \subseteq seen'
    BY <1>2, <1>6 DEF KnownStay, Pool
  <2> QED
    BY SampleTakesNew
<1>8. Sampling!FreshFirst'
  <2> SUFFICES ASSUME NEW i \in 1 .. 2, Sampling!Whole, ~ resumed, Share(i) # None,
                      Cardinality(Pool(i) \ recorded) >= Share(i)
               PROVE  pending' \cap Pool(i) \subseteq Pool(i) \ recorded
    <3>1. sampled'.traces = pending' /\ sampled'.before = recorded
      BY <1>2
    <3> QED
      BY <1>2, <1>6, <3>1, SamplingCount DEF Sampling!FreshFirst
  <2> QED
    BY SampleTakesNew
<1> QED
  BY <1>1, <1>2, <1>4, <1>5, <1>7, <1>8 DEF SampInv

\* The entry of the round.
LEMMA RecordKeeps == ASSUME SampInv, Sampling!Record PROVE SampInv'
<1>1. config \in Samplings /\ round \in Nat \ {0} /\ Sampling!TypeOK /\ stops \in Nat /\ resumed \in BOOLEAN
  BY DEF SampInv
<1>2. /\ pending # None /\ pending' = None /\ recorded' = recorded \cup pending /\ round' = round + 1
      /\ UNCHANGED <<config, seen, shown, sampled, stops, resumed>>
  BY DEF Sampling!Record
<1>3. Sampling!TypeOK' /\ round' \in Nat \ {0}
  BY <1>1, <1>2 DEF Sampling!TypeOK
<1>4. /\ Sampling!Whole' <=> Sampling!Whole
      /\ \A i \in 1 .. 2 : Share(i)' = Share(i) /\ (Sampling!Divides(i)' <=> Sampling!Divides(i))
      /\ Sampling!Strata' = Sampling!Strata
  BY <1>2, SettingsStay
<1>5. \A i \in 1 .. 2 : EvenTurns(i)'
  <2> SUFFICES ASSUME NEW i \in 1 .. 2, Sampling!Whole, Sampling!Divides(i), stops = 0
               PROVE  \E c \in Nat, k \in Nat :
                          /\ Cardinality(Pool(i) \cap seen) = Share(i) * k
                          /\ \A t \in Pool(i) : shown[t] = IF t \in seen THEN c + 1 ELSE c
    BY <1>2, <1>4, Zenon DEF EvenTurns, Pool
  <2>1. EvenTurns(i)
    BY DEF SampInv
  <2> QED
    BY <2>1 DEF EvenTurns
<1>6. \A i \in 1 .. 2 : KnownStay(i)'
  <2> SUFFICES ASSUME NEW i \in 1 .. 2, Sampling!Whole, ~ resumed, Share(i) # None,
                      Cardinality(Pool(i) \ recorded') >= Share(i)
               PROVE  recorded' \cap Pool(i) \subseteq seen
    BY <1>2, <1>4 DEF KnownStay, Pool
  <2>1. Pool(i) \ recorded' \subseteq Pool(i) \ recorded /\ Pool(i) \ recorded \subseteq Traces
    BY <1>2, StrataAre
  <2>2. Cardinality(Pool(i) \ recorded') <= Cardinality(Pool(i) \ recorded)
    BY <2>1, CountsAre
  <2>3. Cardinality(Pool(i) \ recorded') \in Nat /\ Cardinality(Pool(i) \ recorded) \in Nat
    BY StrataAre, CountsAre
  <2>4. Cardinality(Pool(i) \ recorded) >= Share(i)
    <3>1. Share(i) \in Nat
      BY <1>1, ShareType
    <3> QED
      BY <2>2, <2>3, <3>1
  <2>5. recorded \cap Pool(i) \subseteq seen /\ pending \subseteq seen
    BY <1>2, <2>4 DEF SampInv, KnownStay
  <2> QED
    BY <1>2, <2>5
<1>7. Sampling!FreshFirst'
  BY <1>2, <1>4 DEF SampInv, Sampling!FreshFirst
<1> QED
  BY <1>1, <1>2, <1>3, <1>5, <1>6, <1>7 DEF SampInv

\* The next process reads what was seen from rejection memory.
LEMMA RestartKeeps == ASSUME SampInv, Sampling!Restart PROVE SampInv'
<1>1. config \in Samplings /\ round \in Nat \ {0} /\ Sampling!TypeOK /\ stops \in Nat /\ resumed \in BOOLEAN
  BY DEF SampInv
<1>2. /\ stops' = stops + 1 /\ seen' = recorded /\ resumed' = (resumed \/ pending # None)
      /\ UNCHANGED <<config, round, pending, recorded, shown, sampled>>
  BY DEF Sampling!Restart
<1>3. Sampling!TypeOK'
  BY <1>1, <1>2 DEF Sampling!TypeOK
<1>4. Sampling!Whole' <=> Sampling!Whole
  BY <1>2, SettingsStay
<1>5. stops' # 0 /\ stops' \in Nat /\ resumed' \in BOOLEAN /\ (~ resumed' => ~ resumed /\ pending = None)
  <2>1. stops' # 0 /\ stops' \in Nat
    BY <1>1, <1>2
  <2>2. resumed' \in BOOLEAN /\ (~ resumed' => ~ resumed /\ pending = None)
    BY <1>2, Zenon
  <2> QED
    BY <2>1, <2>2
<1>6. \A i \in 1 .. 2 : EvenTurns(i)'
  BY <1>5 DEF EvenTurns
<1>7. \A i \in 1 .. 2 : KnownStay(i)'
  BY <1>2 DEF KnownStay
<1>8. Sampling!FreshFirst'
  <2>1. Sampling!Strata' = Sampling!Strata
    BY <1>2, SettingsStay
  <2> QED
    BY <1>2, <1>4, <1>5, <2>1 DEF SampInv, Sampling!FreshFirst
<1> QED
  BY <1>1, <1>2, <1>3, <1>5, <1>6, <1>7, <1>8 DEF SampInv

\* The first round.
LEMMA SampInit == Sampling!Init => SampInv
<1> SUFFICES ASSUME Sampling!Init PROVE SampInv
  OBVIOUS
<1>1. /\ config \in Samplings /\ round = 1 /\ seen = {} /\ pending = None /\ recorded = {}
      /\ shown = [t \in Traces |-> 0] /\ sampled = [traces |-> {}, before |-> {}] /\ stops = 0
      /\ resumed = FALSE
  BY DEF Sampling!Init
<1>2. Sampling!TypeOK
  BY <1>1 DEF Sampling!TypeOK
<1>3. ASSUME NEW i \in 1 .. 2 PROVE EvenTurns(i) /\ KnownStay(i)
  <2>1. KnownStay(i)
    BY <1>1 DEF KnownStay
  <2>2. ASSUME Sampling!Divides(i) PROVE EvenTurns(i)
    <3>1. Share(i) \in Nat
      BY <1>1, <2>2, StrataAre, ShareType DEF Sampling!Divides
    <3>2. Cardinality(Pool(i) \cap seen) = Share(i) * 0
      BY <1>1, <3>1, FS_EmptySet
    <3>3. \A t \in Pool(i) : shown[t] = IF t \in seen THEN 0 + 1 ELSE 0
      BY <1>1, StrataAre
    <3> QED
      BY <3>2, <3>3 DEF EvenTurns
  <2> QED
    BY <2>1, <2>2 DEF EvenTurns
<1>4. Sampling!FreshFirst
  <2>1. sampled.traces = {}
    BY <1>1
  <2>2. \A i \in 1 .. 2 : sampled.traces \cap Sampling!Strata[i].of
                              \subseteq Sampling!Strata[i].of \ sampled.before
    BY <2>1
  <2> QED
    BY <2>2, Zenon DEF Sampling!FreshFirst
<1>5. stops \in Nat /\ resumed \in BOOLEAN /\ round \in Nat \ {0}
  <2>1. resumed \in BOOLEAN
    BY <1>1, Zenon
  <2>2. stops \in Nat /\ round \in Nat \ {0}
    BY <1>1
  <2> QED
    BY <2>1, <2>2
<1> QED
  BY <1>1, <1>2, <1>3, <1>4, <1>5 DEF SampInv

\* Every step keeps the invariant.
LEMMA SampStep == ASSUME SampInv, [Sampling!Next]_Sampling!vars PROVE SampInv'
<1>1. CASE Sampling!Sample
  BY <1>1, SampleKeeps
<1>2. CASE Sampling!Record
  BY <1>2, RecordKeeps
<1>3. CASE Sampling!Restart
  BY <1>3, RestartKeeps
<1>4. CASE UNCHANGED Sampling!vars
  <2>1. UNCHANGED <<config, round, seen, pending, recorded, shown, sampled, stops, resumed>>
    BY <1>4 DEF Sampling!vars
  <2>2. (Sampling!TypeOK' <=> Sampling!TypeOK) /\ (Sampling!FreshFirst' <=> Sampling!FreshFirst)
    BY <2>1, SettingsStay DEF Sampling!TypeOK, Sampling!FreshFirst
  <2>3. ASSUME NEW i \in 1 .. 2 PROVE KnownStay(i)'
    BY <2>1, SettingsStay DEF SampInv, KnownStay, Pool
  <2>4. ASSUME NEW i \in 1 .. 2 PROVE EvenTurns(i)'
    <3>1. EvenTurns(i)
      BY DEF SampInv
    <3>2. (Sampling!Whole' <=> Sampling!Whole) /\ Share(i)' = Share(i)
          /\ (Sampling!Divides(i)' <=> Sampling!Divides(i)) /\ Pool(i)' = Pool(i)
      BY <2>1, SettingsStay DEF Pool
    <3> QED
      BY <2>1, <3>1, <3>2, Zenon DEF EvenTurns
  <2> QED
    BY <2>1, <2>2, <2>3, <2>4 DEF SampInv
<1> QED
  BY <1>1, <1>2, <1>3, <1>4 DEF Sampling!Next

\* What the turns mean for two traces of a stratum.
LEMMA TurnsAreFair == ASSUME SampInv PROVE Sampling!FairRotation
<1> SUFFICES ASSUME NEW i \in 1 .. 2, Sampling!Whole, Sampling!Divides(i), stops = 0,
                    NEW t \in Pool(i), NEW u \in Pool(i)
             PROVE  shown[t] <= shown[u] + 1
  BY StrataAre DEF Sampling!FairRotation
<1>1. PICK c \in Nat, k \in Nat : /\ Cardinality(Pool(i) \cap seen) = Share(i) * k
                                  /\ \A x \in Pool(i) : shown[x] = IF x \in seen THEN c + 1 ELSE c
  BY DEF SampInv, EvenTurns
<1>2. shown[t] \in {c, c + 1} /\ shown[u] \in {c, c + 1}
  BY <1>1
<1> QED
  BY <1>2

HIDE NoneAssumption
HIDE SamplingAssumption

\* While the part is the sampling, a step is one of TraceSampling or changes nothing of it.
LEMMA SamplingMoves ==
    ASSUME part = "sampling", [MCNext]_MCVars PROVE part' = part /\ [Sampling!Next]_Sampling!vars
<1>1. CASE MCNext
  BY <1>1 DEF MCNext, Sampling!vars
<1>2. CASE UNCHANGED MCVars
  <2>1. UNCHANGED <<part, stageVars>>
    BY <1>2 DEF MCVars
  <2>2. UNCHANGED samplingVars
    BY <2>1 DEF stageVars
  <2> QED
    BY <2>1, <2>2 DEF samplingVars, Sampling!vars
<1> QED
  BY <1>1, <1>2

\* The invariant holds while the part is the sampling.
SampHolds == part = "sampling" => SampInv

\* It holds at every step of the part.
LEMMA SamplingAlways == MCSpec => []SampHolds
<1>1. MCInit => SampHolds
  BY SampInit DEF MCInit, SampHolds
<1>2. SampHolds /\ [MCNext]_MCVars => SampHolds'
  BY PartStays, SamplingMoves, SampStep DEF SampHolds
<1> QED
  BY <1>1, <1>2, PTL DEF MCSpec

\* For any list, strides and budgets, from any round on: as many strides as it takes to count
\* through the list show all of it; over the whole list no trace is shown a second time before
\* all of its stratum were, when the budget divides it; and over a restart nothing recorded
\* comes back while enough is new (traces.py:183-223, harness.py:247).
THEOREM NewTracesComeFirst == MCSpec => []UnseenFirst
<1>1. SampHolds => UnseenFirst
  BY ListIsCovered, TurnsAreFair DEF SampHolds, UnseenFirst, SampInv, Sampling!UnseenFirst
<1> QED
  BY <1>1, SamplingAlways, PTL

-----------------------------------------------------------------------------
(* GuidanceContext: what the search around a node reaches.                 *)

\* One step along the edges, and the walks from a.
To(es, s) == {e.target : e \in {f \in es : f.source \in s}}
Walk(W, es, a) == W \in [Nat -> SUBSET Ids] /\ W[0] = {a} /\ \A k \in Nat : W[k + 1] = To(es, W[k])

\* What fewer than k steps reach, and what k steps reach first.
Within(W, k) == {n \in Ids : \E j \in 0 .. k - 1 : n \in W[j]}
Level(W, k) == W[k] \ Within(W, k)

\* One more step.
LEMMA WithinNext ==
    ASSUME NEW W \in [Nat -> SUBSET Ids], NEW k \in Nat PROVE Within(W, k + 1) = Within(W, k) \cup W[k]
<1>1. \A j \in Int : j \in 0 .. (k + 1) - 1 <=> j \in 0 .. k - 1 \/ j = k
  OBVIOUS
<1>2. W[k] \subseteq Ids
  OBVIOUS
<1> QED
  BY <1>1, <1>2 DEF Within

\* What fewer steps reach, more do.
LEMMA WithinGrows ==
    ASSUME NEW W, NEW k \in Nat, NEW m \in Nat, k <= m PROVE Within(W, k) \subseteq Within(W, m)
<1>1. 0 .. k - 1 \subseteq 0 .. m - 1
  OBVIOUS
<1> QED
  BY <1>1 DEF Within

\* An edge out of a walk makes it longer.
LEMMA WalkGoesOn ==
    ASSUME NEW W, NEW es, NEW a, Walk(W, es, a), NEW e \in es, NEW k \in Nat, e.source \in W[k]
    PROVE  e.target \in W[k + 1]
  BY DEF Walk, To

\* What is reached first with one more step is reached from what was reached first before it.
LEMMA LevelBefore ==
    ASSUME NEW W, NEW es, NEW a, Walk(W, es, a), NEW k \in Nat, NEW n \in Level(W, k + 1)
    PROVE  \E e \in es : e.target = n /\ e.source \in Level(W, k)
<1>1. n \in W[k + 1] /\ n \notin Within(W, k + 1) /\ W[k + 1] = To(es, W[k]) /\ W[k + 1] \subseteq Ids
  <2>1. k + 1 \in Nat
    OBVIOUS
  <2> QED
    BY <2>1 DEF Level, Walk
<1>2. PICK e \in es : e.source \in W[k] /\ e.target = n
  BY <1>1 DEF To
<1>3. ASSUME e.source \in Within(W, k) PROVE FALSE
  <2>1. PICK j \in 0 .. k - 1 : e.source \in W[j]
    BY <1>3 DEF Within
  <2>2. n \in W[j + 1] /\ j + 1 \in 0 .. (k + 1) - 1
    BY <1>2, <2>1, WalkGoesOn
  <2> QED
    BY <1>1, <2>2 DEF Within
<1> QED
  BY <1>2, <1>3 DEF Level

\* Once nothing new is reached, nothing new is reached any more.
LEMMA SearchEnds ==
    ASSUME NEW W, NEW es, NEW a, Walk(W, es, a), NEW m \in Nat, Level(W, m) = {}
    PROVE  \A k \in Nat : W[k] \subseteq Within(W, m)
<1> DEFINE ks == {k \in Nat : W[k] \subseteq Within(W, m)}
<1>1. W \in [Nat -> SUBSET Ids] /\ W[0] = {a} /\ W[m] \subseteq Within(W, m)
  BY DEF Walk, Level
<1>2. m # 0
  <2>1. Within(W, 0) = {}
    BY DEF Within
  <2> QED
    BY <1>1, <2>1
<1>3. 0 \in ks
  <2>1. 0 \in 0 .. m - 1 /\ W[0] \subseteq Ids
    BY <1>1, <1>2
  <2> QED
    BY <2>1 DEF Within
<1>4. ASSUME NEW k \in ks PROVE k + 1 \in ks
  <2> SUFFICES ASSUME NEW n \in W[k + 1] PROVE n \in Within(W, m)
    OBVIOUS
  <2>1. PICK e \in es : e.source \in W[k] /\ e.target = n
    BY DEF Walk, To
  <2>2. PICK j \in 0 .. m - 1 : e.source \in W[j]
    BY <2>1 DEF Within
  <2>3. n \in W[j + 1] /\ j + 1 \in Nat
    BY <2>1, <2>2, WalkGoesOn
  <2>4. CASE j + 1 = m
    BY <1>1, <2>3, <2>4
  <2>5. CASE j + 1 # m
    <3>1. j + 1 \in 0 .. m - 1 /\ W[j + 1] \subseteq Ids
      BY <1>1, <2>2, <2>5
    <3> QED
      BY <2>3, <3>1 DEF Within
  <2> QED
    BY <2>4, <2>5
<1>5. ks \in SUBSET Nat
  OBVIOUS
<1> HIDE DEF ks
<1>6. ks = Nat
  BY <1>3, <1>4, <1>5, NatsByStep
<1> QED
  BY <1>6 DEF ks

\* Whatever is reached first by d steps has edges out of all it passes, and the steps are no more
\* than the ids.
LEMMA LevelsBefore ==
    ASSUME NEW W, NEW es, NEW a, Walk(W, es, a), NEW d \in Nat, Level(W, d) # {}
    PROVE  \A j \in 0 .. d - 1 : \E e \in es : e.source \in Level(W, j)
<1> DEFINE Out(k) == \A j \in 0 .. k - 1 : \E e \in es : e.source \in Level(W, j)
           ks == {k \in Nat : Level(W, k) # {} => Out(k)}
<1>1. 0 \in ks
  OBVIOUS
<1>2. ASSUME NEW k \in ks PROVE k + 1 \in ks
  <2> SUFFICES ASSUME Level(W, k + 1) # {} PROVE Out(k + 1)
    OBVIOUS
  <2>1. PICK e \in es : e.source \in Level(W, k)
    BY LevelBefore
  <2>2. Out(k)
    BY <2>1
  <2>3. \A j \in 0 .. (k + 1) - 1 : j = k \/ j \in 0 .. k - 1
    OBVIOUS
  <2> QED
    BY <2>1, <2>2, <2>3
<1>3. ks \in SUBSET Nat
  OBVIOUS
<1> HIDE DEF ks
<1>4. ks = Nat
  BY <1>1, <1>2, <1>3, NatsByStep
<1> QED
  BY <1>4 DEF ks

\* So at most as many steps as there are ids reach what no fewer steps reach.
LEMMA LevelsFill ==
    ASSUME NEW W, NEW es, NEW a, Walk(W, es, a), NEW d \in Nat, Level(W, d) # {}
    PROVE  d < Cardinality(Ids)
<1> USE GraphAssumption
<1> DEFINE ks == {k \in Nat : Level(W, k) # {} => Cardinality(Within(W, k + 1)) >= k + 1}
<1>1. \A k \in Nat : /\ Within(W, k) \subseteq Ids /\ IsFiniteSet(Within(W, k))
                     /\ Cardinality(Within(W, k)) \in Nat /\ Cardinality(Within(W, k)) <= Cardinality(Ids)
  <2> TAKE k \in Nat
  <2>1. Within(W, k) \in SUBSET Ids
    BY DEF Within
  <2> QED
    BY <2>1, FS_Subset, FS_CardinalityType
<1>2. ASSUME NEW k \in Nat, Level(W, k) # {}
      PROVE  Cardinality(Within(W, k + 1)) >= Cardinality(Within(W, k)) + 1
  <2>1. PICK n \in Level(W, k) : TRUE
    BY <1>2
  <2>2. n \in W[k] /\ n \notin Within(W, k)
    BY DEF Level
  <2>3. Within(W, k + 1) = Within(W, k) \cup W[k]
    BY WithinNext DEF Walk
  <2> DEFINE more == Within(W, k) \cup {n}
  <2>4. Cardinality(more) = Cardinality(Within(W, k)) + 1
    BY <1>1, <2>2, FS_AddElement
  <2>5. more \in SUBSET Within(W, k + 1)
    BY <2>2, <2>3
  <2>6. IsFiniteSet(Within(W, k + 1)) /\ Cardinality(Within(W, k + 1)) \in Nat /\ Cardinality(Within(W, k)) \in Nat
    BY <1>1
  <2> HIDE DEF more
  <2>7. Cardinality(more) <= Cardinality(Within(W, k + 1))
    BY <2>5, <2>6, FS_Subset
  <2> QED
    BY <2>4, <2>6, <2>7
<1>3. 0 \in ks
  <2>1. Cardinality(Within(W, 0)) \in Nat /\ Cardinality(Within(W, 0 + 1)) \in Nat
    BY <1>1
  <2> QED
    BY <1>2, <2>1
<1>4. ASSUME NEW k \in ks PROVE k + 1 \in ks
  <2> SUFFICES ASSUME Level(W, k + 1) # {} PROVE Cardinality(Within(W, (k + 1) + 1)) >= (k + 1) + 1
    OBVIOUS
  <2>1. Level(W, k) # {}
    BY LevelBefore
  <2>2. Cardinality(Within(W, k + 1)) >= k + 1
    BY <2>1
  <2>3. k + 1 \in Nat
    OBVIOUS
  <2>4. Cardinality(Within(W, (k + 1) + 1)) >= Cardinality(Within(W, k + 1)) + 1
    BY <1>2, <2>3
  <2>5. Cardinality(Within(W, (k + 1) + 1)) \in Nat /\ Cardinality(Within(W, k + 1)) \in Nat
    BY <1>1, <2>3
  <2> QED
    BY <2>2, <2>4, <2>5
<1>5. ks \in SUBSET Nat
  OBVIOUS
<1> HIDE DEF ks
<1>6. ks = Nat
  BY <1>3, <1>4, <1>5, NatsByStep
<1>7. Cardinality(Within(W, d + 1)) >= d + 1
  BY <1>6 DEF ks
<1>8. Cardinality(Within(W, d + 1)) \in Nat /\ Cardinality(Within(W, d + 1)) <= Cardinality(Ids) /\ Cardinality(Ids) \in Nat
  <2>1. d + 1 \in Nat
    OBVIOUS
  <2> QED
    BY <1>1, <2>1, FS_CardinalityType
<1> QED
  BY <1>7, <1>8

USE GraphAssumption, NoneAssumption, GuidanceAssumption, CallsAssumption

\* The walks of GuidanceContext, for any edges and node.
WalkOf(es, a) ==
    LET to[k \in Nat] == IF k = 0 THEN {a} ELSE {e.target : e \in {f \in es : f.source \in to[k - 1]}}
    IN  to

\* GuidanceContext takes the same walks.
LEMMA WalksAreThose == Context!WalksTo = WalkOf(world.edges, at)
  BY DEF Context!WalksTo, WalkOf

\* They exist, and go along the edges.
LEMMA WalksAre ==
    ASSUME NEW es \in SUBSET Edges, NEW a \in Ids PROVE Walk(WalkOf(es, a), es, a)
<1> DEFINE step == [s \in SUBSET Ids |-> To(es, s)]
           first == {a}
<1>1. \A s : To(es, s) \in SUBSET Ids
  BY DEF To, Edges
<1>2. step \in [SUBSET Ids -> SUBSET Ids] /\ first \in SUBSET Ids
  BY <1>1
<1>3. PICK f \in [Nat -> SUBSET Ids] : f[0] = first /\ \A i \in Nat : f[i + 1] = step[f[i]]
  <2> DEFINE X == SUBSET Ids
  <2>1. first \in X /\ step \in [X -> X]
    BY <1>2
  <2> HIDE DEF step, first, X
  <2>2. PICK f : Iterates(f, X, first, step)
    BY <2>1, IteratesExist
  <2> QED
    BY <2>2 DEF Iterates, X
<1>4. \A i \in Nat : f[i + 1] = To(es, f[i])
  <2> TAKE i \in Nat
  <2>1. f[i] \in SUBSET Ids /\ f[i + 1] = step[f[i]]
    BY <1>3
  <2> QED
    BY <2>1
<1> DEFINE to[k \in Nat] == IF k = 0 THEN {a}
                            ELSE {e.target : e \in {h \in es : h.source \in to[k - 1]}}
<1>5. f = [k \in Nat |-> IF k = 0 THEN {a} ELSE {e.target : e \in {h \in es : h.source \in f[k - 1]}}]
  <2>1. ASSUME NEW k \in Nat, k # 0 PROVE f[k] = To(es, f[k - 1])
    <3>1. k - 1 \in Nat /\ (k - 1) + 1 = k
      BY <2>1
    <3> QED
      BY <1>4, <3>1
  <2>2. f = [k \in Nat |-> f[k]]
    OBVIOUS
  <2> QED
    BY <1>3, <2>1, <2>2 DEF To
<1>6. to = [k \in Nat |-> IF k = 0 THEN {a} ELSE {e.target : e \in {h \in es : h.source \in to[k - 1]}}]
  BY <1>5
<1>7. WalkOf(es, a) = to
  BY DEF WalkOf
<1> HIDE DEF to
<1>8. \A k \in Nat : to[k] = f[k]
  <2> DEFINE ks == {k \in Nat : to[k] = f[k]}
  <2>1. 0 \in ks
    BY <1>3, <1>6
  <2>2. ASSUME NEW k \in ks PROVE k + 1 \in ks
    <3>1. k + 1 \in Nat /\ k + 1 # 0 /\ (k + 1) - 1 = k
      OBVIOUS
    <3>2. to[k + 1] = To(es, to[k])
      BY <1>6, <3>1 DEF To
    <3> QED
      BY <1>4, <3>2
  <2>3. ks \in SUBSET Nat
    OBVIOUS
  <2> HIDE DEF ks
  <2>4. ks = Nat
    BY <2>1, <2>2, <2>3, NatsByStep
  <2> QED
    BY <2>4 DEF ks
<1>9. to = f
  <2>1. to = [k \in Nat |-> to[k]]
    BY <1>6, Zenon
  <2>2. f = [k \in Nat |-> f[k]]
    OBVIOUS
  <2> QED
    BY <1>8, <2>1, <2>2
<1> QED
  BY <1>3, <1>4, <1>7, <1>9 DEF Walk

\* The distance of a node is the number of steps that reach it first.
LEMMA DistanceIs ==
    ASSUME world.edges \in SUBSET Edges, at \in Ids, NEW d \in Nat, NEW n \in Level(Context!WalksTo, d)
    PROVE  Context!Distance(n) = d
<1> DEFINE W == Context!WalksTo
           m == Cardinality(Ids)
           Earliest(k) == n \in W[k] /\ \A j \in 0 .. k - 1 : n \notin W[j]
<1>1. Walk(W, world.edges, at)
  BY WalksAre, WalksAreThose
<1> HIDE DEF W
<1>2. W \in [Nat -> SUBSET Ids]
  BY <1>1 DEF Walk
<1>3. n \in Ids /\ Earliest(d)
  BY <1>2 DEF Level, Within, W
<1>4. d < m /\ m \in Nat
  BY <1>1, LevelsFill, FS_CardinalityType DEF W
<1>5. \A k \in Nat : Earliest(k) => k = d
  BY <1>3
<1>6. d \in 0 .. m /\ 0 .. m \subseteq Nat
  BY <1>4
<1>7. Context!Cardinality(Ids) = m
  BY DEF Context!Cardinality, Cardinality
<1>8. Context!Distance(n) = CHOOSE k \in 0 .. m : Earliest(k)
  BY <1>7 DEF Context!Distance, W
<1> HIDE DEF Earliest, m
<1> QED
  BY <1>3, <1>5, <1>6, <1>8

\* Where the search stands: what it has seen, where it goes on, and what it has tagged.
SearchAt(W, es, near0) ==
    /\ near0.seen = Within(W, near0.hop)
    /\ near0.frontier = Level(W, near0.hop - 1)
    /\ \A t \in near0.tagged :
          t \in [hop : 1 .. near0.hop - 1, edge : es] /\ t.edge.source \in Level(W, t.hop - 1)
    /\ \A h \in 1 .. near0.hop - 1, e \in es :
          e.source \in Level(W, h - 1) => [hop |-> h, edge |-> e] \in near0.tagged

\* The invariant of guidance(): the search stands where the walks are.
ContextInv ==
    /\ world.nodes \in SUBSET Ids /\ world.edges \in SUBSET Edges
    /\ Start \in world.nodes
    /\ \A e \in world.edges : {e.source, e.target} \subseteq world.nodes
    /\ settings \in GuideSettings
    /\ steps \in Seq(Ids)
    /\ near.hop # 0 =>
         /\ at \in world.nodes /\ settings.mode = "subgraph"
         /\ SearchAt(WalkOf(world.edges, at), world.edges, near)
    /\ Context!TypeOK
    /\ Context!GuidanceIsLocal

\* All that walks reach is of the graph.
LEMMA WithinGraph ==
    ASSUME NEW W, NEW es, NEW a, Walk(W, es, a), NEW ns, a \in ns,
           \A e \in es : {e.source, e.target} \subseteq ns, NEW k \in Nat
    PROVE  W[k] \subseteq ns
<1> DEFINE ks == {i \in Nat : W[i] \subseteq ns}
<1>1. 0 \in ks
  BY DEF Walk
<1>2. ASSUME NEW i \in ks PROVE i + 1 \in ks
  <2>1. i + 1 \in Nat /\ W[i + 1] = To(es, W[i])
    BY DEF Walk
  <2>2. To(es, W[i]) \subseteq ns
    BY DEF To
  <2> QED
    BY <2>1, <2>2
<1>3. ks \in SUBSET Nat
  OBVIOUS
<1> HIDE DEF ks
<1>4. ks = Nat
  BY <1>1, <1>2, <1>3, NatsByStep
<1> QED
  BY <1>4 DEF ks

\* The search at its start.
LEMMA SearchBegins ==
    ASSUME NEW es \in SUBSET Edges, NEW a \in Ids, NEW near0,
           near0 = [hop |-> 1, frontier |-> {a}, seen |-> {a}, tagged |-> {}]
    PROVE  SearchAt(WalkOf(es, a), es, near0)
<1> DEFINE W == WalkOf(es, a)
<1>1. W[0] = {a} /\ W \in [Nat -> SUBSET Ids]
  BY WalksAre DEF Walk
<1> HIDE DEF W
<1>2. Within(W, 0) = {} /\ Within(W, 1) = {a}
  <2>1. Within(W, 0) = {}
    BY DEF Within
  <2>2. Within(W, 0 + 1) = Within(W, 0) \cup W[0]
    BY <1>1, WithinNext
  <2> QED
    BY <1>1, <2>1, <2>2
<1>3. Level(W, 0) = {a}
  BY <1>1, <1>2 DEF Level
<1>4. near0.hop = 1 /\ near0.frontier = {a} /\ near0.seen = {a} /\ near0.tagged = {}
  OBVIOUS
<1> QED
  BY <1>2, <1>3, <1>4 DEF SearchAt, W

\* One hop.
LEMMA SearchGoesOn ==
    ASSUME NEW es \in SUBSET Edges, NEW a \in Ids, NEW near0, NEW near1, near0.hop \in Nat \ {0},
           SearchAt(WalkOf(es, a), es, near0),
           near1.hop = near0.hop + 1,
           near1.frontier = To(es, near0.frontier) \ near0.seen,
           near1.seen = near0.seen \cup To(es, near0.frontier),
           near1.tagged = near0.tagged \cup
               {[hop |-> near0.hop, edge |-> e] : e \in {f \in es : f.source \in near0.frontier}}
    PROVE  SearchAt(WalkOf(es, a), es, near1)
<1> DEFINE W == WalkOf(es, a)
           k == near0.hop - 1
           R == To(es, near0.frontier)
<1>1. Walk(W, es, a)
  BY WalksAre
<1> HIDE DEF W
<1>2. W \in [Nat -> SUBSET Ids] /\ k \in Nat /\ near0.hop = k + 1 /\ W[k + 1] = To(es, W[k])
  BY <1>1 DEF Walk
<1>3. /\ near0.seen = Within(W, k + 1) /\ near0.frontier = Level(W, k)
      /\ \A t \in near0.tagged : t \in [hop : 1 .. k, edge : es] /\ t.edge.source \in Level(W, t.hop - 1)
      /\ \A h \in 1 .. k, e \in es : e.source \in Level(W, h - 1) => [hop |-> h, edge |-> e] \in near0.tagged
  BY <1>2 DEF SearchAt, W
<1> HIDE DEF k, R
<1>4. R \subseteq W[k + 1] /\ Level(W, k + 1) \subseteq R
  <2>1. R \subseteq W[k + 1]
    BY <1>2, <1>3 DEF R, To, Level
  <2>2. Level(W, k + 1) \subseteq R
    BY <1>1, <1>2, <1>3, LevelBefore DEF R, To
  <2> QED
    BY <2>1, <2>2
<1>5. near1.frontier = Level(W, k + 1)
  BY <1>3, <1>4 DEF Level, R
<1>6. near1.seen = Within(W, (k + 1) + 1)
  <2>1. Within(W, (k + 1) + 1) = Within(W, k + 1) \cup W[k + 1]
    BY <1>2, WithinNext
  <2> QED
    BY <1>3, <1>4, <2>1 DEF Level, R
<1>7. ASSUME NEW t \in near1.tagged
      PROVE  t \in [hop : 1 .. k + 1, edge : es] /\ t.edge.source \in Level(W, t.hop - 1)
  <2>1. CASE t \in near0.tagged
    BY <1>2, <1>3, <2>1
  <2>2. CASE t \notin near0.tagged
    <3>1. PICK e \in es : e.source \in near0.frontier /\ t = [hop |-> k + 1, edge |-> e]
      BY <1>2, <2>2
    <3>2. t.hop = k + 1 /\ t.edge = e /\ (k + 1) - 1 = k
      BY <1>2, <3>1
    <3> QED
      BY <1>2, <1>3, <3>1, <3>2
  <2> QED
    BY <2>1, <2>2
<1>8. ASSUME NEW h \in 1 .. k + 1, NEW e \in es, e.source \in Level(W, h - 1)
      PROVE  [hop |-> h, edge |-> e] \in near1.tagged
  <2>1. CASE h = k + 1
    <3>1. h - 1 = k
      BY <1>2, <2>1
    <3> QED
      BY <1>2, <1>3, <1>8, <2>1, <3>1
  <2>2. CASE h # k + 1
    <3>1. h \in 1 .. k
      BY <1>2, <2>2
    <3> QED
      BY <1>3, <1>8, <3>1
  <2> QED
    BY <2>1, <2>2
<1>9. near1.hop - 1 = k + 1 /\ near1.hop = (k + 1) + 1
  BY <1>2
<1> QED
  BY <1>5, <1>6, <1>7, <1>8, <1>9 DEF SearchAt, W

\* What is reached is reached first by some number of steps.
LEMMA ReachedFirst ==
    ASSUME NEW W \in [Nat -> SUBSET Ids], NEW m \in Nat, NEW n \in Within(W, m)
    PROVE  \E j \in 0 .. m - 1 : n \in Level(W, j)
<1> DEFINE ks == {k \in Nat : n \in Within(W, k) => \E j \in 0 .. k - 1 : n \in Level(W, j)}
<1>1. 0 \in ks
  BY DEF Within
<1>2. ASSUME NEW k \in ks PROVE k + 1 \in ks
  <2> SUFFICES ASSUME n \in Within(W, k + 1) PROVE \E j \in 0 .. (k + 1) - 1 : n \in Level(W, j)
    OBVIOUS
  <2>1. 0 .. k - 1 \subseteq 0 .. (k + 1) - 1 /\ k \in 0 .. (k + 1) - 1
    OBVIOUS
  <2>2. CASE n \in Within(W, k)
    BY <2>1, <2>2
  <2>3. CASE n \notin Within(W, k)
    <3>1. n \in Level(W, k)
      BY <2>3, WithinNext DEF Level
    <3> QED
      BY <2>1, <3>1
  <2> QED
    BY <2>2, <2>3
<1>3. ks \in SUBSET Nat
  OBVIOUS
<1> HIDE DEF ks
<1>4. ks = Nat
  BY <1>1, <1>2, <1>3, NatsByStep
<1> QED
  BY <1>4 DEF ks

\* The text leaves no hop out.
\* No line is left out of the text.
LEMMA AllPrinted == ASSUME ContextInv, near.hop # 0 PROVE Context!Printed = near.tagged
<1> DEFINE W == WalkOf(world.edges, at)
           es == world.edges
<1>1. Walk(W, es, at) /\ near.hop \in Nat /\ SearchAt(W, es, near)
  <2>1. at \in Ids /\ es \in SUBSET Edges /\ SearchAt(W, es, near)
    BY DEF ContextInv
  <2>2. near.hop \in Nat
    BY DEF ContextInv, Context!TypeOK
  <2> QED
    BY <2>1, <2>2, WalksAre
<1> HIDE DEF W, es
<1> SUFFICES ASSUME NEW t \in near.tagged, NEW h \in 2 .. t.hop PROVE Context!EdgesAt(h) # {}
  BY DEF Context!Printed
<1>2. t \in [hop : 1 .. near.hop - 1, edge : es] /\ t.edge.source \in Level(W, t.hop - 1)
  BY <1>1 DEF SearchAt
<1>3. t.hop \in 1 .. near.hop - 1 /\ t.hop - 1 \in Nat
  BY <1>1, <1>2
<1>4. CASE h = t.hop
  BY <1>4 DEF Context!EdgesAt
<1>5. CASE h # t.hop
  <2>1. h - 1 \in 0 .. (t.hop - 1) - 1 /\ h \in 1 .. near.hop - 1
    BY <1>1, <1>3, <1>5
  <2>2. PICK e \in es : e.source \in Level(W, h - 1)
    BY <1>1, <1>2, <1>3, <2>1, LevelsBefore
  <2>3. [hop |-> h, edge |-> e] \in near.tagged
    BY <1>1, <2>1, <2>2 DEF SearchAt
  <2> QED
    BY <2>3 DEF Context!EdgesAt
<1> QED
  BY <1>4, <1>5

\* When the search is over, exactly the edges are tagged that start fewer than h steps away, at
\* their distance.
LEMMA AllTagged ==
    ASSUME ContextInv, near.hop # 0, near.hop \in 1 .. settings.hops => near.frontier = {}
    PROVE  /\ \A e \in world.edges :
                (\E k \in 0 .. settings.hops - 1 : e.source \in WalkOf(world.edges, at)[k])
                    <=> \E t \in near.tagged : t.edge = e
           /\ \A t \in near.tagged : t.edge \in world.edges /\ t.hop = Context!Distance(t.edge.source) + 1
<1> DEFINE W == WalkOf(world.edges, at)
           es == world.edges
<1>1. /\ Walk(W, es, at) /\ W \in [Nat -> SUBSET Ids] /\ SearchAt(W, es, near)
      /\ near.hop \in Nat \ {0} /\ settings.hops \in Nat \ {0} /\ near.hop <= settings.hops + 1
  <2>1. at \in Ids /\ es \in SUBSET Edges /\ SearchAt(W, es, near)
    BY DEF ContextInv
  <2>2. settings.hops \in Nat \ {0}
    BY DEF ContextInv
  <2>3. near.hop \in 0 .. settings.hops + 1
    BY DEF ContextInv, Context!TypeOK
  <2>4. Walk(W, es, at)
    BY <2>1, WalksAre
  <2>5. W \in [Nat -> SUBSET Ids]
    BY <2>4 DEF Walk
  <2> HIDE DEF W, es
  <2> QED
    BY <2>1, <2>2, <2>3, <2>4, <2>5
<1>2. ASSUME NEW t \in near.tagged
      PROVE  t.edge \in es /\ t.hop \in 1 .. near.hop - 1 /\ t.edge.source \in Level(W, t.hop - 1)
  <2> HIDE DEF W, es
  <2>1. t \in [hop : 1 .. near.hop - 1, edge : es] /\ t.edge.source \in Level(W, t.hop - 1)
    BY <1>1 DEF SearchAt
  <2> QED
    BY <2>1
<1>3. ASSUME NEW t \in near.tagged PROVE t.hop = Context!Distance(t.edge.source) + 1
  <2>1. t.hop - 1 \in Nat /\ t.edge.source \in Level(W, t.hop - 1)
    BY <1>1, <1>2
  <2> DEFINE d == t.hop - 1
             n == t.edge.source
  <2>2. d \in Nat /\ n \in Level(Context!WalksTo, d) /\ world.edges \in SUBSET Edges /\ at \in Ids
    BY <2>1, WalksAreThose DEF ContextInv
  <2> HIDE DEF d, n
  <2>3. Context!Distance(n) = d
    BY <2>2, DistanceIs
  <2>4. t.hop = d + 1
    BY <1>1, <1>2 DEF d
  <2> QED
    BY <2>3, <2>4 DEF n
<1>4. ASSUME NEW t \in near.tagged PROVE \E k \in 0 .. settings.hops - 1 : t.edge.source \in W[k]
  <2> HIDE DEF W, es
  <2>1. t.hop - 1 \in 0 .. settings.hops - 1
    BY <1>1, <1>2
  <2>2. t.edge.source \in W[t.hop - 1]
    BY <1>2 DEF Level
  <2> QED
    BY <2>1, <2>2
<1>5. ASSUME NEW e \in es, NEW k \in 0 .. settings.hops - 1, e.source \in W[k]
      PROVE  \E t \in near.tagged : t.edge = e
  <2> HIDE DEF W, es
  <2> DEFINE m == near.hop - 1
  <2>1. m \in Nat /\ k \in Nat
    BY <1>1
  <2>2. e.source \in Within(W, m)
    <3>1. CASE near.frontier = {}
      <4>1. Level(W, m) = {}
        BY <1>1, <3>1 DEF SearchAt
      <4> HIDE DEF m
      <4> QED
        BY <1>1, <1>5, <2>1, <4>1, SearchEnds
    <3>2. CASE near.frontier # {}
      <4>1. m = settings.hops
        BY <1>1, <3>2
      <4>2. k \in 0 .. m - 1 /\ W[k] \subseteq Ids
        BY <1>1, <2>1, <4>1
      <4> HIDE DEF m
      <4> QED
        BY <1>5, <4>2 DEF Within
    <3> QED
      BY <3>1, <3>2
  <2> HIDE DEF m
  <2>3. PICK j \in 0 .. m - 1 : e.source \in Level(W, j)
    BY <1>1, <2>1, <2>2, ReachedFirst
  <2>4. j + 1 \in 1 .. near.hop - 1 /\ (j + 1) - 1 = j
    BY <1>1, <2>1 DEF m
  <2>5. [hop |-> j + 1, edge |-> e] \in near.tagged
    BY <1>1, <2>3, <2>4 DEF SearchAt
  <2> QED
    BY <2>5
<1> QED
  BY <1>2, <1>3, <1>4, <1>5

\* The end of the trajectory.
LastSteps(r) ==
    /\ settings.window # None => Len(r) <= settings.window
    /\ Len(r) < Len(steps) => Len(r) = settings.window
    /\ \A i \in 1 .. Len(r) : /\ r[i].number = Len(steps) - Len(r) + i
                              /\ r[i].action = steps[r[i].number]

\* The window is the end of the trajectory.
LEMMA RecentIsEnd ==
    ASSUME settings \in GuideSettings, steps \in Seq(Ids) PROVE LastSteps(Context!Recent)
<1> DEFINE w == settings.window
           n == Len(steps)
           o == IF w = None \/ w > n THEN 0 ELSE n - w
           r == [i \in 1 .. n - o |-> [number |-> o + i, action |-> steps[o + i]]]
<1>1. w \in Nat \cup {None} /\ n \in Nat
  OBVIOUS
<1>2. Context!Recent = r
  BY DEF Context!Recent
<1> HIDE DEF w, n
<1>3. o \in 0 .. n /\ (w # None => n - o <= w) /\ (o > 0 => n - o = w)
  BY <1>1
<1> HIDE DEF o
<1>4. n - o \in Nat
  BY <1>1, <1>3
<1>5. Len(r) = n - o
  BY <1>4
<1>6. \A i \in 1 .. n - o : r[i].number = o + i /\ r[i].action = steps[o + i]
  OBVIOUS
<1> HIDE DEF r
<1>7. \A i \in 1 .. Len(r) : /\ r[i].number = n - Len(r) + i
                             /\ r[i].action = steps[r[i].number]
  <2> TAKE i \in 1 .. Len(r)
  <2>1. i \in 1 .. n - o /\ n - Len(r) + i = o + i
    BY <1>1, <1>3, <1>5
  <2>2. r[i].number = o + i /\ r[i].action = steps[o + i]
    BY <1>6, <2>1
  <2> QED
    BY <2>1, <2>2
<1>8. (w # None => Len(r) <= w) /\ (Len(r) < n => Len(r) = w)
  BY <1>1, <1>3, <1>5
<1> QED
  BY <1>2, <1>7, <1>8 DEF LastSteps, w, n

\* What guidance() does not change.
Inputs ==
    /\ world.nodes \in SUBSET Ids /\ world.edges \in SUBSET Edges
    /\ Start \in world.nodes
    /\ \A e \in world.edges : {e.source, e.target} \subseteq world.nodes
    /\ settings \in GuideSettings
    /\ steps \in Seq(Ids)

\* They stay what they are.
LEMMA InputsStay == ASSUME Inputs, UNCHANGED Context!inputs PROVE Inputs'
  BY DEF Inputs, Context!inputs

\* They are part of the invariant.
LEMMA InputsAre == ContextInv => Inputs
  BY DEF ContextInv, Inputs

\* match_node() finds a node or nothing.
LEMMA MatchIsNode == Context!Match \in world.nodes \cup {None}
  BY DEF Context!Match

\* The Guide without a located step.
LEMMA NothingKeeps == ASSUME ContextInv, Context!Nothing PROVE ContextInv'
<1>1. /\ near.hop = 0 /\ settings.mode = "none" /\ at' = Context!Match
      /\ served' = [whole |-> FALSE, edges |-> {}, recent |-> <<>>]
      /\ UNCHANGED Context!inputs /\ near' = near
  BY DEF Context!Nothing, Context!Asked, Context!Text
<1>2. world' = world /\ settings' = settings /\ steps' = steps
  BY <1>1 DEF Context!inputs
<1>3. Inputs'
  BY <1>1, InputsAre, InputsStay
<1>4. Context!TypeOK'
  <2>1. served'.whole \in BOOLEAN
    BY <1>1, Zenon
  <2>2. at' \in world'.nodes \cup {None}
    BY <1>1, <1>2, MatchIsNode
  <2> QED
    BY <1>1, <1>2, <2>1, <2>2 DEF ContextInv, Context!TypeOK
<1>5. Context!GuidanceIsLocal'
  BY <1>1, <1>2 DEF Context!GuidanceIsLocal, Context!ContextIsNeighborhood, Context!RecentIsTail
<1> QED
  BY <1>1, <1>3, <1>4, <1>5 DEF ContextInv, Inputs

\* The whole graph.
LEMMA WholeKeeps == ASSUME ContextInv, Context!Whole PROVE ContextInv'
<1>1. /\ near.hop = 0 /\ settings.mode # "none" /\ (settings.mode = "full" \/ Context!Match = None)
      /\ at' = Context!Match
      /\ served' = [whole |-> TRUE, edges |-> {[hop |-> 0, edge |-> e] : e \in world.edges},
                    recent |-> Context!Recent]
      /\ UNCHANGED Context!inputs /\ near' = near
  BY DEF Context!Whole, Context!Asked, Context!Text
<1>2. world' = world /\ settings' = settings /\ steps' = steps
  BY <1>1 DEF Context!inputs
<1>3. Inputs'
  BY <1>1, InputsAre, InputsStay
<1>4. served'.whole = TRUE /\ served'.edges = {[hop |-> 0, edge |-> e] : e \in world.edges}
      /\ served'.recent = Context!Recent
  BY <1>1
<1>5. Context!TypeOK'
  <2>1. served'.whole \in BOOLEAN
    BY <1>4, Zenon
  <2>2. at' \in world'.nodes \cup {None}
    BY <1>1, <1>2, MatchIsNode
  <2> QED
    BY <1>1, <1>2, <2>1, <2>2 DEF ContextInv, Context!TypeOK
<1>6. Context!ContextIsNeighborhood'
  <2>1. {t.edge : t \in served'.edges} = world'.edges
    <3>1. ASSUME NEW t \in served'.edges PROVE t.edge \in world.edges
      <4>1. PICK e \in world.edges : t = [hop |-> 0, edge |-> e]
        BY <1>4
      <4> QED
        BY <4>1
    <3>2. ASSUME NEW e \in world.edges PROVE \E t \in served'.edges : t.edge = e
      <4>1. [hop |-> 0, edge |-> e] \in served'.edges /\ [hop |-> 0, edge |-> e].edge = e
        BY <1>4
      <4> QED
        BY <4>1
    <3> QED
      BY <1>2, <3>1, <3>2
  <2>2. settings'.mode = "full" \/ at' = None
    BY <1>1, <1>2
  <2> QED
    BY <1>4, <2>1, <2>2, Zenon DEF Context!ContextIsNeighborhood
<1>7. Context!RecentIsTail'
  <2>1. LastSteps(Context!Recent)
    BY RecentIsEnd DEF ContextInv
  <2> QED
    BY <1>2, <1>4, <2>1 DEF LastSteps, Context!RecentIsTail
<1> QED
  BY <1>1, <1>3, <1>5, <1>6, <1>7 DEF ContextInv, Inputs, Context!GuidanceIsLocal

\* The search begins.
LEMMA AroundKeeps == ASSUME ContextInv, Context!Around PROVE ContextInv'
<1>1. /\ served = None /\ settings.mode = "subgraph" /\ Context!Match # None /\ at' = Context!Match
      /\ near' = [hop |-> 1, frontier |-> {Context!Match}, seen |-> {Context!Match}, tagged |-> {}]
      /\ UNCHANGED Context!inputs /\ served' = served
  BY DEF Context!Around, Context!Asked
<1>2. world' = world /\ settings' = settings /\ steps' = steps
  BY <1>1 DEF Context!inputs
<1>3. Inputs'
  BY <1>1, InputsAre, InputsStay
<1>4. at' \in world.nodes /\ at' \in Ids /\ world.edges \in SUBSET Edges
  BY <1>1, MatchIsNode DEF ContextInv
<1>5. near'.hop = 1 /\ near'.frontier = {at'} /\ near'.seen = {at'} /\ near'.tagged = {}
      /\ near' = [hop |-> 1, frontier |-> {at'}, seen |-> {at'}, tagged |-> {}]
  BY <1>1
<1>6. SearchAt(WalkOf(world.edges, at'), world.edges, near')
  BY <1>4, <1>5, SearchBegins
<1>7. Context!TypeOK'
  <2>1. settings.hops \in Nat \ {0}
    BY DEF ContextInv
  <2> QED
    BY <1>1, <1>2, <1>4, <1>5, <2>1 DEF Context!TypeOK
<1>8. Context!GuidanceIsLocal'
  BY <1>1 DEF Context!GuidanceIsLocal, Context!ContextIsNeighborhood, Context!RecentIsTail
<1> QED
  BY <1>1, <1>2, <1>3, <1>4, <1>6, <1>7, <1>8 DEF ContextInv, Inputs

\* One hop of the search.
LEMMA HopKeeps == ASSUME ContextInv, Context!Hop PROVE ContextInv'
<1> DEFINE es == world.edges
           out == {e \in es : e.source \in near.frontier}
<1>1. /\ served = None /\ near.hop \in 1 .. settings.hops
      /\ near' = [hop |-> near.hop + 1, frontier |-> {e.target : e \in out} \ near.seen,
                  seen |-> near.seen \cup {e.target : e \in out},
                  tagged |-> near.tagged \cup {[hop |-> near.hop, edge |-> e] : e \in out}]
      /\ UNCHANGED Context!inputs /\ at' = at /\ served' = served
  BY DEF Context!Hop, Context!Searching, Context!Leaving
<1>2. world' = world /\ settings' = settings /\ steps' = steps
  BY <1>1 DEF Context!inputs
<1>3. Inputs'
  BY <1>1, InputsAre, InputsStay
<1>4. settings.hops \in Nat \ {0} /\ es \in SUBSET Edges /\ near.hop \in Nat \ {0}
  <2>1. settings.hops \in Nat \ {0} /\ es \in SUBSET Edges
    BY DEF ContextInv
  <2> QED
    BY <1>1, <2>1
<1>5. /\ at \in world.nodes /\ at \in Ids /\ settings.mode = "subgraph"
      /\ SearchAt(WalkOf(es, at), es, near)
  BY <1>4 DEF ContextInv
<1>6. /\ near'.hop = near.hop + 1 /\ near'.frontier = To(es, near.frontier) \ near.seen
      /\ near'.seen = near.seen \cup To(es, near.frontier)
      /\ near'.tagged = near.tagged \cup {[hop |-> near.hop, edge |-> e] : e \in out}
  BY <1>1 DEF To
<1>7. SearchAt(WalkOf(es, at), es, near')
  BY <1>4, <1>5, <1>6, SearchGoesOn
<1>8. Context!TypeOK'
  <2>1. near.seen \subseteq world.nodes /\ near.tagged \subseteq [hop : 1 .. settings.hops, edge : es]
    BY DEF ContextInv, Context!TypeOK
  <2>2. To(es, near.frontier) \subseteq world.nodes
    BY DEF ContextInv, To
  <2>3. near'.hop \in 0 .. settings.hops + 1
    BY <1>1, <1>4, <1>6
  <2>4. near'.frontier \subseteq near'.seen /\ near'.seen \subseteq world.nodes
    BY <1>6, <2>1, <2>2
  <2>5. near'.tagged \subseteq [hop : 1 .. settings.hops, edge : es]
    <3>1. {[hop |-> near.hop, edge |-> e] : e \in out} \subseteq [hop : 1 .. settings.hops, edge : es]
      BY <1>1
    <3> QED
      BY <1>6, <2>1, <3>1
  <2> QED
    BY <1>1, <1>2, <1>5, <2>3, <2>4, <2>5 DEF Context!TypeOK
<1>9. Context!GuidanceIsLocal'
  BY <1>1 DEF Context!GuidanceIsLocal, Context!ContextIsNeighborhood, Context!RecentIsTail
<1> QED
  BY <1>1, <1>2, <1>3, <1>5, <1>7, <1>8, <1>9 DEF ContextInv, Inputs

\* The text of what was found.
LEMMA SerializeKeeps == ASSUME ContextInv, Context!Serialize PROVE ContextInv'
<1> DEFINE es == world.edges
           W == WalkOf(es, at)
<1>1. /\ served = None /\ near.hop > 0 /\ ~ Context!Searching
      /\ served' = [whole |-> FALSE, edges |-> Context!Printed, recent |-> Context!Recent]
      /\ UNCHANGED Context!inputs /\ at' = at /\ near' = near
  BY DEF Context!Serialize, Context!Text
<1>2. world' = world /\ settings' = settings /\ steps' = steps
  BY <1>1 DEF Context!inputs
<1>3. Inputs'
  BY <1>1, InputsAre, InputsStay
<1>4. near.hop # 0 /\ (near.hop \in 1 .. settings.hops => near.frontier = {})
  BY <1>1 DEF Context!Searching
<1>5. Context!Printed = near.tagged
  BY <1>4, AllPrinted
<1>6. served'.whole = FALSE /\ served'.edges = near.tagged /\ served'.recent = Context!Recent
  BY <1>1, <1>5
<1>7. /\ \A e \in es : (\E k \in 0 .. settings.hops - 1 : e.source \in W[k]) <=> \E t \in near.tagged : t.edge = e
      /\ \A t \in near.tagged : t.edge \in es /\ t.hop = Context!Distance(t.edge.source) + 1
  BY <1>4, AllTagged
<1>8. /\ at \in world.nodes /\ at # None /\ settings.mode = "subgraph"
      /\ \A e \in es : e.source \in world.nodes
  <2>1. at \in world.nodes /\ settings.mode = "subgraph" /\ world.nodes \in SUBSET Ids
    BY <1>4 DEF ContextInv
  <2>2. \A e \in es : e.source \in world.nodes
    BY DEF ContextInv
  <2>3. at \in Ids
    BY <2>1
  <2>4. at \in Int
    BY <2>3
  <2> QED
    BY <2>1, <2>2, <2>4
<1>9. Context!WalksTo' = Context!WalksTo /\ Context!WalksTo = W
  BY <1>1, <1>2, WalksAreThose DEF Context!WalksTo
<1>10. \A n : Context!Distance(n)' = Context!Distance(n)
  BY <1>9 DEF Context!Distance
<1>11. Context!TypeOK'
  <2>1. served'.whole \in BOOLEAN
    BY <1>6, Zenon
  <2> QED
    BY <1>1, <1>2, <2>1 DEF ContextInv, Context!TypeOK
<1>12. Context!RecentIsTail'
  <2>1. LastSteps(Context!Recent)
    BY RecentIsEnd DEF ContextInv
  <2> QED
    BY <1>2, <1>6, <2>1 DEF LastSteps, Context!RecentIsTail
<1>13. Context!ContextIsNeighborhood'
  <2> DEFINE around == {n \in world.nodes : \E k \in 0 .. settings.hops - 1 : n \in W[k]}
  <2>1. {t.edge : t \in served'.edges} = {e \in es : e.source \in around}
    <3> HIDE DEF W
    <3> QED
      BY <1>6, <1>7, <1>8
  <2>2. \A t \in served'.edges : t.hop = Context!Distance(t.edge.source) + 1
    BY <1>6, <1>7
  <2>3. ~ served'.whole /\ ~ (settings'.mode = "full" \/ at' = None)
    BY <1>1, <1>2, <1>6, <1>8
  <2>4. around = {n \in world'.nodes : \E k \in 0 .. settings'.hops - 1 : n \in Context!WalksTo'[k]}
    BY <1>2, <1>9
  <2>5. \A t \in served'.edges : t.hop = Context!Distance(t.edge.source)' + 1
    BY <1>10, <2>2
  <2>6. es = world'.edges
    BY <1>2
  <2> HIDE DEF around, es, W
  <2> QED
    BY <2>1, <2>3, <2>4, <2>5, <2>6 DEF Context!ContextIsNeighborhood
<1> QED
  BY <1>1, <1>2, <1>3, <1>4, <1>11, <1>12, <1>13 DEF ContextInv, Inputs, Context!GuidanceIsLocal

\* The first context.
LEMMA ContextInit == Context!Init => ContextInv
<1> SUFFICES ASSUME Context!Init PROVE ContextInv
  OBVIOUS
<1>1. /\ world \in Context!Worlds /\ settings \in GuideSettings /\ at = None /\ served = None
      /\ steps \in UNION {[1 .. n -> Ids] : n \in 0 .. Steps}
      /\ near = [hop |-> 0, frontier |-> {}, seen |-> {}, tagged |-> {}]
  BY DEF Context!Init
<1>2. PICK es \in SUBSET Edges :
        world = [nodes |-> {Start, End} \cup {e.source : e \in es} \cup {e.target : e \in es}, edges |-> es]
  <2>1. Context!Edges = Edges
    BY DEF Context!Edges, Edges
  <2> QED
    BY <1>1, <2>1, Zenon DEF Context!Worlds
<1>3. world.edges = es
      /\ world.nodes = {Start, End} \cup {e.source : e \in es} \cup {e.target : e \in es}
  BY <1>2
<1>4. \A e \in es : e.source \in Ids /\ e.target \in Ids
  BY DEF Edges
<1>5. /\ world.nodes \in SUBSET Ids /\ world.edges \in SUBSET Edges /\ Start \in world.nodes
      /\ \A e \in world.edges : {e.source, e.target} \subseteq world.nodes
  BY <1>3, <1>4
<1>6. steps \in Seq(Ids)
  <2>1. PICK n \in 0 .. Steps : steps \in [1 .. n -> Ids]
    BY <1>1
  <2>2. n \in Nat
    OBVIOUS
  <2> QED
    BY <2>1, <2>2, SeqDef
<1>7. near.hop = 0 /\ near.frontier = {} /\ near.seen = {} /\ near.tagged = {}
  BY <1>1
<1>8. Context!TypeOK
  <2>1. settings.hops \in Nat
    BY <1>1
  <2> QED
    BY <1>1, <1>7, <2>1 DEF Context!TypeOK
<1>9. Context!GuidanceIsLocal
  BY <1>1 DEF Context!GuidanceIsLocal, Context!ContextIsNeighborhood, Context!RecentIsTail
<1> QED
  BY <1>1, <1>5, <1>6, <1>7, <1>8, <1>9 DEF ContextInv

\* Every step keeps the invariant.
LEMMA ContextStep == ASSUME ContextInv, [Context!Next]_Context!vars PROVE ContextInv'
<1>1. CASE Context!Nothing
  BY <1>1, NothingKeeps
<1>2. CASE Context!Whole
  BY <1>2, WholeKeeps
<1>3. CASE Context!Around
  BY <1>3, AroundKeeps
<1>4. CASE Context!Hop
  BY <1>4, HopKeeps
<1>5. CASE Context!Serialize
  BY <1>5, SerializeKeeps
<1>6. CASE UNCHANGED Context!vars
  <2>1. world' = world /\ settings' = settings /\ steps' = steps /\ at' = at /\ near' = near /\ served' = served
    BY <1>6 DEF Context!vars
  <2>2. Inputs'
    BY <2>1, InputsAre, InputsStay DEF Context!inputs
  <2>3. Context!TypeOK'
    BY <2>1 DEF ContextInv, Context!TypeOK
  <2>4. Context!WalksTo' = Context!WalksTo
    BY <2>1 DEF Context!WalksTo
  <2>5. \A n : Context!Distance(n)' = Context!Distance(n)
    BY <2>4 DEF Context!Distance
  <2>6. Context!ContextIsNeighborhood' <=> Context!ContextIsNeighborhood
    BY <2>1, <2>4, <2>5 DEF Context!ContextIsNeighborhood
  <2>7. Context!RecentIsTail' <=> Context!RecentIsTail
    BY <2>1 DEF Context!RecentIsTail
  <2>8. Context!GuidanceIsLocal'
    BY <2>6, <2>7 DEF ContextInv, Context!GuidanceIsLocal
  <2> QED
    BY <2>1, <2>2, <2>3, <2>8 DEF ContextInv, Inputs
<1> QED
  BY <1>1, <1>2, <1>3, <1>4, <1>5, <1>6 DEF Context!Next

HIDE GraphAssumption
HIDE NoneAssumption
HIDE GuidanceAssumption
HIDE CallsAssumption

\* While the part is the context, a step is one of GuidanceContext or changes nothing of it.
LEMMA ContextMoves ==
    ASSUME part = "context", [MCNext]_MCVars PROVE part' = part /\ [Context!Next]_Context!vars
<1>1. CASE MCNext
  BY <1>1 DEF MCNext, Context!vars
<1>2. CASE UNCHANGED MCVars
  <2>1. UNCHANGED <<part, newerVars>>
    BY <1>2 DEF MCVars
  <2>2. UNCHANGED contextVars
    BY <2>1 DEF newerVars
  <2> QED
    BY <2>1, <2>2 DEF contextVars, Context!vars
<1> QED
  BY <1>1, <1>2

\* The invariant holds while the part is the context.
ContextHolds == part = "context" => ContextInv

\* It holds at every step of the part.
LEMMA ContextAlways == MCSpec => []ContextHolds
<1>1. MCInit => ContextHolds
  BY ContextInit DEF MCInit, ContextHolds
<1>2. ContextHolds /\ [MCNext]_MCVars => ContextHolds'
  BY PartStays, ContextMoves, ContextStep DEF ContextHolds
<1> QED
  BY <1>1, <1>2, PTL DEF MCSpec

\* For graphs of any size, any settings and trajectory: a located step is shown exactly the edges
\* that start fewer than h steps from it, at their distance, and the last steps under their
\* numbers, as many as the window holds (graph.py:348-368, serialize.py:69-111).
THEOREM GuideReadsNeighborhood == MCSpec => []GuidanceIsLocal
<1>1. ContextHolds => GuidanceIsLocal
  BY DEF ContextHolds, GuidanceIsLocal, ContextInv
<1> QED
  BY <1>1, ContextAlways, PTL

=============================================================================

--------------------------- MODULE AlgorithmProofs ---------------------------
(***************************************************************************)
(* Algorithms, for every input: reading a node in windows joins, the tree  *)
(* that is built from a document covers it, and neither loses a section    *)
(* nor becomes dearer when it is optimized, and what is counted, cut into  *)
(* batches and packed of a document's hints is what it should be.          *)
(*                                                                         *)
(* Windows.  The ends of the characters ascend, so the largest of them     *)
(* within a budget exists (CutFacts); the lines are numbered in the order  *)
(* of their starts (LineFacts), so the bytes between two starts have the   *)
(* lines between.  ReadInv adds to the property where the reader stands.   *)
(*                                                                         *)
(* Trees.  While a tree grows its open sections reach to the end of the    *)
(* document and lie in one another (OpenOK), so whenever the one that is a *)
(* root is closed the section that is added is a root itself: the roots    *)
(* still cover the document (PushGrows).  The tree that is complete is one *)
(* that the optimizer accepts (PromotedAccepted, PagesAccepted), and each  *)
(* of its passes leaves such a tree with the same sections                 *)
(* (SiblingsMerged, SubtreesMerged).                                       *)
(*                                                                         *)
(* Costs.  The frontier cost of a section is one more than the largest of  *)
(* its children's (FrontierStep), and so is the optimizer's before it      *)
(* takes the lesser of that and the section's pages (CostStep).  After a   *)
(* pass the first equals the second (SubtreesCheaper).                     *)
(*                                                                         *)
(* Hints.  Windows are taken by their starts, so that what one adds to the *)
(* bytes is what it has after the largest end before it (WindowAdds).      *)
(* Batches that are as long as they can be reach at least as far as those  *)
(* of any division (GreedyAhead) and cost no more (PlannedFacts), so that  *)
(* whatever is refused could not be afforded (Affords).  Of those that are *)
(* chosen, the ones better than an omitted one come first (LeftOut).       *)
(***************************************************************************)
EXTENDS NodeWindows, PageTree, HintScan, FiniteSetTheorems, WellFoundedInduction, TLAPS

---------------------------------------------------------------------------
(***************************************************************************)
(* Numbers and sets of numbers.                                            *)
(***************************************************************************)

\* A set of numbers has a least one.
LEMMA LeastOne ==
    ASSUME NEW bad \in SUBSET Nat, bad # {}
    PROVE  \E n \in bad : \A m \in bad : ~(m < n)
<1>1. \E n \in bad : \A m \in bad : ~(<<m, n>> \in OpToRel(<, Nat))
  BY NatLessThanWellFounded, WFMin
<1> QED BY <1>1 DEF OpToRel

\* A bounded set of numbers has a largest one.
LEMMA MaxFacts ==
    ASSUME NEW S \in SUBSET Nat, S # {}, NEW b \in Nat, \A x \in S : x <= b
    PROVE  Max(S) \in S /\ \A x \in S : x <= Max(S)
<1> DEFINE above == {m \in Nat : \A x \in S : x <= m}
<1>1. PICK m \in above : \A k \in above : ~(k < m)
  <2>1. b \in above /\ above \in SUBSET Nat
    OBVIOUS
  <2> HIDE DEF above
  <2> QED BY <2>1, LeastOne
<1>2. m \in Nat /\ \A x \in S : x \in Nat /\ x <= m
  OBVIOUS
<1>3. m \in S
  <2>1. CASE m = 0
    <3>1. PICK x \in S : TRUE
      OBVIOUS
    <3>2. x = m
      BY <1>2, <2>1, <3>1
    <3> QED BY <3>2
  <2>2. CASE m # 0
    <3>1. m - 1 \in Nat /\ m - 1 \notin above
      BY <1>1, <1>2, <2>2
    <3>2. PICK x \in S : ~(x <= m - 1)
      BY <3>1
    <3>3. x = m
      BY <1>2, <3>1, <3>2
    <3> QED BY <3>3
  <2> QED BY <2>1, <2>2
<1>4. \E x \in S : \A y \in S : x >= y
  BY <1>2, <1>3
<1>5. Max(S) \in S /\ \A y \in S : Max(S) >= y
  BY <1>4 DEF Max
<1> QED BY <1>2, <1>5

LEMMA MaxIs ==
    ASSUME NEW S \in SUBSET Nat, NEW m \in S, \A x \in S : x <= m
    PROVE  Max(S) = m
<1>1. m \in Nat /\ S # {}
  OBVIOUS
<1>2. Max(S) \in S /\ \A x \in S : x <= Max(S)
  BY <1>1, MaxFacts
<1>3. Max(S) <= m /\ m <= Max(S) /\ Max(S) \in Nat
  BY <1>2
<1> QED BY <1>1, <1>3

\* A set of numbers that is not empty has a least one: Min.
LEMMA MinFacts ==
    ASSUME NEW S \in SUBSET Nat, S # {}
    PROVE  Min(S) \in S /\ \A x \in S : Min(S) <= x
<1>1. PICK m \in S : \A x \in S : ~(x < m)
  BY LeastOne
<1>2. \A x \in S : m <= x
  BY <1>1
<1>3. \E x \in S : \A y \in S : x <= y
  BY <1>2
<1> QED BY <1>3 DEF Min

\* The sums of the first n elements of a sequence.
Summed(f, g, n) ==
    f = [k \in 0..n |-> IF k = 0 THEN 0 ELSE f[k - 1] + g[k]]

\* Any sequence has them.
LEMMA SummedExists ==
    ASSUME NEW s
    PROVE  \A n \in Nat : \E f : Summed(f, s, n)
<1> DEFINE bad == {n \in Nat : ~\E f : Summed(f, s, n)}
<1>1. ASSUME bad # {} PROVE FALSE
  <2>1. PICK n \in bad : \A m \in bad : ~(m < n)
    BY <1>1, LeastOne
  <2>2. CASE n = 0
    <3>1. Summed([k \in 0..0 |-> 0], s, 0)
      BY DEF Summed
    <3> QED BY <2>1, <2>2, <3>1
  <2>3. CASE n # 0
    <3>1. n - 1 \in Nat /\ n - 1 \notin bad
      BY <2>1, <2>3
    <3>2. PICK f : Summed(f, s, n - 1)
      BY <3>1
    <3> DEFINE g == [k \in 0..n |-> IF k = n THEN f[n - 1] + s[n] ELSE f[k]]
    <3>3. \A k \in 0..(n - 1) : f[k] = IF k = 0 THEN 0 ELSE f[k - 1] + s[k]
      BY <3>2 DEF Summed
    <3>4. ASSUME NEW k \in 0..n
          PROVE  g[k] = IF k = 0 THEN 0 ELSE g[k - 1] + s[k]
      <4>1. CASE k = n
        <5>1. g[k] = f[n - 1] + s[n] /\ g[k - 1] = f[n - 1]
          BY <2>3, <3>1, <4>1
        <5> QED BY <2>3, <4>1, <5>1
      <4>2. CASE k # n
        <5>1. g[k] = f[k] /\ k \in 0..(n - 1)
          BY <3>1, <4>2
        <5>2. k # 0 => g[k - 1] = f[k - 1]
          BY <3>1, <4>2
        <5> QED BY <3>3, <5>1, <5>2
      <4> QED BY <4>1, <4>2
    <3>5. Summed(g, s, n)
      <4>1. g = [k \in 0..n |-> g[k]]
        OBVIOUS
      <4> HIDE DEF g
      <4> QED BY <3>4, <4>1 DEF Summed
    <3> QED BY <2>1, <3>5
  <2> QED BY <2>2, <2>3
<1> QED BY <1>1

---------------------------------------------------------------------------
(***************************************************************************)
(* The ends of the characters of a text.                                   *)
(***************************************************************************)

\* They ascend from 0.
LEMMA EndsFacts ==
    ASSUME NEW t \in Seq(DOMAIN Widths)
    PROVE  /\ Ends(t)[0] = 0
           /\ \A k \in 0..Len(t) : Ends(t)[k] \in Nat
           /\ \A i, j \in 0..Len(t) : i < j => Ends(t)[i] < Ends(t)[j]
<1> DEFINE n == Len(t)
           e == CHOOSE f : f = [k \in 0..Len(t) |->
                                  IF k = 0 THEN 0 ELSE f[k - 1] + Widths[t[k]]]
<1>1. Ends(t) = e
  BY DEF Ends
<1>2. e = [k \in 0..n |-> IF k = 0 THEN 0 ELSE e[k - 1] + Widths[t[k]]]
  <2> DEFINE g == [k \in 1..n |-> Widths[t[k]]]
  <2>1. n \in Nat
    OBVIOUS
  <2>2. PICK f : Summed(f, g, n)
    BY <2>1, SummedExists
  <2>3. \A k \in 0..n : k # 0 => g[k] = Widths[t[k]]
    BY <2>1
  <2>4. f = [k \in 0..n |-> IF k = 0 THEN 0 ELSE f[k - 1] + Widths[t[k]]]
    <3> HIDE DEF g
    <3> QED BY <2>2, <2>3 DEF Summed
  <2> QED BY <2>4
<1> HIDE DEF e
<1>3. \A k \in 0..n : e[k] = IF k = 0 THEN 0 ELSE e[k - 1] + Widths[t[k]]
  BY <1>2
<1>4. \A k \in 1..n : Widths[t[k]] \in Nat \ {0}
  <2>1. \A k \in 1..n : t[k] \in DOMAIN Widths
    OBVIOUS
  <2> QED BY <2>1, ReadAssumption
<1>5. n \in Nat
  OBVIOUS
<1> HIDE DEF n
<1>6. \A k \in 0..n : e[k] \in Nat
  <2> DEFINE bad == {k \in 0..n : e[k] \notin Nat}
  <2>1. ASSUME bad # {} PROVE FALSE
    <3>1. bad \in SUBSET Nat
      OBVIOUS
    <3>2. PICK k \in bad : \A m \in bad : ~(m < k)
      BY <2>1, <3>1, LeastOne
    <3>3. CASE k = 0
      BY <1>3, <3>2, <3>3
    <3>4. CASE k # 0
      <4>1. k - 1 \in 0..n /\ k \in 1..n /\ k - 1 < k
        BY <1>5, <3>4
      <4>2. e[k - 1] \in Nat
        BY <3>2, <4>1
      <4> QED BY <1>3, <1>4, <3>2, <3>4, <4>1, <4>2
    <3> QED BY <3>3, <3>4
  <2> QED BY <2>1
<1>7. ASSUME NEW i \in 0..n, NEW k \in 0..n, i < k PROVE e[i] < e[k]
  <2> DEFINE bad == {j \in 0..n : i < j /\ ~(e[i] < e[j])}
  <2>1. ASSUME bad # {} PROVE FALSE
    <3>1. bad \in SUBSET Nat
      OBVIOUS
    <3>2. PICK j \in bad : \A m \in bad : ~(m < j)
      BY <2>1, <3>1, LeastOne
    <3>3. /\ j \in 0..n /\ i < j /\ ~(e[i] < e[j]) /\ j - 1 \in 0..n /\ j \in 1..n
          /\ j - 1 < j /\ (i < j - 1 \/ i = j - 1)
      BY <1>5, <3>2
    <3>4. e[j - 1] < e[j] /\ e[j - 1] \in Nat /\ e[j] \in Nat /\ e[i] \in Nat
      <4>1. e[j - 1] \in Nat /\ e[j] \in Nat /\ e[i] \in Nat
        BY <1>6, <3>3
      <4>2. e[j] = e[j - 1] + Widths[t[j]] /\ Widths[t[j]] \in Nat \ {0}
        <5>1. j # 0
          BY <3>3
        <5> QED BY <1>3, <1>4, <3>3, <5>1
      <4> QED BY <4>1, <4>2
    <3>5. CASE i < j - 1
      <4>1. e[i] < e[j - 1]
        BY <3>2, <3>3, <3>5
      <4> QED BY <3>3, <3>4, <4>1
    <3>6. CASE i = j - 1
      BY <3>3, <3>4, <3>6
    <3> QED BY <3>3, <3>5, <3>6
  <2> QED BY <1>7, <2>1
<1>8. e[0] = 0
  BY <1>3, <1>5
<1> QED BY <1>1, <1>6, <1>7, <1>8 DEF n

TextOK == text \in Seq(DOMAIN Widths) /\ Len(text) # 0

\* The boundaries of characters and the starts of lines among them.
LEMMA BoundaryFacts ==
    ASSUME TextOK
    PROVE  /\ Boundaries \in SUBSET Nat /\ 0 \in Boundaries
           /\ Size \in Boundaries /\ \A b \in Boundaries : b <= Size
           /\ Starts(text) \in SUBSET Boundaries /\ 0 \in Starts(text)
           /\ IsFiniteSet(Starts(text)) /\ \A s \in Starts(text) : s < Size
<1> DEFINE n == Len(text)
           e == Ends(text)
<1>1. n \in Nat /\ n # 0
  BY DEF TextOK
<1>2. /\ e[0] = 0
      /\ \A k \in 0..n : e[k] \in Nat
      /\ \A i, j \in 0..n : i < j => e[i] < e[j]
  BY EndsFacts DEF TextOK
<1>3. Boundaries = {e[k] : k \in 0..n}
  BY DEF Boundaries
<1>4. Starts(text) = {0} \cup {e[k] : k \in {j \in 1..n : text[j] = "n" /\ j < n}}
  BY DEF Starts
<1> HIDE DEF n, e
<1>5. Boundaries \in SUBSET Nat /\ 0 \in Boundaries /\ e[n] \in Boundaries
  <2>1. 0 \in 0..n /\ n \in 0..n
    BY <1>1
  <2> QED BY <1>2, <1>3, <2>1
<1>6. \A b \in Boundaries : b <= e[n]
  <2> SUFFICES ASSUME NEW k \in 0..n PROVE e[k] <= e[n]
    BY <1>3
  <2>1. CASE k = n
    BY <1>2, <2>1
  <2>2. CASE k # n
    <3>1. k < n /\ n \in 0..n
      BY <1>1, <2>2
    <3>2. e[k] < e[n] /\ e[k] \in Nat /\ e[n] \in Nat
      BY <1>2, <3>1
    <3> QED BY <3>2
  <2> QED BY <2>1, <2>2
<1>7. Size = e[n]
  BY <1>5, <1>6, MaxIs DEF Size
<1>8. Starts(text) \in SUBSET Boundaries /\ 0 \in Starts(text)
  <2>1. \A k \in {j \in 1..n : text[j] = "n" /\ j < n} : k \in 0..n
    BY <1>1
  <2> QED BY <1>3, <1>4, <1>5, <2>1
<1>9. \A s \in Starts(text) : s < e[n]
  <2>1. \A k \in {j \in 1..n : text[j] = "n" /\ j < n} : k \in 0..n /\ n \in 0..n /\ k < n
    BY <1>1
  <2>2. 0 \in 0..n /\ n \in 0..n /\ 0 < n
    BY <1>1
  <2> QED BY <1>2, <1>4, <2>1, <2>2
<1>10. IsFiniteSet(Starts(text))
  <2>1. \A m \in Nat : IsFiniteSet(0..m)
    BY FS_Interval
  <2>2. e[n] \in Nat
    BY <1>5
  <2>3. Starts(text) \in SUBSET (0..e[n])
    <3>1. \A s \in Starts(text) : s \in Nat /\ s <= e[n]
      BY <1>5, <1>6, <1>8
    <3> QED BY <2>2, <3>1
  <2> QED BY <2>1, <2>2, <2>3, FS_Subset
<1> QED BY <1>5, <1>6, <1>7, <1>8, <1>9, <1>10

\* Lines are numbered from 1 in the order of their starts.
LEMMA LineFacts ==
    ASSUME TextOK
    PROVE  /\ Lines \in Nat
           /\ \A b \in Nat : LineOf(b) \in 1..Lines
           /\ \A b, c \in Nat : b <= c => LineOf(b) <= LineOf(c)
           /\ \A b \in Nat : \A s \in Starts(text) : b < s => LineOf(b) < LineOf(s)
           /\ \A l \in 1..Lines : StartOf(l) \in Starts(text) /\ LineOf(StartOf(l)) = l
<1> DEFINE S == Starts(text)
           upTo(b) == {s \in S : s <= b}
<1>1. IsFiniteSet(S) /\ 0 \in S /\ S \in SUBSET Nat
  BY BoundaryFacts
<1>2. Lines = Cardinality(S) /\ \A b : LineOf(b) = Cardinality(upTo(b))
  BY DEF Lines, LineOf
<1> HIDE DEF S
<1>3. Cardinality(S) \in Nat
  BY <1>1, FS_CardinalityType
<1>4. ASSUME NEW b \in Nat
      PROVE  /\ IsFiniteSet(upTo(b)) /\ Cardinality(upTo(b)) \in Nat
             /\ 1 <= Cardinality(upTo(b)) /\ Cardinality(upTo(b)) <= Cardinality(S)
  <2>1. upTo(b) \in SUBSET S
    OBVIOUS
  <2>2. IsFiniteSet(upTo(b)) /\ Cardinality(upTo(b)) <= Cardinality(S)
    BY <1>1, <2>1, FS_Subset
  <2>3. Cardinality(upTo(b)) \in Nat
    BY <2>2, FS_CardinalityType
  <2>4. {0} \in SUBSET upTo(b)
    BY <1>1
  <2>5. Cardinality({0}) <= Cardinality(upTo(b)) /\ Cardinality({0}) = 1
    BY <2>2, <2>4, FS_Subset, FS_Singleton
  <2> QED BY <2>2, <2>3, <2>5
<1>5. ASSUME NEW b \in Nat, NEW c \in Nat, b <= c
      PROVE  Cardinality(upTo(b)) <= Cardinality(upTo(c))
  <2>1. \A s \in S : s <= b => s <= c
    <3> SUFFICES ASSUME NEW s \in S, s <= b PROVE s <= c
      OBVIOUS
    <3>1. s \in Nat
      BY <1>1
    <3> QED BY <1>5, <3>1
  <2>2. upTo(b) \in SUBSET upTo(c)
    BY <2>1
  <2> QED BY <1>4, <2>2, FS_Subset
<1>6. ASSUME NEW b \in Nat, NEW s \in S, b < s
      PROVE  Cardinality(upTo(b)) < Cardinality(upTo(s))
  <2>1. s \in Nat
    BY <1>1
  <2>2. upTo(b) \in SUBSET upTo(s) /\ s \in upTo(s) /\ s \notin upTo(b)
    <3>1. ASSUME NEW u \in S, u <= b PROVE u <= s
      <4>1. u \in Nat
        BY <1>1
      <4> QED BY <1>6, <2>1, <3>1, <4>1
    <3>2. ~(s <= b) /\ s <= s
      BY <1>6, <2>1
    <3> QED BY <3>1, <3>2
  <2>3. /\ Cardinality(upTo(b)) <= Cardinality(upTo(s))
        /\ Cardinality(upTo(s)) # Cardinality(upTo(b))
    BY <1>4, <2>1, <2>2, FS_Subset
  <2> QED BY <1>4, <2>1, <2>3
<1> DEFINE m == Cardinality(S)
           rank == [s \in S |-> Cardinality(upTo(s))]
<1>7. rank \in [S -> 1..m]
  <2>1. \A s \in S : Cardinality(upTo(s)) \in 1..m
    BY <1>1, <1>3, <1>4
  <2> QED BY <2>1
<1>8. \A s \in S, u \in S : rank[s] = rank[u] => s = u
  <2> SUFFICES ASSUME NEW s \in S, NEW u \in S, s # u PROVE rank[s] # rank[u]
    OBVIOUS
  <2>1. s < u \/ u < s
    BY <1>1
  <2>2. s \in Nat /\ u \in Nat /\ rank[s] = Cardinality(upTo(s)) /\ rank[u] = Cardinality(upTo(u))
    BY <1>1
  <2> HIDE DEF rank
  <2>3. Cardinality(upTo(s)) \in Nat /\ Cardinality(upTo(u)) \in Nat
    BY <1>4, <2>2
  <2>4. Cardinality(upTo(s)) < Cardinality(upTo(u)) \/ Cardinality(upTo(u)) < Cardinality(upTo(s))
    BY <1>6, <2>1, <2>2
  <2> QED BY <2>2, <2>3, <2>4
<1>9. \A l \in 1..m : \E s \in S : rank[s] = l
  <2> HIDE DEF rank
  <2>1. rank \in Injection(S, 1..m)
    BY <1>7, <1>8 DEF Injection, IsInjective
  <2>2. IsFiniteSet(1..m) /\ Cardinality(1..m) = m
    <3>1. \A k \in Nat : IsFiniteSet(1..k) /\ Cardinality(1..k) = k
      BY FS_Interval
    <3> QED BY <1>3, <3>1
  <2>3. rank \in Surjection(S, 1..m)
    BY <2>1, <2>2, FS_Injection
  <2> QED BY <2>3 DEF Surjection
<1>10. \A s \in S : rank[s] = LineOf(s)
  BY <1>2
<1> HIDE DEF rank
<1>11. ASSUME NEW l \in 1..m PROVE StartOf(l) \in S /\ LineOf(StartOf(l)) = l
  <2>1. \E s \in S : LineOf(s) = l
    BY <1>9, <1>10
  <2> QED BY <2>1 DEF StartOf, S
<1>12. ASSUME NEW b \in Nat PROVE LineOf(b) \in 1..m
  <2>1. /\ Cardinality(upTo(b)) \in Nat
        /\ 1 <= Cardinality(upTo(b)) /\ Cardinality(upTo(b)) <= m
    BY <1>4
  <2> HIDE DEF upTo, m
  <2>2. Cardinality(upTo(b)) \in 1..m
    BY <1>3, <2>1 DEF m
  <2> QED BY <1>2, <2>2
<1> QED BY <1>2, <1>3, <1>5, <1>6, <1>11, <1>12 DEF S

---------------------------------------------------------------------------
(***************************************************************************)
(* One window.                                                             *)
(***************************************************************************)

SectionOK == section \in (1..Lines) \X (1..Lines) /\ section[1] <= section[2]

\* The lines of the bytes of a node are its lines.
LEMMA NodeFacts ==
    ASSUME TextOK, SectionOK
    PROVE  /\ NodeStart \in Boundaries /\ NodeEnd \in Boundaries
           /\ NodeStart \in Nat /\ NodeEnd \in Nat /\ NodeStart < NodeEnd
           /\ \A b \in Nat : NodeStart <= b => section[1] <= LineOf(b)
           /\ \A b \in Nat : b < NodeEnd => LineOf(b) <= section[2]
<1>1. /\ Boundaries \in SUBSET Nat /\ Size \in Boundaries
      /\ Starts(text) \in SUBSET Boundaries /\ \A s \in Starts(text) : s < Size
  BY BoundaryFacts
<1>2. /\ Lines \in Nat
      /\ \A b \in Nat : LineOf(b) \in 1..Lines
      /\ \A b, c \in Nat : b <= c => LineOf(b) <= LineOf(c)
      /\ \A b \in Nat : \A s \in Starts(text) : b < s => LineOf(b) < LineOf(s)
      /\ \A l \in 1..Lines : StartOf(l) \in Starts(text) /\ LineOf(StartOf(l)) = l
  BY LineFacts
<1>3. /\ section[1] \in 1..Lines /\ section[2] \in 1..Lines /\ section[1] <= section[2]
      /\ section[1] \in Nat /\ section[2] \in Nat
  BY <1>2 DEF SectionOK
<1>4. /\ NodeStart \in Starts(text) /\ LineOf(NodeStart) = section[1]
      /\ NodeStart \in Boundaries /\ NodeStart \in Nat /\ NodeStart < Size
  BY <1>1, <1>2, <1>3 DEF NodeStart
<1>5. ASSUME NEW b \in Nat, NodeStart <= b PROVE section[1] <= LineOf(b)
  BY <1>2, <1>4, <1>5
<1>6. CASE section[2] < Lines
  <2>1. NodeEnd = StartOf(section[2] + 1) /\ section[2] + 1 \in 1..Lines
    BY <1>2, <1>3, <1>6 DEF NodeEnd
  <2>2. /\ NodeEnd \in Starts(text) /\ LineOf(NodeEnd) = section[2] + 1
        /\ NodeEnd \in Boundaries /\ NodeEnd \in Nat
    BY <1>1, <1>2, <2>1
  <2>3. NodeStart < NodeEnd
    <3> SUFFICES ASSUME NodeEnd <= NodeStart PROVE FALSE
      BY <1>4, <2>2
    <3>1. LineOf(NodeEnd) <= LineOf(NodeStart)
      BY <1>2, <1>4, <2>2
    <3> QED BY <1>3, <1>4, <2>2, <3>1
  <2>4. ASSUME NEW b \in Nat, b < NodeEnd PROVE LineOf(b) <= section[2]
    <3>1. LineOf(b) < section[2] + 1 /\ LineOf(b) \in 1..Lines
      BY <1>2, <2>2, <2>4
    <3> QED BY <1>2, <1>3, <3>1
  <2> QED BY <1>4, <1>5, <2>2, <2>3, <2>4
<1>7. CASE ~(section[2] < Lines)
  <2>1. NodeEnd = Size /\ section[2] = Lines
    BY <1>2, <1>3, <1>7 DEF NodeEnd
  <2>2. NodeEnd \in Boundaries /\ NodeEnd \in Nat /\ NodeStart < NodeEnd
    BY <1>1, <1>4, <2>1
  <2>3. ASSUME NEW b \in Nat PROVE LineOf(b) <= section[2]
    <3>1. LineOf(b) \in 1..Lines
      BY <1>2
    <3> QED BY <1>2, <2>1, <3>1
  <2> QED BY <1>4, <1>5, <2>2, <2>3
<1> QED BY <1>6, <1>7

\* A cut lies between the place it starts from and the end of the node, and a second
\* one with the length of the first finds it again.
LEMMA CutFacts ==
    ASSUME TextOK, SectionOK, NEW from \in Boundaries, from <= NodeEnd, NEW max \in Nat
    PROVE  /\ Cut(from, max) \in Boundaries /\ Cut(from, max) \in Nat
           /\ from <= Cut(from, max) /\ Cut(from, max) <= NodeEnd
           /\ Cut(from, Cut(from, max) - from) = Cut(from, max)
<1> DEFINE to == Cut(from, max)
           within(m) == {b \in Boundaries : b <= from + m}
<1>1. Boundaries \in SUBSET Nat /\ from \in Nat
  BY BoundaryFacts
<1>2. NodeEnd \in Boundaries /\ NodeEnd \in Nat
  BY NodeFacts
<1>3. to \in Boundaries /\ to \in Nat /\ from <= to /\ to <= NodeEnd
  <2>1. CASE NodeEnd - from <= max
    <3>1. to = NodeEnd
      BY <2>1 DEF Cut
    <3> QED BY <1>2, <3>1
  <2>2. CASE ~(NodeEnd - from <= max)
    <3>1. to = Max(within(max))
      BY <2>2 DEF Cut
    <3>2. /\ within(max) \in SUBSET Nat /\ from \in within(max)
          /\ \A b \in within(max) : b <= from + max
      <4>1. from <= from + max
        BY <1>1
      <4>2. within(max) \in SUBSET Boundaries
        OBVIOUS
      <4> QED BY <1>1, <4>1, <4>2, Zenon
    <3>3. from + max \in Nat /\ within(max) # {}
      BY <1>1, <3>2
    <3>4. Max(within(max)) \in within(max) /\ \A b \in within(max) : b <= Max(within(max))
      BY <3>2, <3>3, MaxFacts
    <3>5. to \in Boundaries /\ to <= from + max /\ from <= to
      BY <3>1, <3>2, <3>4
    <3>6. to \in Nat
      BY <1>1, <3>5
    <3> HIDE DEF to
    <3> QED BY <1>1, <1>2, <2>2, <3>5, <3>6
  <2> QED BY <2>1, <2>2
<1> HIDE DEF to
<1>4. Cut(from, to - from) = to
  <2>1. to - from \in Nat /\ from + (to - from) = to
    BY <1>1, <1>3
  <2>2. CASE NodeEnd - from <= to - from
    <3>1. to = NodeEnd
      BY <1>1, <1>2, <1>3, <2>2
    <3> QED BY <2>2, <3>1 DEF Cut
  <2>3. CASE ~(NodeEnd - from <= to - from)
    <3>1. Cut(from, to - from) = Max({b \in Boundaries : b <= to})
      BY <2>1, <2>3 DEF Cut
    <3>2. {b \in Boundaries : b <= to} \in SUBSET Nat /\ to \in {b \in Boundaries : b <= to}
      <4>1. to <= to
        BY <1>3
      <4>2. {b \in Boundaries : b <= to} \in SUBSET Boundaries
        OBVIOUS
      <4> QED BY <1>1, <1>3, <4>1, <4>2, Zenon
    <3>3. Max({b \in Boundaries : b <= to}) = to
      BY <3>2, MaxIs
    <3> QED BY <3>1, <3>3
  <2> QED BY <2>2, <2>3
<1> QED BY <1>3, <1>4 DEF to

\* What WindowsJoin says of a window for itself.
Good(w) ==
    /\ w.from < w.to => /\ w.lines = <<LineOf(w.from), LineOf(w.to - 1)>>
                        /\ Window(w.from - NodeStart, w.to - w.from) = w
    /\ section[1] <= w.lines[1] /\ w.lines[2] <= section[2]

\* The lines of the bytes between two boundaries.
LEMMA LastLineFacts ==
    ASSUME TextOK, NEW from \in Nat, NEW to \in Nat, from < to
    PROVE  LastLine(from, to) = LineOf(to - 1)
<1>1. to - 1 \in Nat /\ from <= to - 1
  OBVIOUS
<1>2. Starts(text) \in SUBSET Nat
  BY BoundaryFacts
<1>3. {s \in Starts(text) : s < to} = {s \in Starts(text) : s <= to - 1}
  <2>1. \A s \in Starts(text) : s < to <=> s <= to - 1
    <3> SUFFICES ASSUME NEW s \in Starts(text) PROVE s < to <=> s <= to - 1
      OBVIOUS
    <3>1. s \in Nat
      BY <1>2
    <3> QED BY <3>1
  <2> QED BY <2>1
<1>4. LastLine(from, to) = Max({LineOf(to - 1), LineOf(from)})
  BY <1>3 DEF LastLine, LineOf
<1>5. LineOf(from) \in 1..Lines /\ LineOf(to - 1) \in 1..Lines /\ LineOf(from) <= LineOf(to - 1)
  BY <1>1, LineFacts
<1> DEFINE a == LineOf(from)
           b == LineOf(to - 1)
<1>6. a \in Nat /\ b \in Nat /\ a <= b
  BY <1>5
<1> HIDE DEF a, b
<1>7. Max({b, a}) = b
  <2>1. {b, a} \in SUBSET Nat /\ b \in {b, a} /\ \A x \in {b, a} : x <= b
    BY <1>6
  <2> QED BY <2>1, MaxIs
<1> QED BY <1>4, <1>7 DEF a, b

ReadWindow == [from : Nat, to : Nat, lines : Nat \X Nat, next : Nat]

LEMMA WindowFacts ==
    ASSUME TextOK, SectionOK, NEW at \in Nat, NEW max \in Nat,
           NodeStart + at \in Boundaries, NodeStart + at <= NodeEnd, ~Fails(at, max)
    PROVE  LET w == Window(at, max) IN
           /\ w.from = NodeStart + at /\ w.to \in Boundaries /\ w.to \in Nat
           /\ w.from <= w.to /\ w.to <= NodeEnd
           /\ w.from = w.to => w.to = NodeEnd
           /\ w.next = 0 <=> w.to = NodeEnd
           /\ w.next \in Nat /\ (w.next # 0 => NodeStart + w.next = w.to)
           /\ w \in ReadWindow /\ Good(w)
<1> DEFINE from == NodeStart + at
           to == Cut(from, max)
           w == Window(at, max)
<1>1. from \in Nat /\ NodeStart \in Nat /\ NodeEnd \in Nat /\ NodeStart <= from /\ from <= NodeEnd
      /\ NodeStart < NodeEnd
  BY NodeFacts
<1>2. /\ to \in Boundaries /\ to \in Nat /\ from <= to /\ to <= NodeEnd
      /\ Cut(from, to - from) = to
  BY CutFacts
<1>3. from < NodeEnd => to # from
  BY DEF Fails
<1>4. w = [from |-> from, to |-> to,
           lines |-> IF from = to /\ to = NodeEnd THEN <<section[2], section[2]>>
                     ELSE <<LineOf(from), LastLine(from, to)>>,
           next |-> IF to < NodeEnd THEN to - NodeStart ELSE 0]
  BY DEF Window
<1>5. NodeStart + (from - NodeStart) = from
  BY <1>1
<1> HIDE DEF from, to, w
<1>6. /\ w.from = from /\ w.to = to
      /\ w.next = (IF to < NodeEnd THEN to - NodeStart ELSE 0)
      /\ w.lines = IF from = to /\ to = NodeEnd THEN <<section[2], section[2]>>
                   ELSE <<LineOf(from), LastLine(from, to)>>
  BY <1>4
<1>7. from = to => to = NodeEnd
  BY <1>1, <1>2, <1>3
<1>8. to < NodeEnd => NodeStart < to
  BY <1>1, <1>2, <1>7
<1>9. /\ w.next = 0 <=> to = NodeEnd
      /\ w.next \in Nat /\ (w.next # 0 => NodeStart + w.next = to)
  BY <1>1, <1>2, <1>6, <1>8
<1>10. section[1] \in Nat /\ section[2] \in Nat /\ section[1] <= section[2]
  <2>1. Lines \in Nat
    BY LineFacts
  <2> QED BY <2>1 DEF SectionOK
<1>11. Good(w)
  <2>1. CASE from = to
    <3>1. w.lines = <<section[2], section[2]>> /\ ~(w.from < w.to)
      BY <1>1, <1>6, <1>7, <2>1
    <3> QED BY <1>10, <3>1 DEF Good
  <2>2. CASE from # to
    <3>1. from < to /\ to - 1 \in Nat /\ to - 1 < NodeEnd
      BY <1>1, <1>2, <2>2
    <3>2. w.lines = <<LineOf(from), LineOf(to - 1)>>
      BY <1>1, <1>2, <1>6, <2>2, <3>1, LastLineFacts
    <3>3. section[1] <= LineOf(from) /\ LineOf(to - 1) <= section[2]
      BY <1>1, <3>1, NodeFacts
    <3>4. Window(from - NodeStart, to - from) = w
      BY <1>2, <1>4, <1>5 DEF Window
    <3> QED BY <1>6, <3>2, <3>3, <3>4 DEF Good
  <2> QED BY <2>1, <2>2
<1>12. w \in ReadWindow
  <2>1. LineOf(from) \in Nat
    <3>1. Lines \in Nat /\ LineOf(from) \in 1..Lines
      BY <1>1, LineFacts
    <3> QED BY <3>1
  <2>2. from # to => LastLine(from, to) \in Nat
    <3> SUFFICES ASSUME from # to PROVE LastLine(from, to) \in Nat
      OBVIOUS
    <3>1. from < to /\ to - 1 \in Nat
      BY <1>1, <1>2
    <3>2. Lines \in Nat /\ LineOf(to - 1) \in 1..Lines
      BY <3>1, LineFacts
    <3> QED BY <1>1, <1>2, <3>1, <3>2, LastLineFacts
  <2>3. w.lines \in Nat \X Nat
    BY <1>6, <1>7, <1>10, <2>1, <2>2
  <2>4. w = [from |-> w.from, to |-> w.to, lines |-> w.lines, next |-> w.next]
    BY <1>4
  <2> QED BY <1>1, <1>2, <1>6, <1>9, <2>3, <2>4 DEF ReadWindow
<1> QED BY <1>1, <1>2, <1>6, <1>7, <1>9, <1>11, <1>12 DEF from, to, w

---------------------------------------------------------------------------
(***************************************************************************)
(* The reads of one reader.                                                *)
(***************************************************************************)

\* The reader stands at a boundary of the node, at the end of what it has read, and
\* there is more unless it is told so.
ReadInv ==
    /\ TextOK /\ SectionOK
    /\ first \in Nat
    /\ offset \in Nat /\ NodeStart + offset \in Boundaries /\ NodeStart + offset <= NodeEnd
    /\ eof \in BOOLEAN /\ windows \in Seq(ReadWindow)
    /\ windows = <<>> => offset = first /\ ~eof
    /\ windows # <<>> /\ ~eof =>
         windows[Len(windows)].to = NodeStart + offset /\ NodeStart + offset < NodeEnd
    /\ WindowsJoin

LEMMA ReadStarts == NodeInit => ReadInv
<1> SUFFICES ASSUME NodeInit PROVE ReadInv
  OBVIOUS
<1>1. TextOK
  <2>1. PICK n \in 1..MaxChars : text \in [1..n -> DOMAIN Widths]
    BY DEF NodeInit
  <2>2. n \in Nat /\ n # 0
    BY ReadAssumption, <2>1
  <2> QED BY <2>1, <2>2 DEF TextOK
<1>2. SectionOK
  BY DEF NodeInit, SectionOK
<1>3. /\ first \in Nat /\ NodeStart + first \in Boundaries /\ NodeStart + first <= NodeEnd
  <2>1. PICK b \in Boundaries : b \in NodeStart..NodeEnd /\ first = b - NodeStart
    BY DEF NodeInit
  <2>2. NodeStart \in Nat /\ NodeEnd \in Nat
    BY <1>1, <1>2, NodeFacts
  <2>3. first \in Nat /\ NodeStart + first = b /\ b <= NodeEnd
    BY <2>1, <2>2
  <2> QED BY <2>1, <2>3
<1>4. offset = first /\ eof = FALSE /\ windows = <<>>
  BY DEF NodeInit
<1>5. WindowsJoin
  BY <1>4 DEF WindowsJoin
<1>6. windows \in Seq(ReadWindow) /\ ~eof /\ offset = first
  BY <1>4
<1> QED BY <1>1, <1>2, <1>3, <1>4, <1>5, <1>6 DEF ReadInv

\* The text and the node stay, and so does what is computed from them.
LEMMA TextKept ==
    ASSUME UNCHANGED <<text, section>>
    PROVE  /\ text' = text /\ section' = section
           /\ Boundaries' = Boundaries /\ NodeStart' = NodeStart /\ NodeEnd' = NodeEnd
           /\ (TextOK => TextOK') /\ (SectionOK => SectionOK')
           /\ \A w : Good(w)' <=> Good(w)
<1>1. text' = text /\ section' = section
  OBVIOUS
<1>2. Boundaries' = Boundaries /\ Size' = Size /\ Lines' = Lines
  BY <1>1 DEF Boundaries, Size, Lines
<1>3. \A b : LineOf(b)' = LineOf(b)
  BY <1>1 DEF LineOf
<1>4. \A l : StartOf(l)' = StartOf(l)
  BY <1>1 DEF StartOf, LineOf
<1>5. NodeStart' = NodeStart /\ NodeEnd' = NodeEnd
  BY <1>1, <1>2 DEF NodeStart, NodeEnd, StartOf, LineOf
<1>6. \A a, b : Cut(a, b)' = Cut(a, b)
  BY <1>1, <1>2, <1>5 DEF Cut
<1>7. \A a, b : LastLine(a, b)' = LastLine(a, b)
  BY <1>1 DEF LastLine, LineOf
<1>8. \A a, b : Window(a, b)' = Window(a, b)
  BY <1>1, <1>5, <1>6, <1>7, <1>3 DEF Window
<1>9. \A w : Good(w)' <=> Good(w)
  BY <1>1, <1>3, <1>5, <1>8 DEF Good
<1>10. (TextOK => TextOK') /\ (SectionOK => SectionOK')
  BY <1>1, <1>2 DEF TextOK, SectionOK
<1> QED BY <1>1, <1>2, <1>5, <1>9, <1>10

\* The property, in two parts: the windows follow each other, and each is good.
Chained ==
    /\ \A i \in DOMAIN windows :
         /\ windows[i].from = IF i = 1 THEN NodeStart + first ELSE windows[i - 1].to
         /\ windows[i].from = windows[i].to => i = 1 /\ NodeStart + first = NodeEnd
    /\ eof => windows[Len(windows)].to = NodeEnd
EachGood == \A v : (\E i \in DOMAIN windows : v = windows[i]) => Good(v)

LEMMA JoinedWindows == WindowsJoin <=> Chained /\ EachGood
<1>1. EachGood <=> \A i \in DOMAIN windows : Good(windows[i])
  BY DEF EachGood
<1> QED BY <1>1 DEF WindowsJoin, Good, Chained

LEMMA JoinedNext == WindowsJoin' <=> Chained' /\ EachGood'
  BY JoinedWindows, PTL

LEMMA ReadStep ==
    ASSUME ReadInv, NEW max \in Budgets, Read(max)
    PROVE  ReadInv'
<1> DEFINE w == Window(offset, max)
           n == Len(windows)
<1>1. /\ ~eof /\ ~Fails(offset, max) /\ windows' = Append(windows, w)
      /\ offset' = (IF w.next = 0 THEN offset ELSE w.next) /\ eof' = (w.next = 0)
      /\ UNCHANGED <<text, section>> /\ first' = first
  BY DEF Read
<1>2. /\ TextOK /\ SectionOK /\ first \in Nat
      /\ offset \in Nat /\ NodeStart + offset \in Boundaries /\ NodeStart + offset <= NodeEnd
      /\ windows \in Seq(ReadWindow)
      /\ windows = <<>> => offset = first
      /\ windows # <<>> => windows[n].to = NodeStart + offset /\ NodeStart + offset < NodeEnd
      /\ WindowsJoin
  BY <1>1 DEF ReadInv
<1>3. /\ w.from = NodeStart + offset /\ w.to \in Boundaries /\ w.to \in Nat
      /\ w.from <= w.to /\ w.to <= NodeEnd
      /\ w.from = w.to => w.to = NodeEnd
      /\ w.next = 0 <=> w.to = NodeEnd
      /\ w.next \in Nat /\ (w.next # 0 => NodeStart + w.next = w.to)
      /\ w \in ReadWindow /\ Good(w)
  <2>1. max \in Nat
    BY ReadAssumption
  <2> QED BY <1>1, <1>2, <2>1, WindowFacts
<1>4. /\ text' = text /\ section' = section
      /\ Boundaries' = Boundaries /\ NodeStart' = NodeStart /\ NodeEnd' = NodeEnd
      /\ TextOK' /\ SectionOK' /\ \A v : Good(v)' <=> Good(v)
  BY <1>1, <1>2, TextKept
<1> HIDE DEF w
<1>5. NodeStart \in Nat /\ NodeEnd \in Nat
  BY <1>2, NodeFacts
<1>6. /\ windows' \in Seq(ReadWindow) /\ Len(windows') = n + 1
      /\ DOMAIN windows' = 1..(n + 1) /\ n \in Nat /\ DOMAIN windows = 1..n
      /\ windows'[n + 1] = w /\ \A i \in 1..n : windows'[i] = windows[i]
      /\ (windows = <<>> <=> n = 0) /\ windows' # <<>>
  <2>1. windows \in Seq(ReadWindow) /\ w \in ReadWindow /\ windows' = Append(windows, w)
    BY <1>1, <1>2, <1>3
  <2> QED BY <2>1
<1>7. /\ offset' \in Nat /\ NodeStart + offset' \in Boundaries
      /\ NodeStart + offset' <= NodeEnd
  <2>1. CASE w.next = 0
    BY <1>1, <1>2, <2>1
  <2>2. CASE w.next # 0
    BY <1>1, <1>3, <2>2
  <2> QED BY <2>1, <2>2
<1>8. ~eof' => w.to = NodeStart + offset' /\ NodeStart + offset' < NodeEnd
  <2> SUFFICES ASSUME ~eof' PROVE w.to = NodeStart + offset' /\ NodeStart + offset' < NodeEnd
    OBVIOUS
  <2>1. w.next # 0 /\ offset' = w.next
    BY <1>1
  <2>2. NodeStart + offset' = w.to
    BY <1>3, <2>1
  <2>3. w.to # NodeEnd /\ w.to \in Nat /\ w.to <= NodeEnd
    BY <1>3, <2>1
  <2>4. w.to < NodeEnd
    BY <1>5, <2>3
  <2> QED BY <2>2, <2>4
<1>9. ASSUME NEW i \in 1..(n + 1)
      PROVE  /\ windows'[i].from = IF i = 1 THEN NodeStart + first ELSE windows'[i - 1].to
             /\ windows'[i].from = windows'[i].to => i = 1 /\ NodeStart + first = NodeEnd
             /\ Good(windows'[i])
  <2>1. CASE i \in 1..n
    <3>1. /\ windows'[i] = windows[i] /\ (i # 1 => windows'[i - 1] = windows[i - 1])
      BY <1>6, <2>1
    <3>2. /\ windows[i].from = IF i = 1 THEN NodeStart + first ELSE windows[i - 1].to
          /\ windows[i].from = windows[i].to => i = 1 /\ NodeStart + first = NodeEnd
          /\ Good(windows[i])
      BY <1>2, <1>6, <2>1, JoinedWindows DEF Chained, EachGood
    <3> QED BY <3>1, <3>2
  <2>2. CASE i \notin 1..n
    <3>1. i = n + 1 /\ windows'[i] = w
      BY <1>6, <2>2
    <3>2. CASE n = 0
      BY <1>2, <1>3, <1>6, <3>1, <3>2
    <3>3. CASE n # 0
      <4>1. i # 1 /\ i - 1 = n /\ windows'[i - 1] = windows[n]
        BY <1>6, <3>1, <3>3
      <4>2. w.from # w.to
        BY <1>2, <1>3, <1>5, <1>6, <3>3
      <4> QED BY <1>2, <1>3, <1>6, <3>1, <3>3, <4>1, <4>2
    <3> QED BY <3>2, <3>3
  <2> QED BY <2>1, <2>2
<1>10. WindowsJoin'
  <2>1. Chained'
    <3>1. \A i \in DOMAIN windows' :
            /\ windows'[i].from = IF i = 1 THEN NodeStart' + first' ELSE windows'[i - 1].to
            /\ windows'[i].from = windows'[i].to => i = 1 /\ NodeStart' + first' = NodeEnd'
      BY <1>1, <1>4, <1>6, <1>9
    <3>2. eof' => windows'[Len(windows')].to = NodeEnd'
      BY <1>1, <1>3, <1>4, <1>6
    <3> QED BY <3>1, <3>2 DEF Chained
  <2>2. EachGood'
    <3>1. ASSUME NEW v, NEW i \in DOMAIN windows', v = windows'[i]
          PROVE  Good(v)'
      <4>1. Good(v)
        BY <1>6, <1>9, <3>1
      <4> QED BY <1>4, <4>1
    <3> QED BY <3>1 DEF EachGood
  <2> QED BY <2>1, <2>2, JoinedNext
<1>11. eof' \in BOOLEAN
  BY <1>1
<1> QED BY <1>1, <1>2, <1>4, <1>6, <1>7, <1>8, <1>10, <1>11 DEF ReadInv

LEMMA ReadInvariant == NodeSpec => []ReadInv
<1>1. NodeInit => ReadInv
  BY ReadStarts
<1>2. ReadInv /\ [NodeNext]_nodeVars => ReadInv'
  <2> SUFFICES ASSUME ReadInv, [NodeNext]_nodeVars PROVE ReadInv'
    OBVIOUS
  <2>1. CASE NodeNext
    BY <2>1, ReadStep DEF NodeNext
  <2>2. CASE UNCHANGED nodeVars
    <3>1. /\ UNCHANGED <<text, section>> /\ first' = first /\ offset' = offset
          /\ eof' = eof /\ windows' = windows
      BY <2>2 DEF nodeVars
    <3>2. /\ Boundaries' = Boundaries /\ NodeStart' = NodeStart /\ NodeEnd' = NodeEnd
          /\ TextOK' /\ SectionOK' /\ \A v : Good(v)' <=> Good(v)
      BY <3>1, TextKept DEF ReadInv
    <3>3. WindowsJoin'
      <4>1. Chained /\ EachGood
        BY JoinedWindows DEF ReadInv
      <4>2. Chained'
        BY <3>1, <3>2, <4>1 DEF Chained
      <4>3. EachGood'
        BY <3>1, <3>2, <4>1 DEF EachGood
      <4> QED BY <4>2, <4>3, JoinedNext
    <3> QED BY <3>1, <3>2, <3>3 DEF ReadInv
  <2> QED BY <2>1, <2>2
<1> QED BY <1>1, <1>2, PTL DEF NodeSpec

\* Whatever the text, the node, the valid offset a reader starts from and the budgets
\* it reads with, the windows of read_node_window follow each other without a gap or
\* an overlap to the end of the node, each with the lines of its bytes, and a cited
\* window is found again with its own length as the budget.
THEOREM ReadsJoin == NodeSpec => []WindowsJoin
<1>1. ReadInv => WindowsJoin
  BY DEF ReadInv
<1> QED BY <1>1, ReadInvariant, PTL

---------------------------------------------------------------------------
(***************************************************************************)
(* Pages and lines.                                                        *)
(***************************************************************************)

EndsOK == ends \in DOMAIN Shapes

LEMMA PageFacts ==
    ASSUME EndsOK
    PROVE  /\ Len(ends) \in Nat \ {0} /\ DOMAIN ends = 1..Len(ends)
           /\ Total \in Nat \ {0}
           /\ \A p \in DOMAIN ends :
                /\ ends[p] \in 1..Total /\ LineStart(p) \in 1..Total
                /\ LineStart(p) <= ends[p]
           /\ \A p, q \in DOMAIN ends : p < q => ends[p] < LineStart(q)
           /\ LineStart(1) = 1
           /\ \A p \in DOMAIN ends : p # 1 => p - 1 \in DOMAIN ends /\ LineStart(p) = ends[p - 1] + 1
<1>1. /\ ends \in Seq(Nat \ {0}) /\ ends # <<>>
      /\ \A p, q \in DOMAIN ends : p < q => ends[p] < ends[q]
  BY TreeAssumption DEF EndsOK
<1>2. Len(ends) \in Nat \ {0} /\ DOMAIN ends = 1..Len(ends)
  BY <1>1
<1>3. \A p \in DOMAIN ends : ends[p] \in Nat \ {0}
  BY <1>1
<1>4. Total \in Nat \ {0} /\ \A p \in DOMAIN ends : ends[p] \in 1..Total
  <2>1. Len(ends) \in DOMAIN ends /\ Total = ends[Len(ends)]
    BY <1>2 DEF Total
  <2>2. ASSUME NEW p \in DOMAIN ends PROVE ends[p] <= Total
    <3>1. p = Len(ends) \/ p < Len(ends)
      BY <1>2
    <3> QED BY <1>1, <1>3, <2>1, <3>1
  <2> QED BY <1>3, <2>1, <2>2
<1>5. LineStart(1) = 1
  BY DEF LineStart
<1>6. ASSUME NEW p \in DOMAIN ends, p # 1
      PROVE  p - 1 \in DOMAIN ends /\ p - 1 < p /\ LineStart(p) = ends[p - 1] + 1
  BY <1>2, <1>6 DEF LineStart
<1>7. ASSUME NEW p \in DOMAIN ends
      PROVE  LineStart(p) \in 1..Total /\ LineStart(p) <= ends[p]
  <2>1. CASE p = 1
    BY <1>3, <1>4, <1>5, <2>1
  <2>2. CASE p # 1
    <3>1. p - 1 \in DOMAIN ends /\ p - 1 < p /\ LineStart(p) = ends[p - 1] + 1
      BY <1>6, <2>2
    <3>2. ends[p - 1] < ends[p] /\ ends[p - 1] \in Nat /\ ends[p] \in 1..Total
      BY <1>1, <1>3, <1>4, <3>1
    <3> QED BY <1>4, <3>1, <3>2
  <2> QED BY <2>1, <2>2
<1>8. ASSUME NEW p \in DOMAIN ends, NEW q \in DOMAIN ends, p < q
      PROVE  ends[p] < LineStart(q)
  <2>1. q # 1
    BY <1>2, <1>8
  <2>2. q - 1 \in DOMAIN ends /\ LineStart(q) = ends[q - 1] + 1
    BY <1>6, <2>1
  <2>3. p = q - 1 \/ p < q - 1
    BY <1>2, <1>8
  <2>4. ends[p] <= ends[q - 1] /\ ends[p] \in Nat /\ ends[q - 1] \in Nat
    BY <1>1, <1>3, <2>2, <2>3
  <2> QED BY <2>2, <2>4
<1> QED BY <1>2, <1>4, <1>5, <1>6, <1>7, <1>8

\* A line is on the page that page_for_line gives, and on no other.
LEMMA PageOfFacts ==
    ASSUME EndsOK, NEW line \in 1..Total
    PROVE  /\ PageOf(line) \in DOMAIN ends
           /\ LineStart(PageOf(line)) <= line /\ line <= ends[PageOf(line)]
<1>1. /\ Len(ends) \in Nat \ {0} /\ DOMAIN ends = 1..Len(ends) /\ Total \in Nat \ {0}
      /\ LineStart(1) = 1
      /\ \A p \in DOMAIN ends : p # 1 => p - 1 \in DOMAIN ends /\ LineStart(p) = ends[p - 1] + 1
      /\ \A p \in DOMAIN ends : ends[p] \in 1..Total
  BY PageFacts
<1> DEFINE begun == {p \in DOMAIN ends : LineStart(p) <= line}
<1>2. begun \in SUBSET Nat /\ 1 \in begun /\ \A p \in begun : p <= Len(ends)
  BY <1>1
<1>3. PageOf(line) = Max(begun)
  BY DEF PageOf
<1> HIDE DEF begun
<1>4. Max(begun) \in begun /\ \A p \in begun : p <= Max(begun)
  BY <1>1, <1>2, MaxFacts
<1> DEFINE p == Max(begun)
<1> HIDE DEF p
<1>5. p \in DOMAIN ends /\ LineStart(p) <= line /\ \A q \in DOMAIN ends : LineStart(q) <= line => q <= p
  BY <1>4 DEF begun, p
<1>6. line <= ends[p]
  <2>1. CASE p = Len(ends)
    BY <1>1, <2>1 DEF Total
  <2>2. CASE p # Len(ends)
    <3>1. p + 1 \in DOMAIN ends /\ p + 1 # 1 /\ (p + 1) - 1 = p /\ ~(p + 1 <= p)
      BY <1>1, <1>5, <2>2
    <3>2. LineStart(p + 1) = ends[p] + 1 /\ ~(LineStart(p + 1) <= line)
      <4>1. LineStart(p + 1) = ends[(p + 1) - 1] + 1
        BY <1>1, <3>1
      <4> QED BY <1>5, <3>1, <4>1
    <3>3. ends[p] \in Nat /\ line \in Nat
      BY <1>1, <1>5
    <3> QED BY <3>2, <3>3
  <2> QED BY <2>1, <2>2
<1> QED BY <1>3, <1>5, <1>6 DEF p

LEMMA OnePage ==
    ASSUME EndsOK, NEW line \in 1..Total, NEW p \in DOMAIN ends,
           LineStart(p) <= line, line <= ends[p]
    PROVE  PageOf(line) = p
<1> DEFINE q == PageOf(line)
<1>1. q \in DOMAIN ends /\ LineStart(q) <= line /\ line <= ends[q]
  BY PageOfFacts
<1>2. /\ Len(ends) \in Nat /\ DOMAIN ends = 1..Len(ends) /\ line \in Nat
      /\ \A r \in DOMAIN ends : ends[r] \in Nat /\ LineStart(r) \in Nat
  BY PageFacts
<1>3. ~(p < q) /\ ~(q < p)
  <2>1. p < q => ends[p] < LineStart(q)
    BY <1>1, PageFacts
  <2>2. q < p => ends[q] < LineStart(p)
    BY <1>1, PageFacts
  <2> HIDE DEF q
  <2> QED BY <1>1, <1>2, <2>1, <2>2
<1> HIDE DEF q
<1>4. p = q
  BY <1>1, <1>2, <1>3
<1> QED BY <1>4 DEF q

LEMMA PagesAscend ==
    ASSUME EndsOK, NEW a \in 1..Total, NEW b \in 1..Total, a <= b
    PROVE  /\ PageOf(a) \in Nat \ {0} /\ PageOf(b) \in Nat \ {0} /\ PageOf(a) <= PageOf(b)
<1> DEFINE p == PageOf(a)
           q == PageOf(b)
<1>1. /\ p \in DOMAIN ends /\ q \in DOMAIN ends /\ LineStart(p) <= a /\ a <= ends[p]
      /\ LineStart(q) <= b /\ b <= ends[q]
  BY PageOfFacts
<1>2. /\ Len(ends) \in Nat /\ DOMAIN ends = 1..Len(ends) /\ Total \in Nat
      /\ \A r \in DOMAIN ends : ends[r] \in Nat /\ LineStart(r) \in Nat
  BY PageFacts
<1>3. q < p => ends[q] < LineStart(p)
  BY <1>1, PageFacts
<1> HIDE DEF p, q
<1>4. p \in Nat \ {0} /\ q \in Nat \ {0}
  BY <1>1, <1>2
<1>5. /\ LineStart(p) \in Nat /\ ends[q] \in Nat /\ a \in Nat /\ b \in Nat
  BY <1>1, <1>2
<1>6. p <= q
  BY <1>1, <1>3, <1>4, <1>5
<1> QED BY <1>4, <1>6 DEF p, q

---------------------------------------------------------------------------
(***************************************************************************)
(* Trees: each node has a parent before it, or is a root.                  *)
(***************************************************************************)

TreeNode == [parent : Nat, level : Nat \ {0}, pageStart : Nat, pageEnd : Nat,
             lineStart : Nat, lineEnd : Nat, holds : SUBSET Nat]

Rooted(n) ==
    /\ n \in Seq(TreeNode)
    /\ \A i \in DOMAIN n :
         n[i].parent = Root \/ (n[i].parent \in DOMAIN n /\ n[i].parent < i)

\* The ancestors of the first m nodes.
Climbed(f, n, m) ==
    f = [i \in 1..m |-> IF n[i].parent = Root THEN {} ELSE {n[i].parent} \cup f[n[i].parent]]

LEMMA ClimbedExists ==
    ASSUME NEW n, Rooted(n)
    PROVE  \A m \in Nat : m <= Len(n) => \E f : Climbed(f, n, m)
<1> DEFINE bad == {m \in Nat : m <= Len(n) /\ ~\E f : Climbed(f, n, m)}
<1>1. ASSUME bad # {} PROVE FALSE
  <2>1. PICK m \in bad : \A k \in bad : ~(k < m)
    BY <1>1, LeastOne
  <2>2. CASE m = 0
    <3>1. Climbed([i \in 1..0 |-> {}], n, 0)
      BY DEF Climbed
    <3> QED BY <2>1, <2>2, <3>1
  <2>3. CASE m # 0
    <3>0. m \in Nat /\ m <= Len(n) /\ Len(n) \in Nat /\ DOMAIN n = 1..Len(n)
      BY DEF Rooted
    <3>1. m - 1 \in Nat /\ m - 1 <= Len(n) /\ m - 1 \notin bad
      BY <2>1, <2>3, <3>0
    <3>2. PICK f : Climbed(f, n, m - 1)
      BY <3>1
    <3> DEFINE Above(h, i) == IF n[i].parent = Root THEN {}
                              ELSE {n[i].parent} \cup h[n[i].parent]
               g == [i \in 1..m |-> IF i = m THEN Above(f, m) ELSE f[i]]
    <3>3. \A i \in 1..(m - 1) : f[i] = Above(f, i)
      BY <3>2 DEF Climbed
    <3>4. ASSUME NEW i \in 1..m PROVE g[i] = Above(g, i)
      <4>1. n[i].parent = Root \/ (n[i].parent \in 1..m /\ n[i].parent < i)
        BY <3>0 DEF Rooted
      <4>2. n[i].parent # Root => n[i].parent \in 1..(m - 1)
        BY <3>0, <4>1
      <4>3. n[i].parent # Root => g[n[i].parent] = f[n[i].parent]
        BY <3>0, <4>2
      <4>4. Above(g, i) = Above(f, i)
        BY <4>3
      <4>5. CASE i = m
        BY <4>4, <4>5
      <4>6. CASE i # m
        <5>1. i \in 1..(m - 1) /\ g[i] = f[i]
          BY <3>0, <4>6
        <5> QED BY <3>3, <4>4, <5>1
      <4> QED BY <4>5, <4>6
    <3>5. Climbed(g, n, m)
      <4>1. g = [i \in 1..m |-> g[i]]
        OBVIOUS
      <4> HIDE DEF g
      <4> QED BY <3>4, <4>1 DEF Climbed
    <3> QED BY <2>1, <3>5
  <2> QED BY <2>2, <2>3
<1> QED BY <1>1

\* The ancestors of a node are its parent and the parent's ancestors.
LEMMA AncestorsStep ==
    ASSUME NEW n, Rooted(n), NEW i \in DOMAIN n
    PROVE  Ancestors(n)[i] = IF n[i].parent = Root THEN {}
                             ELSE {n[i].parent} \cup Ancestors(n)[n[i].parent]
<1>1. Len(n) \in Nat /\ DOMAIN n = 1..Len(n)
  BY DEF Rooted
<1> DEFINE e == CHOOSE f : f = [j \in DOMAIN n |-> IF n[j].parent = Root THEN {}
                                ELSE {n[j].parent} \cup f[n[j].parent]]
<1>2. Ancestors(n) = e
  BY DEF Ancestors
<1>3. \E f : Climbed(f, n, Len(n))
  BY <1>1, ClimbedExists
<1>4. e = [j \in DOMAIN n |-> IF n[j].parent = Root THEN {}
                              ELSE {n[j].parent} \cup e[n[j].parent]]
  <2>1. \E f : f = [j \in DOMAIN n |-> IF n[j].parent = Root THEN {}
                                      ELSE {n[j].parent} \cup f[n[j].parent]]
    BY <1>1, <1>3, Zenon DEF Climbed
  <2> QED BY <2>1, Zenon
<1> HIDE DEF e
<1>5. e[i] = IF n[i].parent = Root THEN {} ELSE {n[i].parent} \cup e[n[i].parent]
  BY <1>4, Zenon
<1> QED BY <1>2, <1>5

LEMMA ParentAbove ==
    ASSUME NEW n, Rooted(n), NEW i \in DOMAIN n, n[i].parent # Root
    PROVE  n[i].parent \in Ancestors(n)[i]
<1>1. Ancestors(n)[i] = IF n[i].parent = Root THEN {}
                        ELSE {n[i].parent} \cup Ancestors(n)[n[i].parent]
  BY AncestorsStep
<1> QED BY <1>1

\* What holds of a node whenever it holds of its parent holds of all: the least
\* node of which it does not hold would be a root.
LEMMA AncestorsBefore ==
    ASSUME NEW n, Rooted(n)
    PROVE  \A i \in DOMAIN n : Ancestors(n)[i] \subseteq {j \in DOMAIN n : j < i}
<1> DEFINE bad == {i \in DOMAIN n : ~(Ancestors(n)[i] \subseteq {j \in DOMAIN n : j < i})}
<1>1. Len(n) \in Nat /\ DOMAIN n = 1..Len(n)
  BY DEF Rooted
<1>2. ASSUME bad # {} PROVE FALSE
  <2>1. bad \in SUBSET Nat
    BY <1>1
  <2>2. PICK i \in bad : \A k \in bad : ~(k < i)
    BY <1>2, <2>1, LeastOne
  <2>3. Ancestors(n)[i] = IF n[i].parent = Root THEN {}
                          ELSE {n[i].parent} \cup Ancestors(n)[n[i].parent]
    BY AncestorsStep
  <2>4. n[i].parent # Root
    BY <2>2, <2>3
  <2>5. n[i].parent \in DOMAIN n /\ n[i].parent < i
    BY <2>4 DEF Rooted
  <2>6. n[i].parent \notin bad
    BY <2>2, <2>5
  <2>7. Ancestors(n)[n[i].parent] \subseteq {j \in DOMAIN n : j < n[i].parent}
    BY <2>5, <2>6
  <2>8. ASSUME NEW a \in Ancestors(n)[i] PROVE a \in DOMAIN n /\ a < i
    <3>1. a = n[i].parent \/ (a \in DOMAIN n /\ a < n[i].parent)
      BY <2>3, <2>4, <2>7
    <3>2. i \in Nat /\ n[i].parent \in Nat /\ (a \in DOMAIN n => a \in Nat)
      BY <1>1, <2>5
    <3> QED BY <2>5, <3>1, <3>2
  <2> QED BY <2>2, <2>8
<1> QED BY <1>2

LEMMA AncestorsTransitive ==
    ASSUME NEW n, Rooted(n)
    PROVE  \A i \in DOMAIN n : \A b \in Ancestors(n)[i] :
             Ancestors(n)[b] \subseteq Ancestors(n)[i]
<1> DEFINE Anc(i) == Ancestors(n)[i]
           bad == {i \in DOMAIN n : ~\A b \in Anc(i) : Anc(b) \subseteq Anc(i)}
<1>1. Len(n) \in Nat /\ DOMAIN n = 1..Len(n)
  BY DEF Rooted
<1>2. ASSUME bad # {} PROVE FALSE
  <2>1. bad \in SUBSET Nat
    BY <1>1
  <2>2. PICK i \in bad : \A k \in bad : ~(k < i)
    BY <1>2, <2>1, LeastOne
  <2>3. Anc(i) = IF n[i].parent = Root THEN {} ELSE {n[i].parent} \cup Anc(n[i].parent)
    BY AncestorsStep
  <2>4. n[i].parent # Root
    BY <2>2, <2>3
  <2>5. n[i].parent \in DOMAIN n /\ n[i].parent < i
    BY <2>4 DEF Rooted
  <2>6. \A b \in Anc(n[i].parent) : Anc(b) \subseteq Anc(n[i].parent)
    BY <2>2, <2>5
  <2>7. \A b \in Anc(i) : Anc(b) \subseteq Anc(i)
    BY <2>3, <2>4, <2>6
  <2> QED BY <2>2, <2>7
<1> QED BY <1>2

\* Of two ancestors one is above the other.
LEMMA AncestorsLinear ==
    ASSUME NEW n, Rooted(n)
    PROVE  \A i \in DOMAIN n : \A a, b \in Ancestors(n)[i] :
             a = b \/ a \in Ancestors(n)[b] \/ b \in Ancestors(n)[a]
<1> DEFINE Anc(i) == Ancestors(n)[i]
           Linear(i) == \A a, b \in Anc(i) : a = b \/ a \in Anc(b) \/ b \in Anc(a)
           bad == {i \in DOMAIN n : ~Linear(i)}
<1>1. Len(n) \in Nat /\ DOMAIN n = 1..Len(n)
  BY DEF Rooted
<1>2. ASSUME bad # {} PROVE FALSE
  <2>1. bad \in SUBSET Nat
    BY <1>1
  <2>2. PICK i \in bad : \A k \in bad : ~(k < i)
    BY <1>2, <2>1, LeastOne
  <2>3. Anc(i) = IF n[i].parent = Root THEN {} ELSE {n[i].parent} \cup Anc(n[i].parent)
    BY AncestorsStep
  <2>4. n[i].parent # Root
    BY <2>2, <2>3
  <2>5. n[i].parent \in DOMAIN n /\ n[i].parent < i
    BY <2>4 DEF Rooted
  <2>6. Linear(n[i].parent)
    BY <2>2, <2>5
  <2>7. Linear(i)
    BY <2>3, <2>4, <2>6
  <2> QED BY <2>2, <2>7
<1> QED BY <1>2

---------------------------------------------------------------------------
(***************************************************************************)
(* What the optimizer accepts.                                             *)
(***************************************************************************)

Valid(node) ==
    /\ node.level > 0 /\ node.pageStart <= node.pageEnd /\ node.lineStart <= node.lineEnd
    /\ node.lineEnd <= Total
    /\ PageOf(node.lineStart) = node.pageStart /\ PageOf(node.lineEnd) = node.pageEnd
Inside(node, p) ==
    /\ p.level < node.level
    /\ p.lineStart <= node.lineStart /\ node.lineEnd <= p.lineEnd
    /\ p.pageStart <= node.pageStart /\ node.pageEnd <= p.pageEnd
\* The roots cover the lines of the document and no others.
RootsCover(n, live) ==
    /\ \A i \in live : n[i].parent = Root => 1 <= n[i].lineStart
    /\ \A line \in 1..Total : \E i \in live :
         n[i].parent = Root /\ n[i].lineStart <= line /\ line <= n[i].lineEnd
Accepted(n, live) ==
    /\ \A i \in live : Valid(n[i])
    /\ \A i \in live : n[i].parent # Root =>
         n[i].parent \in live /\ n[i].parent < i /\ Inside(n[i], n[n[i].parent])
    /\ \A i, j \in live : i < j /\ n[i].parent = n[j].parent => n[i].lineStart <= n[j].lineStart
    /\ RootsCover(n, live)

LEMMA NodeFields ==
    ASSUME NEW n \in Seq(TreeNode), NEW i \in DOMAIN n
    PROVE  /\ n[i] \in TreeNode /\ n[i].parent \in Nat /\ n[i].level \in Nat \ {0}
           /\ n[i].pageStart \in Nat /\ n[i].pageEnd \in Nat
           /\ n[i].lineStart \in Nat /\ n[i].lineEnd \in Nat /\ n[i].holds \in SUBSET Nat
<1>1. n[i] \in TreeNode
  OBVIOUS
<1> QED BY <1>1 DEF TreeNode

LEMMA AcceptsIs ==
    ASSUME EndsOK, NEW n \in Seq(TreeNode), NEW live \in SUBSET DOMAIN n
    PROVE  Accepts(n, live) <=> Accepted(n, live)
<1> DEFINE roots == {j \in live : n[j].parent = Root}
           lines(i) == n[i].lineStart..n[i].lineEnd
           covers == 1..Total = UNION {lines(i) : i \in roots}
           others == /\ \A i \in live : Valid(n[i])
                     /\ \A i \in live : n[i].parent # Root =>
                          n[i].parent \in live /\ n[i].parent < i /\ Inside(n[i], n[n[i].parent])
                     /\ \A i, j \in live : i < j /\ n[i].parent = n[j].parent =>
                          n[i].lineStart <= n[j].lineStart
<1>1. Accepts(n, live) <=> others /\ covers
  BY DEF Accepts, Valid, Inside
<1>2. Accepted(n, live) <=> others /\ RootsCover(n, live)
  BY DEF Accepted
<1>3. ASSUME others PROVE covers <=> RootsCover(n, live)
  <2>1. Total \in Nat
    BY PageFacts
  <2>2. \A i \in live : /\ n[i].lineStart \in Nat /\ n[i].lineEnd \in Nat
                        /\ n[i].lineStart <= n[i].lineEnd /\ n[i].lineEnd <= Total
    BY <1>3, NodeFields DEF Valid
  <2> HIDE <1>3
  <2>3. ASSUME covers PROVE RootsCover(n, live)
    <3>1. ASSUME NEW i \in roots PROVE 1 <= n[i].lineStart
      <4>1. n[i].lineStart \in lines(i)
        BY <2>2
      <4>2. n[i].lineStart \in 1..Total
        BY <2>3, <4>1
      <4> QED BY <4>2
    <3>2. ASSUME NEW line \in 1..Total
          PROVE  \E i \in live : n[i].parent = Root /\ n[i].lineStart <= line /\ line <= n[i].lineEnd
      <4>1. PICK i \in roots : line \in lines(i)
        BY <2>3, <3>2
      <4> QED BY <4>1
    <3> QED BY <3>1, <3>2 DEF RootsCover
  <2>4. ASSUME RootsCover(n, live) PROVE covers
    <3>1. ASSUME NEW i \in roots, NEW line \in lines(i) PROVE line \in 1..Total
      <4>1. 1 <= n[i].lineStart
        BY <2>4 DEF RootsCover
      <4> QED BY <2>1, <2>2, <4>1
    <3>2. ASSUME NEW line \in 1..Total PROVE \E i \in roots : line \in lines(i)
      <4>1. PICK i \in live : n[i].parent = Root /\ n[i].lineStart <= line /\ line <= n[i].lineEnd
        BY <2>4 DEF RootsCover
      <4>2. line \in Int /\ n[i].lineStart \in Int /\ n[i].lineEnd \in Int
        BY <2>1, <2>2
      <4> QED BY <4>1, <4>2
    <3> HIDE DEF lines, roots
    <3> QED BY <3>1, <3>2
  <2> QED BY <2>3, <2>4
<1> HIDE DEF covers, others
<1> QED BY <1>1, <1>2, <1>3

\* A node lies in each of its ancestors.
LEMMA NestedAbove ==
    ASSUME NEW n, Rooted(n), NEW live \in SUBSET DOMAIN n, Accepted(n, live)
    PROVE  \A i \in live : \A a \in Ancestors(n)[i] :
             /\ a \in live /\ n[a].lineStart <= n[i].lineStart /\ n[i].lineEnd <= n[a].lineEnd
<1> DEFINE Anc(i) == Ancestors(n)[i]
           Nested(i) == \A a \in Anc(i) : /\ a \in live /\ n[a].lineStart <= n[i].lineStart
                                          /\ n[i].lineEnd <= n[a].lineEnd
           bad == {i \in live : ~Nested(i)}
<1>1. Len(n) \in Nat /\ DOMAIN n = 1..Len(n) /\ n \in Seq(TreeNode)
  BY DEF Rooted
<1>2. ASSUME bad # {} PROVE FALSE
  <2>1. bad \in SUBSET Nat
    BY <1>1
  <2>2. PICK i \in bad : \A k \in bad : ~(k < i)
    BY <1>2, <2>1, LeastOne
  <2>3. Anc(i) = IF n[i].parent = Root THEN {} ELSE {n[i].parent} \cup Anc(n[i].parent)
    BY AncestorsStep
  <2>4. n[i].parent # Root
    BY <2>2, <2>3
  <2>5. /\ n[i].parent \in live /\ n[i].parent < i
        /\ n[n[i].parent].lineStart <= n[i].lineStart /\ n[i].lineEnd <= n[n[i].parent].lineEnd
    BY <2>4 DEF Accepted, Inside
  <2>6. Nested(n[i].parent)
    BY <2>2, <2>5
  <2>7. ASSUME NEW a \in Anc(i)
        PROVE  /\ a \in live /\ n[a].lineStart <= n[i].lineStart /\ n[i].lineEnd <= n[a].lineEnd
    <3>1. CASE a = n[i].parent
      BY <2>5, <3>1
    <3>2. CASE a # n[i].parent
      <4>1. a \in Anc(n[i].parent)
        BY <2>3, <2>4, <3>2
      <4>2. /\ a \in live /\ n[a].lineStart <= n[n[i].parent].lineStart
            /\ n[n[i].parent].lineEnd <= n[a].lineEnd
        BY <2>6, <4>1
      <4>3. /\ n[a].lineStart \in Nat /\ n[a].lineEnd \in Nat
            /\ n[i].lineStart \in Nat /\ n[i].lineEnd \in Nat
            /\ n[n[i].parent].lineStart \in Nat /\ n[n[i].parent].lineEnd \in Nat
        BY <1>1, <2>5, <4>2, NodeFields
      <4> QED BY <2>5, <4>2, <4>3
    <3> QED BY <3>1, <3>2
  <2> QED BY <2>2, <2>7
<1> QED BY <1>2

\* One node has the built section with all of its lines.
Keeps(n, live, o) ==
    \E i \in live :
        /\ o \in n[i].holds
        /\ built[o].lineStart..built[o].lineEnd \subseteq n[i].lineStart..n[i].lineEnd
        /\ \A j \in live \ {i} : o \notin n[j].holds
Kept(n, live) == \A o \in DOMAIN built : Keeps(n, live, o)

LEMMA WiderLines ==
    ASSUME NEW a \in Nat, NEW b \in Nat, NEW c \in Nat, NEW d \in Nat, c <= a, b <= d
    PROVE  a..b \subseteq c..d
  OBVIOUS

LEMMA SamePages ==
    ASSUME NEW a \in Nat, NEW b \in Nat, NEW c \in Nat, NEW d \in Nat,
           a <= b, c <= d, a..b = c..d
    PROVE  a = c /\ b = d
<1>1. a \in c..d /\ b \in c..d /\ c \in a..b /\ d \in a..b
  <2>1. a \in a..b /\ b \in a..b /\ c \in c..d /\ d \in c..d
    OBVIOUS
  <2> QED BY <2>1
<1> QED BY <1>1

---------------------------------------------------------------------------
(***************************************************************************)
(* A merge of siblings.                                                    *)
(***************************************************************************)

Leaves  == {i \in alive : Children(nodes, alive, i) = {}}
Keepers == {i \in Leaves : i = Min(Group(i))}

\* The leaves fall into groups.
LEMMA GroupFacts ==
    ASSUME Rooted(nodes), alive \in SUBSET DOMAIN nodes
    PROVE  /\ Leaves \in SUBSET Nat /\ Leaves \subseteq alive
           /\ \A i \in Leaves :
                /\ i \in Group(i) /\ Group(i) \in SUBSET Leaves
                /\ Min(Group(i)) \in Group(i) \cap Keepers /\ Min(Group(i)) \in Nat
                /\ \A j \in Group(i) :
                     /\ Group(j) = Group(i) /\ Min(Group(i)) <= j
                     /\ nodes[j].parent = nodes[i].parent /\ Pages(nodes[j]) = Pages(nodes[i])
<1>1. Len(nodes) \in Nat /\ DOMAIN nodes = 1..Len(nodes) /\ alive \in SUBSET Nat
  BY DEF Rooted
<1>2. Leaves \in SUBSET Nat /\ Leaves \subseteq alive
  BY <1>1 DEF Leaves
<1>3. \A i : Group(i) = {j \in Leaves : /\ nodes[j].parent = nodes[i].parent
                                        /\ Pages(nodes[j]) = Pages(nodes[i])}
  BY DEF Group, Leaves
<1>4. ASSUME NEW i \in Leaves
      PROVE  /\ i \in Group(i) /\ Group(i) \in SUBSET Leaves
             /\ \A j \in Group(i) :
                  /\ Group(j) = Group(i)
                  /\ nodes[j].parent = nodes[i].parent /\ Pages(nodes[j]) = Pages(nodes[i])
  BY <1>3
<1>5. ASSUME NEW i \in Leaves
      PROVE  /\ Min(Group(i)) \in Group(i) \cap Keepers /\ Min(Group(i)) \in Nat
             /\ \A j \in Group(i) : Min(Group(i)) <= j
  <2>1. Group(i) \in SUBSET Nat /\ Group(i) # {}
    BY <1>2, <1>4
  <2>2. Min(Group(i)) \in Group(i) /\ \A j \in Group(i) : Min(Group(i)) <= j
    BY <2>1, MinFacts
  <2>3. Group(Min(Group(i))) = Group(i) /\ Min(Group(i)) \in Leaves
    BY <1>4, <2>2
  <2> QED BY <1>2, <2>2, <2>3 DEF Keepers
<1> QED BY <1>2, <1>4, <1>5

\* The one that is kept has the lines of all.
LEMMA MergedFacts ==
    ASSUME EndsOK, Rooted(nodes), alive \in SUBSET DOMAIN nodes, Accepted(nodes, alive),
           NEW i \in Keepers
    PROVE  LET w == Merged(Group(i), i) IN
           /\ w \in TreeNode /\ w.parent = nodes[i].parent /\ w.level = nodes[i].level
           /\ w.pageStart = nodes[i].pageStart /\ w.pageEnd = nodes[i].pageEnd
           /\ w.lineStart = nodes[i].lineStart
           /\ \A j \in Group(i) : w.lineStart <= nodes[j].lineStart /\ nodes[j].lineEnd <= w.lineEnd
           /\ \E j \in Group(i) : w.lineEnd = nodes[j].lineEnd /\ nodes[j].pageEnd = w.pageEnd
           /\ w.holds = UNION {nodes[j].holds : j \in Group(i)}
<1> DEFINE group == Group(i)
           starts == {nodes[j].lineStart : j \in group}
           lasts == {nodes[j].lineEnd : j \in group}
           holds == UNION {nodes[j].holds : j \in group}
           w == Merged(group, i)
<1>1. /\ i \in Leaves /\ Leaves \subseteq alive /\ i = Min(group) /\ i \in group
      /\ group \in SUBSET Leaves
      /\ \A j \in group : /\ i <= j /\ nodes[j].parent = nodes[i].parent
                          /\ Pages(nodes[j]) = Pages(nodes[i])
  BY GroupFacts DEF Keepers
<1>2. /\ nodes \in Seq(TreeNode) /\ group \subseteq DOMAIN nodes /\ Len(nodes) \in Nat
      /\ DOMAIN nodes = 1..Len(nodes) /\ nodes[i] \in TreeNode
  BY <1>1, NodeFields DEF Rooted
<1> HIDE DEF group
<1>3. \A j \in group : nodes[j].lineStart \in Nat /\ nodes[j].lineEnd \in Nat
                       /\ nodes[j].holds \in SUBSET Nat /\ Valid(nodes[j])
  BY <1>1, <1>2, NodeFields DEF Accepted
<1>4. \A j \in group : nodes[i].lineStart <= nodes[j].lineStart
  <2> SUFFICES ASSUME NEW j \in group PROVE nodes[i].lineStart <= nodes[j].lineStart
    OBVIOUS
  <2>1. i = j \/ i < j
    BY <1>1, <1>2
  <2>2. i \in alive /\ j \in alive /\ nodes[i].parent = nodes[j].parent
    BY <1>1
  <2>3. nodes[i].lineStart \in Nat
    BY <1>1, <1>3
  <2> QED BY <2>1, <2>2, <2>3 DEF Accepted
<1>5. starts \in SUBSET Nat /\ lasts \in SUBSET Nat /\ holds \in SUBSET Nat
  BY <1>3
<1>6. Min(starts) = nodes[i].lineStart
  <2>1. nodes[i].lineStart \in starts /\ \A s \in starts : nodes[i].lineStart <= s
    BY <1>1, <1>4
  <2>2. Min(starts) \in starts /\ \A s \in starts : Min(starts) <= s
    BY <1>5, <2>1, MinFacts
  <2> HIDE DEF starts
  <2>3. Min(starts) \in Nat /\ nodes[i].lineStart \in Nat
    BY <1>5, <2>1, <2>2
  <2> QED BY <2>1, <2>2, <2>3
<1>7. Max(lasts) \in lasts /\ \A s \in lasts : s <= Max(lasts)
  <2>1. Total \in Nat
    BY PageFacts
  <2>2. \A s \in lasts : s <= Total
    BY <1>3 DEF Valid
  <2>3. lasts # {}
    BY <1>1
  <2> HIDE DEF lasts
  <2> QED BY <1>5, <2>1, <2>2, <2>3, MaxFacts
<1>8. w = [nodes[i] EXCEPT !.lineStart = Min(starts), !.lineEnd = Max(lasts), !.holds = holds]
  BY DEF Merged
<1>9. PICK j \in group : Max(lasts) = nodes[j].lineEnd
  BY <1>7
<1>10. \A k \in group : nodes[k].lineEnd <= Max(lasts)
  BY <1>7
<1>11. Max(lasts) \in Nat /\ nodes[i].lineStart \in Nat
  BY <1>1, <1>3, <1>9
<1>12. nodes[j].pageEnd = nodes[i].pageEnd
  <2>1. /\ nodes[j].pageStart \in Nat /\ nodes[j].pageEnd \in Nat
        /\ nodes[i].pageStart \in Nat /\ nodes[i].pageEnd \in Nat
    BY <1>1, <1>2, NodeFields
  <2>2. nodes[j].pageStart <= nodes[j].pageEnd /\ nodes[i].pageStart <= nodes[i].pageEnd
    BY <1>1, <1>3 DEF Valid
  <2>3. nodes[j].pageStart..nodes[j].pageEnd = nodes[i].pageStart..nodes[i].pageEnd
    BY <1>1 DEF Pages
  <2> QED BY <2>1, <2>2, <2>3, SamePages
<1> HIDE DEF starts, lasts, holds, w
<1>13. /\ w \in TreeNode /\ w.parent = nodes[i].parent /\ w.level = nodes[i].level
       /\ w.pageStart = nodes[i].pageStart /\ w.pageEnd = nodes[i].pageEnd
       /\ w.lineStart = nodes[i].lineStart /\ w.lineEnd = Max(lasts) /\ w.holds = holds
  BY <1>2, <1>5, <1>6, <1>8, <1>11 DEF TreeNode
<1>14. \A k \in group : w.lineStart <= nodes[k].lineStart /\ nodes[k].lineEnd <= w.lineEnd
  BY <1>4, <1>10, <1>13
<1>15. w.lineEnd = nodes[j].lineEnd /\ nodes[j].pageEnd = w.pageEnd
  BY <1>9, <1>12, <1>13
<1> QED BY <1>13, <1>14, <1>15 DEF group, holds, w

\* The tree after the merge is one that the optimizer accepts, and keeps the sections.
LEMMA SiblingsMerged ==
    ASSUME EndsOK, Rooted(nodes), alive \in SUBSET DOMAIN nodes, Accepted(nodes, alive),
           Kept(nodes, alive),
           NEW m, m = [i \in DOMAIN nodes |->
                         IF i \in Keepers THEN Merged(Group(i), i) ELSE nodes[i]],
           NEW live, live = alive \ (Leaves \ Keepers)
    PROVE  Rooted(m) /\ live \in SUBSET DOMAIN m /\ Accepted(m, live) /\ Kept(m, live)
<1>1. /\ Len(nodes) \in Nat /\ DOMAIN nodes = 1..Len(nodes) /\ nodes \in Seq(TreeNode)
      /\ alive \in SUBSET Nat /\ live \subseteq alive
  BY DEF Rooted
<1>2. /\ Leaves \subseteq alive /\ Keepers \subseteq Leaves
      /\ \A i \in Leaves : i \in live <=> i \in Keepers
  BY GroupFacts DEF Keepers
<1>3. \A i \in DOMAIN nodes : i \notin Keepers => m[i] = nodes[i]
  OBVIOUS
<1>4. \A i \in Keepers : m[i] = Merged(Group(i), i)
  BY <1>2
<1>5. ASSUME NEW i \in DOMAIN nodes
      PROVE  /\ m[i] \in TreeNode /\ m[i].parent = nodes[i].parent /\ m[i].level = nodes[i].level
             /\ m[i].pageStart = nodes[i].pageStart /\ m[i].pageEnd = nodes[i].pageEnd
             /\ m[i].lineStart = nodes[i].lineStart
  <2>1. CASE i \in Keepers
    BY <1>4, <2>1, MergedFacts
  <2>2. CASE i \notin Keepers
    BY <1>1, <1>3, <2>2, NodeFields
  <2> QED BY <2>1, <2>2
<1>6. m \in Seq(TreeNode) /\ DOMAIN m = DOMAIN nodes
  <2>1. m = [i \in 1..Len(nodes) |-> m[i]]
    BY <1>1
  <2>2. m \in [1..Len(nodes) -> TreeNode]
    BY <1>1, <1>5, <2>1
  <2> QED BY <1>1, <2>2
<1>7. Rooted(m)
  BY <1>1, <1>5, <1>6 DEF Rooted
<1>8. live \in SUBSET DOMAIN m
  BY <1>1, <1>6
\* The node that takes the place of another.
<1> DEFINE heir(i) == IF i \in Leaves THEN Min(Group(i)) ELSE i
<1>9. ASSUME NEW i \in alive
      PROVE  /\ heir(i) \in live /\ m[heir(i)].parent = nodes[i].parent
             /\ m[heir(i)].lineStart <= nodes[i].lineStart
             /\ nodes[i].lineEnd <= m[heir(i)].lineEnd
             /\ nodes[i].holds \subseteq m[heir(i)].holds
  <2>1. CASE i \in Leaves
    <3> DEFINE k == Min(Group(i))
    <3>1. k \in Keepers /\ i \in Group(k) /\ nodes[k].parent = nodes[i].parent
      <4>1. k \in Group(i) /\ k \in Keepers /\ i \in Group(i)
        BY <2>1, GroupFacts
      <4>2. Group(k) = Group(i) /\ nodes[k].parent = nodes[i].parent
        BY <2>1, <4>1, GroupFacts
      <4> QED BY <4>1, <4>2
    <3> HIDE DEF k
    <3>2. m[k] = Merged(Group(k), k) /\ k \in live /\ k \in DOMAIN nodes
      BY <1>1, <1>2, <1>4, <3>1
    <3>3. /\ m[k].lineStart <= nodes[i].lineStart /\ nodes[i].lineEnd <= m[k].lineEnd
          /\ m[k].holds = UNION {nodes[j].holds : j \in Group(k)}
      BY <3>1, <3>2, MergedFacts
    <3>4. heir(i) = k
      BY <2>1 DEF k
    <3> QED BY <1>5, <3>1, <3>2, <3>3, <3>4
  <2>2. CASE i \notin Leaves
    <3>1. i \in live /\ m[i] = nodes[i] /\ heir(i) = i
      BY <1>1, <1>2, <1>3, <2>2
    <3>2. nodes[i].lineStart \in Nat /\ nodes[i].lineEnd \in Nat
      BY <1>1, NodeFields
    <3> QED BY <3>1, <3>2
  <2> QED BY <2>1, <2>2
<1>10. ASSUME NEW j \in live, NEW o, o \in m[j].holds
       PROVE  \E i \in alive : o \in nodes[i].holds /\ heir(i) = j
  <2>1. CASE j \in Keepers
    <3>1. m[j].holds = UNION {nodes[k].holds : k \in Group(j)}
      BY <1>4, <2>1, MergedFacts
    <3>2. PICK i \in Group(j) : o \in nodes[i].holds
      BY <1>10, <3>1
    <3>3. j \in Leaves /\ j = Min(Group(j))
      BY <2>1 DEF Keepers
    <3>4. i \in Leaves /\ Group(i) = Group(j)
      BY <3>3, GroupFacts
    <3> QED BY <1>2, <3>2, <3>3, <3>4
  <2>2. CASE j \notin Keepers
    BY <1>1, <1>2, <1>3, <1>10, <2>2
  <2> QED BY <2>1, <2>2
<1> HIDE DEF heir
<1>11. \A i \in live : Valid(m[i])
  <2> SUFFICES ASSUME NEW i \in live PROVE Valid(m[i])
    OBVIOUS
  <2>1. Valid(nodes[i]) /\ i \in DOMAIN nodes
    BY <1>1 DEF Accepted
  <2>2. CASE i \in Keepers
    <3>1. /\ \E j \in Group(i) : m[i].lineEnd = nodes[j].lineEnd /\ nodes[j].pageEnd = m[i].pageEnd
          /\ \A j \in Group(i) : nodes[j].lineEnd <= m[i].lineEnd
      BY <1>4, <2>2, MergedFacts
    <3>2. PICK j \in Group(i) : m[i].lineEnd = nodes[j].lineEnd /\ nodes[j].pageEnd = m[i].pageEnd
      BY <3>1
    <3>3. i \in Leaves /\ i \in Group(i) /\ j \in Leaves
      BY <1>2, <2>2, GroupFacts
    <3>4. Valid(nodes[j])
      BY <1>2, <3>3 DEF Accepted
    <3>5. nodes[i].lineStart <= m[i].lineEnd
      <4>1. nodes[i].lineStart <= nodes[i].lineEnd /\ nodes[i].lineEnd <= m[i].lineEnd
        BY <2>1, <3>1, <3>3 DEF Valid
      <4>2. nodes[i].lineStart \in Nat /\ nodes[i].lineEnd \in Nat /\ m[i].lineEnd \in Nat
        BY <1>1, <1>6, <2>1, NodeFields
      <4> QED BY <4>1, <4>2
    <3> QED BY <1>5, <2>1, <3>2, <3>4, <3>5 DEF Valid
  <2>3. CASE i \notin Keepers
    BY <1>3, <2>1, <2>3
  <2> QED BY <2>2, <2>3
<1>12. ASSUME NEW i \in live, m[i].parent # Root
       PROVE  m[i].parent \in live /\ m[i].parent < i /\ Inside(m[i], m[m[i].parent])
  <2> DEFINE p == nodes[i].parent
  <2>1. m[i].parent = p /\ p # Root /\ i \in alive
    BY <1>1, <1>5, <1>12
  <2>2. p \in alive /\ p < i /\ Inside(nodes[i], nodes[p])
    BY <2>1 DEF Accepted
  <2>3. p \notin Leaves
    BY <2>1 DEF Leaves, Children
  <2>4. p \in live /\ m[p] = nodes[p]
    BY <1>1, <1>2, <1>3, <2>2, <2>3
  <2>5. m[i].lineEnd <= nodes[p].lineEnd
    <3>1. CASE i \in Keepers
      <4>1. PICK j \in Group(i) : m[i].lineEnd = nodes[j].lineEnd
        BY <1>4, <3>1, MergedFacts
      <4>2. j \in alive /\ nodes[j].parent = p
        BY <1>2, <3>1, GroupFacts
      <4>3. Inside(nodes[j], nodes[p])
        BY <2>1, <4>2 DEF Accepted
      <4> QED BY <4>1, <4>3 DEF Inside
    <3>2. CASE i \notin Keepers
      BY <1>1, <1>3, <2>1, <2>2, <3>2 DEF Inside
    <3> QED BY <3>1, <3>2
  <2> HIDE DEF p
  <2>6. Inside(m[i], nodes[p])
    BY <1>1, <1>5, <2>1, <2>2, <2>5 DEF Inside
  <2> QED BY <2>1, <2>2, <2>4, <2>6
<1>13. \A i, j \in live : i < j /\ m[i].parent = m[j].parent => m[i].lineStart <= m[j].lineStart
  BY <1>1, <1>5 DEF Accepted
<1>14. RootsCover(m, live)
  <2>1. RootsCover(nodes, alive)
    BY DEF Accepted
  <2>2. \A i \in live : m[i].parent = Root => 1 <= m[i].lineStart
    BY <1>1, <1>5, <2>1 DEF RootsCover
  <2>3. ASSUME NEW line \in 1..Total
        PROVE  \E k \in live : m[k].parent = Root /\ m[k].lineStart <= line /\ line <= m[k].lineEnd
    <3>1. PICK i \in alive : nodes[i].parent = Root /\ nodes[i].lineStart <= line /\ line <= nodes[i].lineEnd
      BY <2>1 DEF RootsCover
    <3> DEFINE k == heir(i)
    <3>2. /\ k \in live /\ m[k].parent = Root
          /\ m[k].lineStart <= nodes[i].lineStart /\ nodes[i].lineEnd <= m[k].lineEnd
      BY <1>9, <3>1
    <3> HIDE DEF k
    <3>3. /\ m[k].lineStart \in Nat /\ m[k].lineEnd \in Nat
          /\ nodes[i].lineStart \in Nat /\ nodes[i].lineEnd \in Nat
      BY <1>1, <1>6, <1>8, <3>2, NodeFields
    <3>4. line \in Nat
      BY PageFacts
    <3> QED BY <3>1, <3>2, <3>3, <3>4
  <2> QED BY <2>2, <2>3 DEF RootsCover
<1>15. Accepted(m, live)
  BY <1>11, <1>12, <1>13, <1>14 DEF Accepted
<1>16. ASSUME NEW o \in DOMAIN built PROVE Keeps(m, live, o)
  <2>1. PICK i \in alive :
          /\ o \in nodes[i].holds
          /\ built[o].lineStart..built[o].lineEnd \subseteq nodes[i].lineStart..nodes[i].lineEnd
          /\ \A j \in alive \ {i} : o \notin nodes[j].holds
    BY DEF Kept, Keeps
  <2> DEFINE k == heir(i)
  <2>2. /\ k \in live /\ nodes[i].holds \subseteq m[k].holds
        /\ m[k].lineStart <= nodes[i].lineStart /\ nodes[i].lineEnd <= m[k].lineEnd
    BY <1>9
  <2>3. \A j \in live \ {k} : o \notin m[j].holds
    <3> SUFFICES ASSUME NEW j \in live, o \in m[j].holds PROVE j = k
      OBVIOUS
    <3>1. PICK x \in alive : o \in nodes[x].holds /\ heir(x) = j
      BY <1>10
    <3>2. x = i
      BY <2>1, <3>1
    <3> QED BY <3>1, <3>2
  <2> HIDE DEF k
  <2>4. nodes[i].lineStart..nodes[i].lineEnd \subseteq m[k].lineStart..m[k].lineEnd
    <3>1. /\ m[k].lineStart \in Nat /\ m[k].lineEnd \in Nat
          /\ nodes[i].lineStart \in Nat /\ nodes[i].lineEnd \in Nat
      BY <1>1, <1>6, <1>8, <2>2, NodeFields
    <3> QED BY <2>2, <3>1, WiderLines
  <2>5. o \in m[k].holds
    BY <2>1, <2>2
  <2> QED BY <2>1, <2>2, <2>3, <2>4, <2>5 DEF Keeps
<1> QED BY <1>7, <1>8, <1>15, <1>16 DEF Kept

---------------------------------------------------------------------------
(***************************************************************************)
(* A merge of subtrees, whichever nodes are chosen.                        *)
(***************************************************************************)

LEMMA SubtreesMerged ==
    ASSUME EndsOK, Rooted(nodes), alive \in SUBSET DOMAIN nodes, Accepted(nodes, alive),
           Kept(nodes, alive),
           NEW collapsed \in SUBSET alive,
           NEW m, m = [i \in DOMAIN nodes |->
                         IF i \in collapsed
                         THEN [nodes[i] EXCEPT !.holds = UNION {nodes[j].holds :
                                                   j \in Subtree(nodes, i) \cap alive}]
                         ELSE nodes[i]],
           NEW live, live = alive \ {j \in alive : Ancestors(nodes)[j] \cap collapsed # {}}
    PROVE  Rooted(m) /\ live \in SUBSET DOMAIN m /\ Accepted(m, live) /\ Kept(m, live)
<1> DEFINE Anc(i) == Ancestors(nodes)[i]
           below(i) == UNION {nodes[j].holds : j \in Subtree(nodes, i) \cap alive}
<1>1. /\ Len(nodes) \in Nat /\ DOMAIN nodes = 1..Len(nodes) /\ nodes \in Seq(TreeNode)
      /\ alive \in SUBSET Nat /\ live \subseteq alive
      /\ \A i \in alive : i \in live <=> Anc(i) \cap collapsed = {}
  BY DEF Rooted
<1>2. \A i \in alive : \A a \in Anc(i) :
        /\ a \in alive /\ a < i /\ Anc(a) \subseteq Anc(i)
        /\ nodes[a].lineStart <= nodes[i].lineStart /\ nodes[i].lineEnd <= nodes[a].lineEnd
  BY <1>1, NestedAbove, AncestorsTransitive, AncestorsBefore
<1>3. \A i : below(i) \in SUBSET Nat
  BY <1>1, NodeFields
<1>4. ASSUME NEW i \in DOMAIN nodes
      PROVE  /\ m[i] \in TreeNode /\ m[i].parent = nodes[i].parent /\ m[i].level = nodes[i].level
             /\ m[i].pageStart = nodes[i].pageStart /\ m[i].pageEnd = nodes[i].pageEnd
             /\ m[i].lineStart = nodes[i].lineStart /\ m[i].lineEnd = nodes[i].lineEnd
             /\ m[i].holds = IF i \in collapsed THEN below(i) ELSE nodes[i].holds
  <2>1. nodes[i] \in TreeNode
    BY <1>1, NodeFields
  <2>2. m[i] = IF i \in collapsed THEN [nodes[i] EXCEPT !.holds = below(i)] ELSE nodes[i]
    OBVIOUS
  <2>3. below(i) \in SUBSET Nat
    BY <1>3
  <2> HIDE DEF below
  <2> QED BY <2>1, <2>2, <2>3 DEF TreeNode
<1>5. m \in Seq(TreeNode) /\ DOMAIN m = DOMAIN nodes
  <2>1. m = [i \in 1..Len(nodes) |-> m[i]]
    BY <1>1
  <2>2. m \in [1..Len(nodes) -> TreeNode]
    BY <1>1, <1>4, <2>1
  <2> QED BY <1>1, <2>2
<1>6. Rooted(m) /\ live \in SUBSET DOMAIN m
  BY <1>1, <1>4, <1>5 DEF Rooted
<1>7. \A i \in live : Valid(m[i])
  BY <1>1, <1>4 DEF Accepted, Valid
<1>8. ASSUME NEW i \in live, nodes[i].parent # Root
      PROVE  /\ nodes[i].parent \in live /\ nodes[i].parent < i
             /\ Inside(m[i], m[nodes[i].parent])
  <2> DEFINE p == nodes[i].parent
  <2>1. p \in alive /\ p < i /\ Inside(nodes[i], nodes[p])
    BY <1>1, <1>8 DEF Accepted
  <2>2. p \in Anc(i)
    <3>1. i \in DOMAIN nodes
      BY <1>1
    <3> QED BY <1>8, <3>1, ParentAbove
  <2>3. p \in live
    BY <1>1, <1>2, <2>1, <2>2
  <2> HIDE DEF p
  <2>4. Inside(m[i], m[p])
    BY <1>1, <1>4, <2>1 DEF Inside
  <2> QED BY <2>1, <2>3, <2>4 DEF p
<1>9. \A i, j \in live : i < j /\ m[i].parent = m[j].parent => m[i].lineStart <= m[j].lineStart
  BY <1>1, <1>4 DEF Accepted
<1>10. RootsCover(m, live)
  <2>1. RootsCover(nodes, alive)
    BY DEF Accepted
  <2>2. \A i \in live : m[i].parent = Root => 1 <= m[i].lineStart
    BY <1>1, <1>4, <2>1 DEF RootsCover
  <2>3. ASSUME NEW line \in 1..Total
        PROVE  \E i \in live : m[i].parent = Root /\ m[i].lineStart <= line /\ line <= m[i].lineEnd
    <3>1. PICK i \in alive : nodes[i].parent = Root /\ nodes[i].lineStart <= line /\ line <= nodes[i].lineEnd
      BY <2>1 DEF RootsCover
    <3>2. Anc(i) = {}
      BY <1>1, <3>1, AncestorsStep
    <3>3. i \in live /\ i \in DOMAIN nodes
      BY <1>1, <3>2
    <3> QED BY <1>4, <3>1, <3>3
  <2> QED BY <2>2, <2>3 DEF RootsCover
<1>11. Accepted(m, live)
  <2>1. \A i \in live : m[i].parent # Root =>
          m[i].parent \in live /\ m[i].parent < i /\ Inside(m[i], m[m[i].parent])
    <3> SUFFICES ASSUME NEW i \in live, m[i].parent # Root
                 PROVE  m[i].parent \in live /\ m[i].parent < i /\ Inside(m[i], m[m[i].parent])
      OBVIOUS
    <3>1. m[i].parent = nodes[i].parent
      BY <1>1, <1>4
    <3> QED BY <1>8, <3>1
  <2> QED BY <1>7, <1>9, <1>10, <2>1 DEF Accepted
<1>12. \A i \in collapsed : below(i) = UNION {nodes[j].holds : j \in {k \in alive : k = i \/ i \in Anc(k)}}
  BY DEF Subtree
<1> HIDE DEF below
<1>13. ASSUME NEW o \in DOMAIN built PROVE Keeps(m, live, o)
  <2>1. PICK i \in alive :
          /\ o \in nodes[i].holds
          /\ built[o].lineStart..built[o].lineEnd \subseteq nodes[i].lineStart..nodes[i].lineEnd
          /\ \A j \in alive \ {i} : o \notin nodes[j].holds
    BY DEF Kept, Keeps
  \* What holds it now is i, or has i below it and was collapsed.
  <2>2. ASSUME NEW j \in live, o \in m[j].holds
        PROVE  j = i \/ (j \in collapsed /\ j \in Anc(i))
    <3>1. CASE j \in collapsed
      <4>1. o \in below(j)
        BY <1>1, <1>4, <2>2, <3>1
      <4>2. PICK k \in alive : o \in nodes[k].holds /\ (k = j \/ j \in Anc(k))
        <5>1. o \in UNION {nodes[k].holds : k \in {x \in alive : x = j \/ j \in Anc(x)}}
          BY <1>12, <3>1, <4>1
        <5> QED BY <5>1
      <4>3. k = i
        BY <2>1, <4>2
      <4> QED BY <3>1, <4>2, <4>3
    <3>2. CASE j \notin collapsed
      BY <1>1, <1>4, <2>1, <2>2, <3>2
    <3> QED BY <3>1, <3>2
  <2>3. CASE Anc(i) \cap collapsed = {}
    <3>1. i \in live /\ i \in DOMAIN nodes
      BY <1>1, <2>3
    <3>2. o \in m[i].holds
      <4>1. CASE i \in collapsed
        <5>1. o \in below(i)
          BY <1>12, <2>1, <4>1
        <5> QED BY <1>4, <3>1, <4>1, <5>1
      <4>2. CASE i \notin collapsed
        BY <1>4, <2>1, <3>1, <4>2
      <4> QED BY <4>1, <4>2
    <3>3. \A j \in live \ {i} : o \notin m[j].holds
      BY <2>2, <2>3
    <3>4. built[o].lineStart..built[o].lineEnd \subseteq m[i].lineStart..m[i].lineEnd
      BY <1>4, <2>1, <3>1
    <3> QED BY <3>1, <3>2, <3>3, <3>4 DEF Keeps
  <2>4. CASE Anc(i) \cap collapsed # {}
    <3> DEFINE tops == Anc(i) \cap collapsed
    <3>1. tops \in SUBSET Nat /\ tops # {}
      BY <1>1, <2>4
    <3>2. PICK a \in tops : \A b \in tops : ~(b < a)
      BY <3>1, LeastOne
    <3>3. a \in Anc(i) /\ a \in collapsed /\ a \in alive /\ a \in DOMAIN nodes
      BY <1>1, <3>2
    <3>4. Anc(a) \cap collapsed = {}
      <4> SUFFICES ASSUME NEW b \in Anc(a), b \in collapsed PROVE FALSE
        OBVIOUS
      <4>1. b < a /\ b \in Anc(i)
        BY <1>2, <3>3
      <4> QED BY <3>2, <4>1
    <3>5. a \in live
      BY <1>1, <3>3, <3>4
    <3>6. o \in m[a].holds
      <4>1. o \in below(a)
        BY <1>12, <2>1, <3>3
      <4> QED BY <1>4, <3>3, <4>1
    <3>7. \A j \in live \ {a} : o \notin m[j].holds
      <4> SUFFICES ASSUME NEW j \in live, o \in m[j].holds, j # a PROVE FALSE
        OBVIOUS
      <4>1. j = i \/ (j \in collapsed /\ j \in Anc(i))
        BY <2>2
      <4>2. j # i
        BY <1>1, <2>4
      <4>3. a \in Anc(j) \/ j \in Anc(a)
        BY <1>1, <3>3, <4>1, <4>2, AncestorsLinear
      <4> QED BY <1>1, <3>3, <3>4, <4>1, <4>2, <4>3
    <3>8. built[o].lineStart..built[o].lineEnd \subseteq m[a].lineStart..m[a].lineEnd
      <4>1. /\ nodes[a].lineStart <= nodes[i].lineStart /\ nodes[i].lineEnd <= nodes[a].lineEnd
        BY <1>2, <3>3
      <4>2. /\ nodes[a].lineStart \in Nat /\ nodes[a].lineEnd \in Nat
            /\ nodes[i].lineStart \in Nat /\ nodes[i].lineEnd \in Nat
        BY <1>1, <3>3, NodeFields
      <4>3. nodes[i].lineStart..nodes[i].lineEnd \subseteq nodes[a].lineStart..nodes[a].lineEnd
        BY <4>1, <4>2, WiderLines
      <4>4. m[a].lineStart = nodes[a].lineStart /\ m[a].lineEnd = nodes[a].lineEnd
        BY <1>4, <3>3
      <4> QED BY <2>1, <4>3, <4>4
    <3> QED BY <3>5, <3>6, <3>7, <3>8 DEF Keeps
  <2> QED BY <2>3, <2>4
<1> QED BY <1>6, <1>11, <1>13 DEF Kept

---------------------------------------------------------------------------
(***************************************************************************)
(* The candidates of a document.                                           *)
(***************************************************************************)

Found     == [title : Titles, level : Nat \ {0}, line : Nat, page : Nat, coarse : BOOLEAN]
Candidate == [title : Titles, level : Nat \ {0}, line : Nat, page : Nat, coarse : BOOLEAN,
              rank : Nat]

OnPage(c) == c.line \in 1..Total /\ c.page = PageOf(c.line)

InputOK ==
    /\ EndsOK
    /\ layout \in Seq(Found) /\ \A i \in DOMAIN layout : OnPage(layout[i])
    /\ frames \in Seq(Found)
    /\ \A i \in DOMAIN frames : OnPage(frames[i]) /\ frames[i].level <= MaxLevel
    /\ levels \subseteq 1..MaxLevel
    /\ rest \subseteq Candidate /\ \A c \in rest : OnPage(c)

\* The pages stay, and so does what is computed from them.
LEMMA PagesKept ==
    ASSUME ends' = ends
    PROVE  /\ Total' = Total /\ \A x : PageOf(x)' = PageOf(x)
           /\ EndsOK' <=> EndsOK
           /\ \A c : OnPage(c)' <=> OnPage(c)
           /\ \A n, l : Accepts(n, l)' <=> Accepts(n, l)
           /\ \A n, l : Accepted(n, l)' <=> Accepted(n, l)
<1>1. Total' = Total /\ \A x : PageOf(x)' = PageOf(x)
  BY DEF Total, PageOf, LineStart
<1>2. (EndsOK' <=> EndsOK) /\ \A c : OnPage(c)' <=> OnPage(c)
  BY <1>1 DEF EndsOK, OnPage
<1>3. \A n, l : Accepts(n, l)' <=> Accepts(n, l)
  BY <1>1 DEF Accepts
<1>4. \A n : Valid(n)' <=> Valid(n)
  BY <1>1 DEF Valid
<1>5. \A n, l : RootsCover(n, l)' <=> RootsCover(n, l)
  BY <1>1 DEF RootsCover
<1>6. \A n, l : Accepted(n, l)' <=> Accepted(n, l)
  BY <1>4, <1>5 DEF Accepted
<1> QED BY <1>1, <1>2, <1>3, <1>6

LEMMA HeadingStep ==
    ASSUME InputOK, NEW t \in Titles, NEW l \in 1..MaxLevel, NEW line \in 1..Total,
           Heading(t, l, line)
    PROVE  InputOK'
<1> DEFINE c == [title |-> t, level |-> l, line |-> line, page |-> PageOf(line), coarse |-> FALSE]
<1>1. /\ layout' = Append(layout, c)
      /\ UNCHANGED <<ends, frames, levels, rest>>
  BY DEF Heading
<1>2. ends' = ends /\ frames' = frames /\ levels' = levels /\ rest' = rest
  BY <1>1
<1>3. OnPage(c) /\ c \in Found
  <2>1. PageOf(line) \in DOMAIN ends /\ DOMAIN ends \in SUBSET Nat /\ line \in Nat
    <3>1. EndsOK
      BY DEF InputOK
    <3>2. PageOf(line) \in DOMAIN ends
      BY <3>1, PageOfFacts
    <3>3. DOMAIN ends \in SUBSET Nat /\ Total \in Nat
      BY <3>1, PageFacts
    <3> QED BY <3>2, <3>3
  <2>2. l \in Nat \ {0}
    BY TreeAssumption
  <2> QED BY <2>1, <2>2 DEF OnPage, Found
<1> HIDE DEF c
<1>4. layout \in Seq(Found) /\ \A i \in DOMAIN layout : OnPage(layout[i])
  BY DEF InputOK
<1>5. layout' \in Seq(Found) /\ \A i \in DOMAIN layout' : OnPage(layout'[i])
  <2>1. /\ layout' \in Seq(Found) /\ DOMAIN layout' = 1..(Len(layout) + 1)
        /\ DOMAIN layout = 1..Len(layout) /\ Len(layout) \in Nat
        /\ layout'[Len(layout) + 1] = c /\ \A i \in 1..Len(layout) : layout'[i] = layout[i]
    BY <1>1, <1>3, <1>4
  <2>2. \A i \in DOMAIN layout' : i \in 1..Len(layout) \/ i = Len(layout) + 1
    BY <2>1
  <2> QED BY <1>3, <1>4, <2>1, <2>2
<1>6. (\A x : OnPage(x)' <=> OnPage(x)) /\ EndsOK'
  BY <1>2, PagesKept DEF InputOK
<1> QED BY <1>2, <1>5, <1>6 DEF InputOK

LEMMA BookmarkStep ==
    ASSUME InputOK, NEW t \in Titles, NEW l \in 1..MaxLevel, NEW p \in DOMAIN ends, NEW line,
           Bookmark(t, l, p, line)
    PROVE  InputOK'
<1> DEFINE at == IF line = 0 THEN LineStart(p) ELSE line
           open == {k \in levels : k < l} \cup {l}
           c == [title |-> t, level |-> Cardinality(open), line |-> at, page |-> p,
                 coarse |-> line = 0]
<1>1. /\ line \in {0} \cup LineStart(p)..ends[p]
      /\ levels' = open /\ frames' = Append(frames, c)
      /\ UNCHANGED <<ends, layout, rest>>
  BY DEF Bookmark
<1>2. ends' = ends /\ layout' = layout /\ rest' = rest
  BY <1>1
<1>3. open \subseteq 1..MaxLevel /\ l \in open
  BY DEF InputOK
<1>4. Cardinality(open) \in Nat \ {0} /\ Cardinality(open) <= MaxLevel
  <2>1. MaxLevel \in Nat
    BY TreeAssumption
  <2>2. IsFiniteSet(1..MaxLevel) /\ Cardinality(1..MaxLevel) = MaxLevel
    BY <2>1, FS_Interval
  <2> HIDE DEF open
  <2>3. IsFiniteSet(open) /\ Cardinality(open) <= MaxLevel
    BY <1>3, <2>2, FS_Subset
  <2>4. Cardinality(open) \in Nat /\ Cardinality(open) # 0
    BY <1>3, <2>3, FS_CardinalityType, FS_EmptySet
  <2> QED BY <2>3, <2>4
<1>5. OnPage(c) /\ c \in Found
  <2>1. LineStart(p) \in 1..Total /\ ends[p] \in 1..Total /\ LineStart(p) <= ends[p] /\ p \in Nat
        /\ Total \in Nat
    BY PageFacts DEF InputOK
  <2>2. at \in 1..Total /\ LineStart(p) <= at /\ at <= ends[p] /\ at \in Nat
    BY <1>1, <2>1
  <2> HIDE DEF at, open
  <2>3. PageOf(at) = p
    BY <2>2, OnePage DEF InputOK
  <2> QED BY <1>4, <2>1, <2>2, <2>3 DEF OnPage, Found
<1>6. c.level <= MaxLevel
  BY <1>4
<1> HIDE DEF c, open
<1>7. /\ frames \in Seq(Found)
      /\ \A i \in DOMAIN frames : OnPage(frames[i]) /\ frames[i].level <= MaxLevel
  BY DEF InputOK
<1>8. /\ frames' \in Seq(Found)
      /\ \A i \in DOMAIN frames' : OnPage(frames'[i]) /\ frames'[i].level <= MaxLevel
  <2>1. /\ frames' \in Seq(Found) /\ DOMAIN frames' = 1..(Len(frames) + 1)
        /\ DOMAIN frames = 1..Len(frames) /\ Len(frames) \in Nat
        /\ frames'[Len(frames) + 1] = c /\ \A i \in 1..Len(frames) : frames'[i] = frames[i]
    BY <1>1, <1>5, <1>7
  <2>2. \A i \in DOMAIN frames' : i \in 1..Len(frames) \/ i = Len(frames) + 1
    BY <2>1
  <2> QED BY <1>5, <1>6, <1>7, <2>1, <2>2
<1>9. (\A x : OnPage(x)' <=> OnPage(x)) /\ EndsOK'
  BY <1>2, PagesKept DEF InputOK
<1> QED BY <1>1, <1>2, <1>3, <1>8, <1>9 DEF InputOK

\* Candidates have a first one, and bounded ones a last one.
LEMMA FirstCandidate ==
    ASSUME NEW S \in SUBSET Candidate, S # {}
    PROVE  \E x \in S : \A y \in S : Precedes(x, y)
<1>1. \A x \in S : x.line \in Nat /\ x.level \in Nat /\ x.rank \in Nat
  BY DEF Candidate
<1>2. PICK line \in {x.line : x \in S} : \A k \in {x.line : x \in S} : ~(k < line)
  <2>1. {x.line : x \in S} \in SUBSET Nat /\ {x.line : x \in S} # {}
    BY <1>1
  <2> QED BY <2>1, LeastOne
<1> DEFINE A == {x \in S : x.line = line}
<1>3. PICK level \in {x.level : x \in A} : \A k \in {x.level : x \in A} : ~(k < level)
  <2>1. {x.level : x \in A} \in SUBSET Nat /\ {x.level : x \in A} # {}
    BY <1>1, <1>2
  <2> QED BY <2>1, LeastOne
<1> DEFINE B == {x \in A : x.level = level}
<1>4. PICK rank \in {x.rank : x \in B} : \A k \in {x.rank : x \in B} : ~(k < rank)
  <2>1. {x.rank : x \in B} \in SUBSET Nat /\ {x.rank : x \in B} # {}
    BY <1>1, <1>3
  <2> QED BY <2>1, LeastOne
<1>5. PICK x \in B : x.rank = rank
  BY <1>4
<1>6. x \in S /\ x.line = line /\ x.level = level
  BY <1>5
<1>7. ASSUME NEW y \in S PROVE Precedes(x, y)
  <2>1. ~(y.line < line)
    BY <1>2
  <2>2. y.line = line => ~(y.level < level)
    BY <1>3
  <2>3. y.line = line /\ y.level = level => ~(y.rank < rank)
    BY <1>4
  <2>4. /\ y.line \in Nat /\ y.level \in Nat /\ y.rank \in Nat
        /\ line \in Nat /\ level \in Nat /\ rank \in Nat
    BY <1>1, <1>5, <1>6
  <2> HIDE DEF A, B
  <2> QED BY <1>5, <1>6, <2>1, <2>2, <2>3, <2>4 DEF Precedes
<1> QED BY <1>6, <1>7

LEMMA LastCandidate ==
    ASSUME NEW S \in SUBSET Candidate, S # {},
           NEW l \in Nat, NEW v \in Nat, NEW r \in Nat,
           \A x \in S : x.line <= l /\ x.level <= v /\ x.rank <= r
    PROVE  \E x \in S : \A y \in S : Precedes(y, x)
<1>1. \A x \in S : x.line \in Nat /\ x.level \in Nat /\ x.rank \in Nat
  BY DEF Candidate
<1> DEFINE line == Max({x.line : x \in S})
           A == {x \in S : x.line = line}
           level == Max({x.level : x \in A})
           B == {x \in A : x.level = level}
           rank == Max({x.rank : x \in B})
<1>2. line \in {x.line : x \in S} /\ \A k \in {x.line : x \in S} : k <= line
  <2>1. /\ {x.line : x \in S} \in SUBSET Nat /\ {x.line : x \in S} # {}
        /\ \A k \in {x.line : x \in S} : k <= l
    BY <1>1
  <2> QED BY <2>1, MaxFacts
<1>3. level \in {x.level : x \in A} /\ \A k \in {x.level : x \in A} : k <= level
  <2> HIDE DEF line
  <2>1. /\ {x.level : x \in A} \in SUBSET Nat /\ {x.level : x \in A} # {}
        /\ \A k \in {x.level : x \in A} : k <= v
    BY <1>1, <1>2
  <2> QED BY <2>1, MaxFacts
<1>4. rank \in {x.rank : x \in B} /\ \A k \in {x.rank : x \in B} : k <= rank
  <2> HIDE DEF line, level
  <2>1. /\ {x.rank : x \in B} \in SUBSET Nat /\ {x.rank : x \in B} # {}
        /\ \A k \in {x.rank : x \in B} : k <= r
    BY <1>1, <1>3
  <2> QED BY <2>1, MaxFacts
<1> HIDE DEF line, level, rank
<1>5. PICK x \in B : x.rank = rank
  BY <1>4
<1>6. x \in S /\ x.line = line /\ x.level = level
  BY <1>5
<1>7. ASSUME NEW y \in S PROVE Precedes(y, x)
  <2>1. y.line <= line
    BY <1>2
  <2>2. y.line = line => y.level <= level
    BY <1>3
  <2>3. y.line = line /\ y.level = level => y.rank <= rank
    BY <1>4
  <2>4. /\ y.line \in Nat /\ y.level \in Nat /\ y.rank \in Nat
        /\ line \in Nat /\ level \in Nat /\ rank \in Nat
    BY <1>1, <1>5, <1>6
  <2> HIDE DEF A, B
  <2> QED BY <1>5, <1>6, <2>1, <2>2, <2>3, <2>4 DEF Precedes
<1> QED BY <1>6, <1>7

LEMMA RankedType ==
    ASSUME NEW f \in Found, NEW r \in Nat
    PROVE  /\ Ranked(f, r) \in Candidate
           /\ Ranked(f, r).line = f.line /\ Ranked(f, r).page = f.page
           /\ Ranked(f, r).level = f.level /\ Ranked(f, r).rank = r
<1>1. /\ f.title \in Titles /\ f.level \in Nat \ {0} /\ f.line \in Nat /\ f.page \in Nat
      /\ f.coarse \in BOOLEAN
  BY DEF Found
<1> QED BY <1>1 DEF Ranked, Candidate

LEMMA SectionsFacts ==
    ASSUME InputOK
    PROVE  Sections \subseteq Candidate /\ \A c \in Sections : OnPage(c)
<1>1. /\ layout \in Seq(Found) /\ \A i \in DOMAIN layout : OnPage(layout[i])
      /\ frames \in Seq(Found) /\ Len(frames) \in Nat /\ DOMAIN frames = 1..Len(frames)
      /\ \A i \in DOMAIN frames : OnPage(frames[i]) /\ frames[i].level <= MaxLevel
      /\ MaxLevel \in Nat
  BY TreeAssumption DEF InputOK
<1>2. \A f \in Frames : /\ f \in Candidate /\ OnPage(f)
                        /\ f.level <= MaxLevel /\ f.rank <= Len(frames)
  <2> SUFFICES ASSUME NEW i \in DOMAIN frames
               PROVE  LET f == Ranked(frames[i], i) IN
                      /\ f \in Candidate /\ OnPage(f)
                      /\ f.level <= MaxLevel /\ f.rank <= Len(frames)
    BY DEF Frames
  <2>1. frames[i] \in Found /\ OnPage(frames[i]) /\ frames[i].level <= MaxLevel
        /\ i \in Nat /\ i <= Len(frames)
    BY <1>1
  <2> DEFINE f == Ranked(frames[i], i)
  <2>2. f \in Candidate /\ f.line = frames[i].line /\ f.page = frames[i].page
        /\ f.level = frames[i].level /\ f.rank = i
    BY <2>1, RankedType
  <2> HIDE DEF f
  <2>3. OnPage(f)
    BY <2>1, <2>2 DEF OnPage
  <2>4. f.level <= MaxLevel /\ f.rank <= Len(frames)
    BY <2>1, <2>2
  <2> QED BY <2>2, <2>3, <2>4 DEF f
<1>3. ASSUME NEW h \in Found, OnPage(h)
      PROVE  Placed(h) \in Found /\ OnPage(Placed(h))
  <2> DEFINE above == {f \in Frames : f.line <= h.line}
             frame == CHOOSE f \in above : \A g \in above : Precedes(g, f)
  <2>1. Placed(h) = IF above = {} THEN h ELSE [h EXCEPT !.level = frame.level + h.level]
    BY DEF Placed
  <2>2. CASE above = {}
    BY <1>3, <2>1, <2>2
  <2>3. CASE above # {}
    <3>1. frame \in above
      <4>1. above \in SUBSET Candidate /\ h.line \in Nat
        BY <1>2 DEF Found
      <4>2. \A x \in above : x.line <= h.line /\ x.level <= MaxLevel /\ x.rank <= Len(frames)
        BY <1>2
      <4>3. \E f \in above : \A g \in above : Precedes(g, f)
        <5> HIDE DEF above
        <5> QED BY <1>1, <2>3, <4>1, <4>2, LastCandidate
      <4> HIDE DEF above
      <4> QED BY <4>3
    <3>2. frame.level \in Nat \ {0}
      <4> HIDE DEF frame
      <4> QED BY <1>2, <3>1 DEF Candidate
    <3> HIDE DEF frame, above
    <3>3. frame.level + h.level \in Nat \ {0}
      <4>1. h.level \in Nat \ {0}
        BY <1>3 DEF Found
      <4> QED BY <3>2, <4>1
    <3>4. Placed(h) \in Found /\ Placed(h).line = h.line /\ Placed(h).page = h.page
      BY <1>3, <2>1, <2>3, <3>3 DEF Found
    <3> QED BY <1>3, <3>4 DEF OnPage
  <2> QED BY <2>2, <2>3
<1>4. ASSUME NEW i \in DOMAIN layout
      PROVE  LET c == Ranked(Placed(layout[i]), Len(frames) + i) IN c \in Candidate /\ OnPage(c)
  <2> DEFINE h == Placed(layout[i])
             c == Ranked(h, Len(frames) + i)
  <2>1. layout[i] \in Found /\ OnPage(layout[i]) /\ i \in Nat
    BY <1>1
  <2>2. h \in Found /\ OnPage(h)
    BY <1>3, <2>1
  <2> HIDE DEF h
  <2>3. Len(frames) + i \in Nat
    BY <1>1, <2>1
  <2>4. c \in Candidate /\ c.line = h.line /\ c.page = h.page
    BY <2>2, <2>3, RankedType
  <2> HIDE DEF c
  <2>5. OnPage(c)
    BY <2>2, <2>4 DEF OnPage
  <2> QED BY <2>4, <2>5 DEF c, h
<1>5. ASSUME NEW c \in Sections PROVE c \in Candidate /\ OnPage(c)
  <2>1. CASE c \in Frames
    BY <1>2, <2>1
  <2>2. CASE c \notin Frames
    <3>1. PICK i \in DOMAIN layout : c = Ranked(Placed(layout[i]), Len(frames) + i)
      BY <2>2 DEF Sections
    <3> QED BY <1>4, <3>1
  <2> QED BY <2>1, <2>2
<1> QED BY <1>5

---------------------------------------------------------------------------
(***************************************************************************)
(* A tree under construction.                                              *)
(***************************************************************************)

InRange(node) ==
    /\ 1 <= node.lineStart /\ node.lineStart <= node.lineEnd /\ node.lineEnd <= Total
    /\ node.pageStart = PageOf(node.lineStart)

\* The nodes are in the order of their first lines, each deeper than its parent.
Ordered(n) ==
    /\ \A i \in DOMAIN n : InRange(n[i]) /\ n[i].holds = {i}
    /\ \A i, j \in DOMAIN n : i < j => n[i].lineStart <= n[j].lineStart
    /\ \A i \in DOMAIN n : n[i].parent # Root => n[n[i].parent].level < n[i].level

\* The open sections reach to the end of the document, and lie in one another.
OpenOK(n, open) ==
    /\ open \in SUBSET DOMAIN n
    /\ \A i \in open : n[i].lineEnd = Total
    /\ \A i, j \in open : i < j => n[i].level < n[j].level /\ n[j].parent # Root

RootAt(n, line) ==
    \E i \in DOMAIN n : n[i].parent = Root /\ n[i].lineStart <= line /\ line <= n[i].lineEnd

Growing(n, open) ==
    /\ Rooted(n) /\ Ordered(n) /\ OpenOK(n, open)
    /\ n # <<>> => \A line \in 1..Total : RootAt(n, line)

\* Before a section is added: the preface, or the sections that it closes.
LEMMA PrefaceFacts ==
    ASSUME EndsOK, Growing(nodes, stack), NEW c \in Candidate, OnPage(c),
           \A i \in DOMAIN nodes : nodes[i].lineStart <= c.line,
           NEW open, open = {i \in stack : nodes[i].level < c.level},
           NEW n, n = Preface(c)
    PROVE  /\ Rooted(n) /\ Ordered(n) /\ OpenOK(n, open)
           /\ \A i \in DOMAIN n : n[i].lineStart <= c.line
           /\ \A i \in open : n[i].level < c.level
           /\ \A line \in 1..Total : line < c.line \/ open # {} => RootAt(n, line)
<1>1. /\ c.line \in 1..Total /\ c.line \in Nat /\ Total \in Nat \ {0}
      /\ c.page \in DOMAIN ends /\ LineStart(c.page) <= c.line /\ c.line <= ends[c.page]
      /\ ends[c.page] \in 1..Total
  BY PageFacts, PageOfFacts DEF OnPage
<1>2. /\ nodes \in Seq(TreeNode) /\ Len(nodes) \in Nat /\ DOMAIN nodes = 1..Len(nodes)
      /\ Ordered(nodes) /\ OpenOK(nodes, stack) /\ open \subseteq stack
  BY DEF Growing, Rooted
<1>3. CASE nodes = <<>> /\ c.line > 1
  <2> DEFINE w == Node(Root, 1, 1, PageOf(c.line - 1), 1, c.line - 1, 1)
  <2>1. n = <<w>> /\ open = {}
    BY <1>2, <1>3 DEF Preface, OpenOK
  <2>2. c.line - 1 \in 1..Total /\ 1 \in 1..Total
    BY <1>1, <1>3
  <2>3. PageOf(c.line - 1) \in Nat /\ PageOf(1) = 1
    <3>1. /\ 1 \in DOMAIN ends /\ LineStart(1) <= 1 /\ ends[1] \in 1..Total
          /\ DOMAIN ends \in SUBSET Nat
      BY PageFacts
    <3>2. 1 <= ends[1]
      BY <3>1
    <3>3. PageOf(c.line - 1) \in DOMAIN ends
      BY <2>2, PageOfFacts
    <3> QED BY <2>2, <3>1, <3>2, <3>3, OnePage
  <2>4. /\ w \in TreeNode /\ w.parent = Root /\ w.lineStart = 1 /\ w.lineEnd = c.line - 1
        /\ w.pageStart = 1 /\ w.holds = {1}
    BY <2>2, <2>3 DEF Node, TreeNode, Root
  <2> HIDE DEF w
  <2>5. n \in Seq(TreeNode) /\ DOMAIN n = {1} /\ n[1] = w
    BY <2>1, <2>4
  <2>6. Rooted(n)
    BY <2>4, <2>5 DEF Rooted
  <2>7. InRange(w)
    BY <1>1, <2>2, <2>3, <2>4 DEF InRange
  <2>8. Ordered(n)
    BY <2>4, <2>5, <2>7 DEF Ordered
  <2>9. OpenOK(n, open)
    BY <2>1 DEF OpenOK
  <2>10. \A line \in 1..Total : line < c.line => RootAt(n, line)
    BY <1>1, <2>4, <2>5 DEF RootAt
  <2> QED BY <1>1, <2>1, <2>4, <2>5, <2>6, <2>8, <2>9, <2>10
<1>4. CASE nodes = <<>> /\ ~(c.line > 1)
  <2>1. n = <<>> /\ open = {}
    BY <1>2, <1>4 DEF Preface, Closed, OpenOK
  <2>2. Rooted(n) /\ Ordered(n) /\ OpenOK(n, open)
    BY <2>1 DEF Rooted, Ordered, OpenOK
  <2>3. \A line \in 1..Total : ~(line < c.line)
    BY <1>1, <1>4
  <2> QED BY <2>1, <2>2, <2>3
<1>5. CASE nodes # <<>>
  <2> DEFINE boundary == IF c.coarse THEN ends[c.page] ELSE c.line - 1
             shut == {i \in stack : nodes[i].level >= c.level}
  <2>1. /\ n = [i \in DOMAIN nodes |->
                  IF i \in shut
                  THEN [nodes[i] EXCEPT !.lineEnd = Max({boundary, nodes[i].lineStart})]
                  ELSE nodes[i]]
    BY <1>5 DEF Preface, Closed
  <2>2. boundary \in Nat /\ boundary <= Total /\ c.line - 1 <= boundary
    BY <1>1
  <2> HIDE DEF boundary
  <2>3. ASSUME NEW i \in DOMAIN nodes
        PROVE  LET end == Max({boundary, nodes[i].lineStart}) IN
               /\ end \in Nat /\ end <= Total /\ boundary <= end /\ nodes[i].lineStart <= end
    <3>1. nodes[i].lineStart \in Nat /\ nodes[i].lineStart <= Total
      <4>1. nodes[i].lineStart \in Nat /\ nodes[i].lineEnd \in Nat
        BY <1>2, NodeFields
      <4>2. nodes[i].lineStart <= nodes[i].lineEnd /\ nodes[i].lineEnd <= Total
        BY <1>2 DEF Ordered, InRange
      <4> QED BY <1>1, <4>1, <4>2
    <3>2. \A x \in {boundary, nodes[i].lineStart} : x \in Nat /\ x <= Total
      BY <2>2, <3>1
    <3>3. /\ Max({boundary, nodes[i].lineStart}) \in {boundary, nodes[i].lineStart}
          /\ \A x \in {boundary, nodes[i].lineStart} : x <= Max({boundary, nodes[i].lineStart})
      BY <1>1, <3>2, MaxFacts
    <3> QED BY <3>2, <3>3
  <2>4. ASSUME NEW i \in DOMAIN nodes
        PROVE  /\ n[i] \in TreeNode /\ n[i].parent = nodes[i].parent
               /\ n[i].level = nodes[i].level /\ n[i].lineStart = nodes[i].lineStart
               /\ n[i].pageStart = nodes[i].pageStart /\ n[i].holds = nodes[i].holds
               /\ IF i \in shut THEN /\ boundary <= n[i].lineEnd
                                     /\ n[i].lineStart <= n[i].lineEnd /\ n[i].lineEnd <= Total
                  ELSE n[i] = nodes[i]
    <3>1. nodes[i] \in TreeNode
      BY <1>2, NodeFields
    <3>2. CASE i \in shut
      <4> DEFINE end == Max({boundary, nodes[i].lineStart})
      <4>1. end \in Nat /\ end <= Total /\ boundary <= end /\ nodes[i].lineStart <= end
        BY <2>3
      <4>2. n[i] = [nodes[i] EXCEPT !.lineEnd = end]
        BY <2>1, <3>2
      <4> HIDE DEF end
      <4> QED BY <3>1, <3>2, <4>1, <4>2 DEF TreeNode
    <3>3. CASE i \notin shut
      BY <2>1, <3>1, <3>3
    <3> QED BY <3>2, <3>3
  <2>5. n \in Seq(TreeNode) /\ DOMAIN n = DOMAIN nodes
    <3>1. n = [i \in 1..Len(nodes) |-> n[i]]
      BY <1>2, <2>1
    <3>2. n \in [1..Len(nodes) -> TreeNode]
      BY <1>2, <2>4, <3>1
    <3> QED BY <1>2, <3>2
  <2>6. Rooted(n)
    BY <2>4, <2>5 DEF Rooted, Growing
  <2>7. \A i \in stack : nodes[i].level \in Nat /\ i \in DOMAIN nodes /\ i \in Nat
    BY <1>2, NodeFields DEF OpenOK
  <2>8. c.level \in Nat
    BY DEF Candidate
  <2>9. \A i \in stack : i \in open <=> i \notin shut
    BY <2>7, <2>8
  <2>10. Ordered(n)
    <3>1. ASSUME NEW i \in DOMAIN n PROVE InRange(n[i]) /\ n[i].holds = {i}
      <4>1. InRange(nodes[i]) /\ nodes[i].holds = {i} /\ i \in DOMAIN nodes
        BY <1>2, <2>5 DEF Ordered
      <4>2. CASE i \in shut
        BY <2>4, <4>1, <4>2 DEF InRange
      <4>3. CASE i \notin shut
        BY <2>4, <4>1, <4>3
      <4> QED BY <4>2, <4>3
    <3>2. \A i, j \in DOMAIN n : i < j => n[i].lineStart <= n[j].lineStart
      BY <1>2, <2>4, <2>5 DEF Ordered
    <3>3. \A i \in DOMAIN n : n[i].parent # Root => n[n[i].parent].level < n[i].level
      <4> SUFFICES ASSUME NEW i \in DOMAIN n, n[i].parent # Root
                   PROVE  n[n[i].parent].level < n[i].level
        OBVIOUS
      <4>1. n[i].parent \in DOMAIN nodes /\ n[i].parent = nodes[i].parent
        BY <2>4, <2>5, <2>6 DEF Rooted
      <4> QED BY <1>2, <2>4, <2>5, <4>1 DEF Ordered
    <3> QED BY <3>1, <3>2, <3>3 DEF Ordered
  <2>11. OpenOK(n, open)
    <3>1. \A i \in open : i \in DOMAIN nodes /\ n[i] = nodes[i] /\ i \in stack
      BY <1>2, <2>4, <2>7, <2>9
    <3> QED BY <1>2, <2>5, <3>1 DEF OpenOK
  <2>12. \A i \in DOMAIN n : n[i].lineStart <= c.line
    BY <2>4, <2>5
  <2>13. \A i \in open : n[i].level < c.level
    BY <2>4, <2>7
  <2>14. ASSUME NEW line \in 1..Total, line < c.line \/ open # {} PROVE RootAt(n, line)
    <3>1. PICK i \in DOMAIN nodes : /\ nodes[i].parent = Root
                                    /\ nodes[i].lineStart <= line /\ line <= nodes[i].lineEnd
      BY <1>5 DEF Growing, RootAt
    <3>2. CASE i \notin shut
      <4>1. n[i] = nodes[i] /\ i \in DOMAIN n
        BY <2>4, <2>5, <3>2
      <4> QED BY <3>1, <4>1 DEF RootAt
    <3>3. CASE i \in shut
      <4>1. open = {}
        <5> SUFFICES ASSUME NEW j \in open PROVE FALSE
          OBVIOUS
        <5>1. i \in stack /\ j \in stack /\ i \in Nat /\ j \in Nat
              /\ nodes[i].level >= c.level /\ nodes[j].level < c.level
              /\ nodes[i].level \in Nat /\ nodes[j].level \in Nat
          BY <2>7, <3>3
        <5>2. i # j
          BY <2>8, <5>1
        <5>3. CASE i < j
          <6>1. nodes[i].level < nodes[j].level
            BY <1>2, <5>1, <5>3 DEF OpenOK
          <6> QED BY <2>8, <5>1, <6>1
        <5>4. CASE j < i
          BY <1>2, <3>1, <5>1, <5>4 DEF OpenOK
        <5> QED BY <5>1, <5>2, <5>3, <5>4
      <4>2. line < c.line
        BY <2>14, <4>1
      <4>3. boundary <= n[i].lineEnd /\ n[i].lineEnd \in Nat /\ line \in Nat
        <5>1. n[i] \in TreeNode /\ boundary <= n[i].lineEnd
          BY <2>4, <3>3
        <5> QED BY <1>1, <5>1 DEF TreeNode
      <4>4. line <= n[i].lineEnd
        BY <1>1, <2>2, <4>2, <4>3
      <4>5. i \in DOMAIN n /\ n[i].parent = Root /\ n[i].lineStart <= line
        BY <2>4, <2>5, <3>1
      <4> QED BY <4>4, <4>5 DEF RootAt
    <3> QED BY <3>2, <3>3
  <2> QED BY <2>6, <2>10, <2>11, <2>12, <2>13, <2>14
<1> QED BY <1>3, <1>4, <1>5

LEMMA Appended ==
    ASSUME NEW T, NEW s \in Seq(T), NEW x \in T
    PROVE  /\ Append(s, x) \in Seq(T) /\ Len(Append(s, x)) = Len(s) + 1
           /\ DOMAIN Append(s, x) = 1..(Len(s) + 1)
           /\ Append(s, x)[Len(s) + 1] = x
           /\ \A i \in 1..Len(s) : Append(s, x)[i] = s[i]
  OBVIOUS

\* With the section added it is such a tree, and has every line.
LEMMA PushGrows ==
    ASSUME EndsOK, Growing(nodes, stack), NEW c \in Candidate, OnPage(c),
           \A i \in DOMAIN nodes : nodes[i].lineStart <= c.line,
           NEW open, open = {i \in stack : nodes[i].level < c.level},
           NEW index, index = Len(Preface(c)) + 1,
           NEW m, m = Append(Preface(c),
                             Node(IF open = {} THEN Root ELSE Max(open), c.level,
                                  c.page, Len(ends), c.line, Total, index))
    PROVE  /\ Growing(m, open \cup {index}) /\ m # <<>>
           /\ \A i \in DOMAIN m : m[i].lineStart <= c.line
<1> DEFINE n == Preface(c)
           w == Node(IF open = {} THEN Root ELSE Max(open), c.level,
                     c.page, Len(ends), c.line, Total, index)
<1>1. /\ Rooted(n) /\ Ordered(n) /\ OpenOK(n, open)
      /\ \A i \in DOMAIN n : n[i].lineStart <= c.line
      /\ \A i \in open : n[i].level < c.level
      /\ \A line \in 1..Total : line < c.line \/ open # {} => RootAt(n, line)
  BY PrefaceFacts
<1>2. index = Len(n) + 1 /\ m = Append(n, w)
  OBVIOUS
<1> HIDE DEF n
<1>3. /\ n \in Seq(TreeNode) /\ Len(n) \in Nat /\ DOMAIN n = 1..Len(n)
      /\ index \in Nat \ {0} /\ index \notin DOMAIN n /\ \A i \in DOMAIN n : i < index
  BY <1>1, <1>2 DEF Rooted
<1>4. /\ c.line \in 1..Total /\ c.line \in Nat /\ Total \in Nat \ {0} /\ c.page = PageOf(c.line)
      /\ c.page \in Nat /\ c.level \in Nat \ {0} /\ Len(ends) \in Nat
  BY PageFacts DEF OnPage, Candidate
\* The section's parent is the last that is open.
<1> DEFINE p == IF open = {} THEN Root ELSE Max(open)
<1>5. /\ p \in Nat
      /\ open = {} => p = Root
      /\ open # {} => p # Root /\ p \in open /\ p \in DOMAIN n /\ p < index
  <2>1. CASE open = {}
    BY <2>1 DEF Root
  <2>2. CASE open # {}
    <3>1. open \in SUBSET Nat /\ \A x \in open : x <= Len(n) /\ x # 0
      BY <1>1, <1>3 DEF OpenOK
    <3>2. Max(open) \in open
      BY <1>3, <2>2, <3>1, MaxFacts
    <3>3. p = Max(open)
      BY <2>2
    <3> HIDE DEF p
    <3> QED BY <1>1, <1>3, <2>2, <3>1, <3>2, <3>3 DEF OpenOK, Root
  <2> QED BY <2>1, <2>2
<1>6. w = Node(p, c.level, c.page, Len(ends), c.line, Total, index)
  OBVIOUS
<1> HIDE DEF p, w
<1>7. /\ w \in TreeNode /\ w.parent = p /\ w.level = c.level /\ w.pageStart = c.page
      /\ w.lineStart = c.line /\ w.lineEnd = Total /\ w.holds = {index}
  BY <1>3, <1>4, <1>5, <1>6 DEF Node, TreeNode
<1>8. /\ m \in Seq(TreeNode) /\ DOMAIN m = DOMAIN n \cup {index} /\ m # <<>>
      /\ m[index] = w /\ \A i \in DOMAIN n : m[i] = n[i]
  <2>1. /\ m \in Seq(TreeNode) /\ Len(m) = index /\ DOMAIN m = 1..index
        /\ m[index] = w /\ \A i \in 1..Len(n) : m[i] = n[i]
    <3>1. /\ n \in Seq(TreeNode) /\ w \in TreeNode /\ Len(n) \in Nat
          /\ index = Len(n) + 1 /\ m = Append(n, w)
      BY <1>2, <1>3, <1>7 DEF n, w, p
    <3>2. /\ Append(n, w) \in Seq(TreeNode) /\ Len(Append(n, w)) = Len(n) + 1
          /\ DOMAIN Append(n, w) = 1..(Len(n) + 1)
          /\ Append(n, w)[Len(n) + 1] = w
          /\ \A i \in 1..Len(n) : Append(n, w)[i] = n[i]
      BY <3>1, Appended
    <3> HIDE DEF n, w
    <3> QED BY <3>1, <3>2, Zenon
  <2>2. 1..index = (1..Len(n)) \cup {index}
    BY <1>2, <1>3
  <2>3. m # <<>>
    BY <1>3, <2>1
  <2> QED BY <1>3, <2>1, <2>2, <2>3
<1>9. Rooted(m)
  <2>1. ASSUME NEW i \in DOMAIN m
        PROVE  m[i].parent = Root \/ (m[i].parent \in DOMAIN m /\ m[i].parent < i)
    <3>1. CASE i = index
      BY <1>5, <1>7, <1>8, <3>1
    <3>2. CASE i # index
      BY <1>1, <1>8, <3>2 DEF Rooted
    <3> QED BY <3>1, <3>2
  <2> QED BY <1>8, <2>1 DEF Rooted
<1>10. \A i \in DOMAIN m : m[i].lineStart <= c.line
  BY <1>1, <1>4, <1>7, <1>8
<1>11. Ordered(m)
  <2>1. ASSUME NEW i \in DOMAIN m PROVE InRange(m[i]) /\ m[i].holds = {i}
    <3>1. CASE i = index
      <4>1. InRange(w)
        BY <1>4, <1>7 DEF InRange
      <4> QED BY <1>7, <1>8, <3>1, <4>1
    <3>2. CASE i # index
      BY <1>1, <1>8, <3>2 DEF Ordered
    <3> QED BY <3>1, <3>2
  <2>2. ASSUME NEW i \in DOMAIN m, NEW j \in DOMAIN m, i < j
        PROVE  m[i].lineStart <= m[j].lineStart
    <3>1. CASE j = index
      BY <1>7, <1>8, <1>10, <3>1
    <3>2. CASE j # index
      <4>1. j \in DOMAIN n /\ i \in DOMAIN n
        <5>1. j \in DOMAIN n /\ j < index
          BY <1>3, <1>8, <3>2
        <5>2. i # index
          BY <1>3, <2>2, <5>1
        <5> QED BY <1>8, <5>1, <5>2
      <4> QED BY <1>1, <1>8, <2>2, <4>1 DEF Ordered
    <3> QED BY <3>1, <3>2
  <2>3. ASSUME NEW i \in DOMAIN m, m[i].parent # Root
        PROVE  m[m[i].parent].level < m[i].level
    <3>1. CASE i = index
      <4>1. p \in open /\ p \in DOMAIN n /\ m[i].parent = p
        BY <1>5, <1>7, <1>8, <2>3, <3>1
      <4> QED BY <1>1, <1>7, <1>8, <3>1, <4>1
    <3>2. CASE i # index
      <4>1. i \in DOMAIN n /\ m[i] = n[i]
        BY <1>8, <3>2
      <4>2. n[i].parent \in DOMAIN n
        BY <1>1, <2>3, <4>1 DEF Rooted
      <4> QED BY <1>1, <1>8, <2>3, <4>1, <4>2 DEF Ordered
    <3> QED BY <3>1, <3>2
  <2> QED BY <2>1, <2>2, <2>3 DEF Ordered
<1>12. OpenOK(m, open \cup {index})
  <2>1. open \cup {index} \in SUBSET DOMAIN m
    BY <1>1, <1>8 DEF OpenOK
  <2>2. \A i \in open \cup {index} : m[i].lineEnd = Total
    BY <1>1, <1>7, <1>8 DEF OpenOK
  <2>3. ASSUME NEW i \in open \cup {index}, NEW j \in open \cup {index}, i < j
        PROVE  m[i].level < m[j].level /\ m[j].parent # Root
    <3>1. i \in open /\ i \in DOMAIN n
      <4>1. i # index
        <5>1. j \in DOMAIN n \/ j = index
          BY <1>1 DEF OpenOK
        <5> QED BY <1>3, <2>3, <5>1
      <4> QED BY <1>1, <4>1 DEF OpenOK
    <3>2. CASE j = index
      BY <1>1, <1>5, <1>7, <1>8, <3>1, <3>2
    <3>3. CASE j # index
      BY <1>1, <1>8, <2>3, <3>1, <3>3 DEF OpenOK
    <3> QED BY <3>2, <3>3
  <2> QED BY <2>1, <2>2, <2>3 DEF OpenOK
<1>13. ASSUME NEW line \in 1..Total PROVE RootAt(m, line)
  <2>1. CASE line < c.line \/ open # {}
    <3>1. RootAt(n, line)
      BY <1>1, <2>1
    <3> QED BY <1>8, <3>1 DEF RootAt
  <2>2. CASE ~(line < c.line \/ open # {})
    <3>1. index \in DOMAIN m /\ m[index].parent = Root /\ m[index].lineStart = c.line
          /\ m[index].lineEnd = Total
      BY <1>5, <1>7, <1>8, <2>2
    <3>2. c.line <= line /\ line <= Total
      BY <1>4, <2>2
    <3> QED BY <3>1, <3>2 DEF RootAt
  <2> QED BY <2>1, <2>2
<1> QED BY <1>8, <1>9, <1>10, <1>11, <1>12, <1>13 DEF Growing

\* With the ends of the parents after those of their sections the tree is accepted.
LEMMA PromotedAccepted ==
    ASSUME EndsOK, Growing(nodes, stack), nodes # <<>>,
           NEW m, m = Promoted
    PROVE  Rooted(m) /\ Accepted(m, DOMAIN m) /\ \A i \in DOMAIN m : m[i].holds = {i}
<1>1. /\ Rooted(nodes) /\ Ordered(nodes) /\ nodes \in Seq(TreeNode) /\ Len(nodes) \in Nat
      /\ DOMAIN nodes = 1..Len(nodes) /\ Total \in Nat
  BY PageFacts DEF Growing, Rooted
<1>2. \A i \in DOMAIN nodes : /\ nodes[i].lineStart \in Nat /\ nodes[i].lineEnd \in Nat
                              /\ InRange(nodes[i]) /\ nodes[i].holds = {i}
  BY <1>1, NodeFields DEF Ordered
<1> DEFINE end(i) == Max({nodes[j].lineEnd : j \in Subtree(nodes, i)})
<1>3. ASSUME NEW i \in DOMAIN nodes
      PROVE  /\ end(i) \in 1..Total /\ end(i) <= Total
             /\ \A j \in Subtree(nodes, i) : nodes[j].lineEnd <= end(i)
             /\ \E j \in Subtree(nodes, i) : nodes[j].lineEnd = end(i)
             /\ nodes[i].lineEnd <= end(i)
  <2> DEFINE lasts == {nodes[j].lineEnd : j \in Subtree(nodes, i)}
  <2>1. i \in Subtree(nodes, i) /\ Subtree(nodes, i) \subseteq DOMAIN nodes
    BY DEF Subtree
  <2>2. \A x \in lasts : x \in Nat /\ x <= Total /\ 1 <= x
    BY <1>2, <2>1 DEF InRange
  <2>3. lasts \in SUBSET Nat /\ lasts # {}
    BY <2>1, <2>2
  <2>4. Max(lasts) \in lasts /\ \A x \in lasts : x <= Max(lasts)
    <3> HIDE DEF lasts
    <3> QED BY <1>1, <2>2, <2>3, MaxFacts
  <2>5. end(i) = Max(lasts)
    OBVIOUS
  <2> HIDE DEF end
  <2>6. end(i) \in 1..Total /\ end(i) <= Total
    <3> HIDE DEF lasts
    <3>1. Max(lasts) \in Nat /\ Max(lasts) <= Total /\ 1 <= Max(lasts)
      BY <2>2, <2>4
    <3> QED BY <1>1, <2>5, <3>1
  <2>7. /\ \A j \in Subtree(nodes, i) : nodes[j].lineEnd <= end(i)
        /\ \E j \in Subtree(nodes, i) : nodes[j].lineEnd = end(i)
    BY <2>4, <2>5
  <2> QED BY <2>1, <2>6, <2>7
<1>4. m = [i \in DOMAIN nodes |-> [nodes[i] EXCEPT !.lineEnd = end(i), !.pageEnd = PageOf(end(i))]]
  BY DEF Promoted
<1> HIDE DEF end
<1>5. ASSUME NEW i \in DOMAIN nodes
      PROVE  /\ m[i] \in TreeNode /\ m[i].parent = nodes[i].parent /\ m[i].level = nodes[i].level
             /\ m[i].pageStart = nodes[i].pageStart /\ m[i].lineStart = nodes[i].lineStart
             /\ m[i].lineEnd = end(i) /\ m[i].pageEnd = PageOf(end(i))
             /\ m[i].holds = {i}
  <2>1. nodes[i] \in TreeNode /\ nodes[i].holds = {i}
    BY <1>1, <1>2, NodeFields
  <2>2. end(i) \in 1..Total /\ end(i) \in Nat
    BY <1>3
  <2>3. PageOf(end(i)) \in Nat
    BY <2>2, PagesAscend
  <2> DEFINE e == end(i)
             g == PageOf(end(i))
  <2>4. m[i] = [nodes[i] EXCEPT !.lineEnd = e, !.pageEnd = g]
    BY <1>4
  <2>5. e \in Nat /\ g \in Nat
    BY <2>2, <2>3
  <2> HIDE DEF e, g
  <2>6. /\ m[i] \in TreeNode /\ m[i].parent = nodes[i].parent /\ m[i].level = nodes[i].level
        /\ m[i].pageStart = nodes[i].pageStart /\ m[i].lineStart = nodes[i].lineStart
        /\ m[i].lineEnd = e /\ m[i].pageEnd = g /\ m[i].holds = {i}
    BY <2>1, <2>4, <2>5 DEF TreeNode
  <2> QED BY <2>6 DEF e, g
<1>6. m \in Seq(TreeNode) /\ DOMAIN m = DOMAIN nodes
  <2>1. m = [i \in 1..Len(nodes) |-> m[i]]
    BY <1>1, <1>4
  <2>2. m \in [1..Len(nodes) -> TreeNode]
    BY <1>1, <1>5, <2>1
  <2> QED BY <1>1, <2>2
<1>7. Rooted(m)
  BY <1>1, <1>5, <1>6 DEF Rooted
<1>8. ASSUME NEW i \in DOMAIN nodes
      PROVE  /\ 1 <= m[i].lineStart /\ m[i].lineStart <= m[i].lineEnd
             /\ m[i].lineStart \in 1..Total /\ m[i].lineEnd \in 1..Total
             /\ m[i].pageStart = PageOf(m[i].lineStart) /\ m[i].pageEnd = PageOf(m[i].lineEnd)
  <2>1. /\ 1 <= nodes[i].lineStart /\ nodes[i].lineStart <= nodes[i].lineEnd
        /\ nodes[i].pageStart = PageOf(nodes[i].lineStart)
        /\ nodes[i].lineStart \in Nat /\ nodes[i].lineEnd \in Nat
    BY <1>2 DEF InRange
  <2>2. nodes[i].lineEnd <= end(i) /\ end(i) \in 1..Total
    BY <1>3
  <2>3. m[i].lineStart = nodes[i].lineStart /\ m[i].lineEnd = end(i)
    BY <1>5
  <2>4. /\ 1 <= m[i].lineStart /\ m[i].lineStart <= m[i].lineEnd
        /\ m[i].lineStart \in 1..Total /\ m[i].lineEnd \in 1..Total
    BY <1>1, <2>1, <2>2, <2>3
  <2> QED BY <1>5, <2>1, <2>4
<1>9. \A i \in DOMAIN m : Valid(m[i])
  <2> SUFFICES ASSUME NEW i \in DOMAIN nodes PROVE Valid(m[i])
    BY <1>6
  <2>1. m[i].level > 0
    <3>1. m[i].level \in Nat \ {0}
      BY <1>6, NodeFields
    <3> QED BY <3>1
  <2>2. m[i].pageStart <= m[i].pageEnd
    BY <1>8, PagesAscend
  <2>3. m[i].lineEnd <= Total
    BY <1>3, <1>5
  <2> QED BY <1>8, <2>1, <2>2, <2>3 DEF Valid
<1>10. ASSUME NEW i \in DOMAIN m, m[i].parent # Root
       PROVE  /\ m[i].parent \in DOMAIN m /\ m[i].parent < i
              /\ Inside(m[i], m[m[i].parent])
  <2> DEFINE p == m[i].parent
  <2>1. /\ p \in DOMAIN nodes /\ i \in DOMAIN nodes /\ p < i /\ p = nodes[i].parent /\ p # Root
    BY <1>5, <1>6, <1>7, <1>10 DEF Rooted
  <2> HIDE DEF p
  <2>2. nodes[p].level < nodes[i].level /\ nodes[p].lineStart <= nodes[i].lineStart
    BY <1>1, <2>1 DEF Ordered
  <2>3. m[p].level < m[i].level /\ m[p].lineStart <= m[i].lineStart
    BY <1>5, <2>1, <2>2
  <2>4. m[i].lineEnd <= m[p].lineEnd
    <3>1. PICK j \in Subtree(nodes, i) : nodes[j].lineEnd = end(i)
      BY <1>3, <2>1
    <3>2. j \in Subtree(nodes, p)
      <4>1. j \in DOMAIN nodes /\ (j = i \/ i \in Ancestors(nodes)[j])
        BY <3>1 DEF Subtree
      <4>2. p \in Ancestors(nodes)[i]
        BY <1>1, <2>1, ParentAbove
      <4>3. p \in Ancestors(nodes)[j]
        BY <1>1, <4>1, <4>2, AncestorsTransitive
      <4> QED BY <4>1, <4>3 DEF Subtree
    <3>3. end(i) <= end(p)
      BY <1>3, <2>1, <3>1, <3>2
    <3> QED BY <1>5, <2>1, <3>3
  <2>5. m[p].pageStart <= m[i].pageStart /\ m[i].pageEnd <= m[p].pageEnd
    BY <1>8, <2>1, <2>3, <2>4, PagesAscend
  <2>6. Inside(m[i], m[p])
    BY <2>3, <2>4, <2>5 DEF Inside
  <2> QED BY <1>6, <2>1, <2>6 DEF p
<1>11. \A i, j \in DOMAIN m : i < j /\ m[i].parent = m[j].parent => m[i].lineStart <= m[j].lineStart
  BY <1>1, <1>5, <1>6 DEF Ordered
<1>12. RootsCover(m, DOMAIN m)
  <2>1. \A i \in DOMAIN m : 1 <= m[i].lineStart
    BY <1>6, <1>8
  <2>2. ASSUME NEW line \in 1..Total
        PROVE  \E i \in DOMAIN m : m[i].parent = Root /\ m[i].lineStart <= line /\ line <= m[i].lineEnd
    <3>1. PICK i \in DOMAIN nodes : /\ nodes[i].parent = Root
                                    /\ nodes[i].lineStart <= line /\ line <= nodes[i].lineEnd
      BY DEF Growing, RootAt
    <3>2. nodes[i].lineEnd <= end(i) /\ nodes[i].lineEnd \in Nat /\ end(i) \in 1..Total
      BY <1>2, <1>3
    <3>3. line <= end(i)
      BY <1>1, <3>1, <3>2
    <3>4. m[i].parent = Root /\ m[i].lineStart <= line /\ line <= m[i].lineEnd /\ i \in DOMAIN m
      BY <1>5, <1>6, <3>1, <3>3
    <3> QED BY <3>4
  <2> QED BY <2>1, <2>2 DEF RootsCover
<1>13. Accepted(m, DOMAIN m)
  BY <1>9, <1>10, <1>11, <1>12 DEF Accepted
<1> QED BY <1>5, <1>6, <1>7, <1>13

\* So is the tree that has a node for each page.
LEMMA PagesAccepted ==
    ASSUME EndsOK,
           NEW m, m = [p \in DOMAIN ends |-> Node(Root, 1, p, p, LineStart(p), ends[p], p)]
    PROVE  Rooted(m) /\ Accepted(m, DOMAIN m) /\ \A i \in DOMAIN m : m[i].holds = {i}
<1>1. /\ Len(ends) \in Nat /\ DOMAIN ends = 1..Len(ends) /\ Total \in Nat
      /\ \A p \in DOMAIN ends :
           /\ ends[p] \in 1..Total /\ LineStart(p) \in 1..Total /\ LineStart(p) <= ends[p]
           /\ p \in Nat
      /\ \A p, q \in DOMAIN ends : p < q => ends[p] < LineStart(q)
  BY PageFacts
<1>2. ASSUME NEW p \in DOMAIN ends
      PROVE  /\ m[p] \in TreeNode /\ m[p].parent = Root /\ m[p].level = 1
             /\ m[p].pageStart = p /\ m[p].pageEnd = p
             /\ m[p].lineStart = LineStart(p) /\ m[p].lineEnd = ends[p] /\ m[p].holds = {p}
  <2>1. LineStart(p) \in Nat /\ ends[p] \in Nat /\ p \in Nat
    BY <1>1
  <2>2. m[p] = Node(Root, 1, p, p, LineStart(p), ends[p], p)
    OBVIOUS
  <2> QED BY <2>1, <2>2 DEF Node, TreeNode, Root
<1>3. m \in Seq(TreeNode) /\ DOMAIN m = DOMAIN ends
  <2>1. m = [i \in 1..Len(ends) |-> m[i]]
    BY <1>1
  <2>2. m \in [1..Len(ends) -> TreeNode]
    BY <1>1, <1>2, <2>1
  <2> QED BY <1>1, <2>2
<1>4. Rooted(m)
  BY <1>2, <1>3 DEF Rooted
<1>5. \A p \in DOMAIN m : Valid(m[p])
  <2> SUFFICES ASSUME NEW p \in DOMAIN ends PROVE Valid(m[p])
    BY <1>3
  <2>1. /\ LineStart(p) \in 1..Total /\ ends[p] \in 1..Total /\ LineStart(p) <= ends[p]
        /\ LineStart(p) <= LineStart(p) /\ ends[p] <= ends[p] /\ ends[p] <= Total /\ p <= p
    BY <1>1
  <2>2. PageOf(LineStart(p)) = p /\ PageOf(ends[p]) = p
    BY <2>1, OnePage
  <2> QED BY <1>2, <2>1, <2>2 DEF Valid
<1>6. ASSUME NEW p \in DOMAIN m, NEW q \in DOMAIN m, p < q
      PROVE  m[p].lineStart <= m[q].lineStart
  <2>1. /\ LineStart(p) <= ends[p] /\ ends[p] < LineStart(q)
        /\ LineStart(p) \in Nat /\ ends[p] \in Nat /\ LineStart(q) \in Nat
    BY <1>1, <1>3, <1>6
  <2>2. LineStart(p) <= LineStart(q)
    BY <2>1
  <2> QED BY <1>2, <1>3, <2>2
<1>7. RootsCover(m, DOMAIN m)
  <2>1. \A p \in DOMAIN m : 1 <= m[p].lineStart
    BY <1>1, <1>2, <1>3
  <2>2. ASSUME NEW line \in 1..Total
        PROVE  \E p \in DOMAIN m : m[p].parent = Root /\ m[p].lineStart <= line /\ line <= m[p].lineEnd
    <3>1. PageOf(line) \in DOMAIN ends /\ LineStart(PageOf(line)) <= line /\ line <= ends[PageOf(line)]
      BY PageOfFacts
    <3> QED BY <1>2, <1>3, <3>1
  <2> QED BY <2>1, <2>2 DEF RootsCover
<1> QED BY <1>2, <1>3, <1>4, <1>5, <1>6, <1>7 DEF Accepted

---------------------------------------------------------------------------
(***************************************************************************)
(* The inductive invariant.                                                *)
(***************************************************************************)

Phases   == {"input", "flat", "build", "tree", "siblings", "subtrees", "flatten", "done"}
Building == {"input", "flat", "build"}
Merging  == {"siblings", "subtrees", "flatten", "done"}

\* Every section is before the candidates that are left.
BuildOK ==
    phase \in Building =>
        /\ Growing(nodes, stack)
        /\ \A c \in rest : \A i \in DOMAIN nodes : nodes[i].lineStart <= c.line
        /\ phase # "build" => nodes = <<>>
        /\ phase = "build" => nodes # <<>> \/ rest # {}
        /\ last # None => nodes # <<>>
TreeOK ==
    phase = "tree" =>
        /\ Rooted(nodes) /\ Accepted(nodes, DOMAIN nodes)
        /\ \A i \in DOMAIN nodes : nodes[i].holds = {i}
MergeOK ==
    phase \in Merging =>
        /\ Rooted(nodes) /\ alive \in SUBSET DOMAIN nodes
        /\ Accepted(nodes, alive) /\ Kept(nodes, alive)
TreeInv == InputOK /\ phase \in Phases /\ BuildOK /\ TreeOK /\ MergeOK

\* What is said of a tree depends on the pages and on the tree that was built.
LEMMA TreesKept ==
    ASSUME ends' = ends
    PROVE  /\ \A n, o : Growing(n, o)' <=> Growing(n, o)
           /\ built' = built => \A n, l : Kept(n, l)' <=> Kept(n, l)
<1>1. Total' = Total /\ \A x : PageOf(x)' = PageOf(x)
  BY PagesKept
<1>2. /\ \A n : InRange(n)' <=> InRange(n)
      /\ \A n, o : OpenOK(n, o)' <=> OpenOK(n, o)
  BY <1>1 DEF InRange, OpenOK
<1>3. \A n : Ordered(n)' <=> Ordered(n)
  BY <1>2 DEF Ordered
<1>4. \A n, o : Growing(n, o)' <=> Growing(n, o)
  BY <1>1, <1>2, <1>3 DEF Growing
<1>5. built' = built => \A n, l : Kept(n, l)' <=> Kept(n, l)
  BY DEF Kept, Keeps
<1> QED BY <1>4, <1>5

\* Only the sections' tree and the candidates change.
LEMMA InputKept ==
    ASSUME InputOK, UNCHANGED <<ends, layout, frames, levels>>,
           rest' \subseteq Candidate, \A c \in rest' : OnPage(c)
    PROVE  InputOK'
<1>1. /\ EndsOK' <=> EndsOK
      /\ \A c : OnPage(c)' <=> OnPage(c)
  BY PagesKept
<1> QED BY <1>1 DEF InputOK

LEMMA TreeInitInv ==
    ASSUME TreeInit
    PROVE  TreeInv
<1>1. InputOK
  BY DEF TreeInit, InputOK, EndsOK
<1>2. BuildOK
  <2>1. Growing(nodes, stack)
    BY DEF TreeInit, Growing, Rooted, Ordered, OpenOK
  <2> QED BY <2>1 DEF TreeInit, BuildOK
<1>3. TreeOK /\ MergeOK
  BY DEF TreeInit, TreeOK, MergeOK, Merging
<1> QED BY <1>1, <1>2, <1>3 DEF TreeInv, TreeInit, Phases

\* The document is read: there is no tree yet.
LEMMA InputStep ==
    ASSUME TreeInv, phase = "input", InputOK', phase' \in {"input", "flat", "build"},
           ends' = ends, nodes' = nodes, stack' = stack, last' = last,
           phase' = "build" => rest' # {}
    PROVE  TreeInv'
<1>1. Growing(nodes, stack) /\ nodes = <<>> /\ last = None
  BY DEF TreeInv, BuildOK, Building
<1>2. Growing(nodes, stack)'
  BY <1>1, TreesKept
<1>3. BuildOK'
  <2>1. nodes' = <<>> /\ last' = None /\ DOMAIN nodes' = {}
    BY <1>1
  <2> QED BY <1>2, <2>1 DEF BuildOK, None
<1>4. TreeOK' /\ MergeOK'
  BY DEF TreeOK, MergeOK, Merging
<1>5. (phase \in Phases)'
  BY DEF Phases
<1> QED BY <1>3, <1>4, <1>5 DEF TreeInv

LEMMA AssembleStep ==
    ASSUME TreeInv, Assemble
    PROVE  TreeInv'
<1>1. /\ Sections \subseteq Candidate /\ \A c \in Sections : OnPage(c)
      /\ InputOK
  BY SectionsFacts DEF TreeInv
<1>2. /\ UNCHANGED <<ends, layout, frames, levels>> /\ rest' = Sections
      /\ phase = "input" /\ phase' = (IF rest' = {} THEN "flat" ELSE "build")
      /\ nodes' = nodes /\ stack' = stack /\ last' = last /\ ends' = ends
  BY DEF Assemble
<1>3. InputOK'
  BY <1>1, <1>2, InputKept
<1> QED BY <1>2, <1>3, InputStep

LEMMA PushStep ==
    ASSUME TreeInv, Push
    PROVE  TreeInv'
<1> DEFINE c == CHOOSE x \in rest : \A y \in rest : Precedes(x, y)
           open == {i \in stack : nodes[i].level < c.level}
           index == Len(Preface(c)) + 1
           node == Node(IF open = {} THEN Root ELSE Max(open), c.level,
                        c.page, Len(ends), c.line, Total, index)
           m == Append(Preface(c), node)
           same == last # None /\ <<last.line, last.level, last.title>>
                                  = <<c.line, c.level, c.title>>
<1>1. /\ phase = "build" /\ phase' = "build" /\ rest # {}
      /\ rest' = rest \ {c} /\ ends' = ends
      /\ UNCHANGED <<ends, layout, frames, levels>>
      /\ IF same THEN last' = last /\ nodes' = nodes /\ stack' = stack
         ELSE last' = c /\ nodes' = m /\ stack' = open \cup {index}
  BY DEF Push
<1>2. /\ InputOK /\ EndsOK /\ rest \in SUBSET Candidate /\ \A x \in rest : OnPage(x)
      /\ Growing(nodes, stack)
      /\ \A x \in rest : \A i \in DOMAIN nodes : nodes[i].lineStart <= x.line
      /\ last # None => nodes # <<>>
  BY <1>1 DEF TreeInv, InputOK, BuildOK, Building
<1>3. c \in rest /\ \A y \in rest : Precedes(c, y)
  <2>1. \E x \in rest : \A y \in rest : Precedes(x, y)
    BY <1>1, <1>2, FirstCandidate
  <2> QED BY <2>1
<1> HIDE DEF c
<1>4. \A y \in rest : c.line <= y.line
  BY <1>2, <1>3 DEF Precedes, Candidate
<1>5. /\ Growing(nodes', stack') /\ nodes' # <<>>
      /\ \A x \in rest' : \A i \in DOMAIN nodes' : nodes'[i].lineStart <= x.line
  <2>1. CASE same
    BY <1>1, <1>2, <2>1
  <2>2. CASE ~same
    <3>1. nodes' = m /\ stack' = open \cup {index}
      BY <1>1, <2>2
    <3>2. c \in Candidate /\ OnPage(c)
          /\ \A i \in DOMAIN nodes : nodes[i].lineStart <= c.line
      BY <1>2, <1>3
    <3>3. /\ Growing(m, open \cup {index}) /\ m # <<>>
          /\ \A i \in DOMAIN m : m[i].lineStart <= c.line
      BY <1>2, <3>2, PushGrows
    <3> HIDE DEF m, open, index
    <3>4. Rooted(m) /\ rest' \subseteq rest /\ c.line \in Nat
      BY <1>1, <3>2, <3>3 DEF Growing, Candidate
    <3>5. ASSUME NEW x \in rest', NEW i \in DOMAIN m PROVE m[i].lineStart <= x.line
      <4>1. m[i].lineStart \in Nat /\ x.line \in Nat
        BY <1>2, <3>4, NodeFields DEF Rooted, Candidate
      <4>2. m[i].lineStart <= c.line /\ c.line <= x.line
        BY <1>4, <3>3, <3>4
      <4> QED BY <3>4, <4>1, <4>2
    <3> QED BY <3>1, <3>3, <3>5
  <2> QED BY <2>1, <2>2
<1> HIDE DEF m, open, index, same
<1>6. Growing(nodes, stack)'
  BY <1>1, <1>5, TreesKept
<1>7. BuildOK'
  BY <1>1, <1>5, <1>6 DEF BuildOK
<1>8. InputOK'
  BY <1>1, <1>2, InputKept
<1>9. TreeOK' /\ MergeOK' /\ (phase \in Phases)'
  BY <1>1 DEF TreeOK, MergeOK, Merging, Phases
<1> QED BY <1>7, <1>8, <1>9 DEF TreeInv

\* The tree is complete.
LEMMA BuiltStep ==
    ASSUME TreeInv, phase' = "tree", ends' = ends, UNCHANGED <<ends, layout, frames, levels>>,
           rest' = rest,
           Rooted(nodes'), Accepted(nodes', DOMAIN nodes'),
           \A i \in DOMAIN nodes' : nodes'[i].holds = {i}
    PROVE  TreeInv'
<1>1. InputOK'
  BY InputKept DEF TreeInv, InputOK
<1>2. Accepted(nodes, DOMAIN nodes)'
  BY PagesKept
<1>3. TreeOK'
  BY <1>2 DEF TreeOK, Rooted
<1>4. BuildOK' /\ MergeOK' /\ (phase \in Phases)'
  BY DEF BuildOK, MergeOK, Building, Merging, Phases
<1> QED BY <1>1, <1>3, <1>4 DEF TreeInv

LEMMA PageFallbackStep ==
    ASSUME TreeInv, PageFallback
    PROVE  TreeInv'
<1> DEFINE m == [p \in DOMAIN ends |-> Node(Root, 1, p, p, LineStart(p), ends[p], p)]
<1>1. /\ phase' = "tree" /\ nodes' = m
      /\ ends' = ends /\ rest' = rest /\ UNCHANGED <<ends, layout, frames, levels>>
  BY DEF PageFallback
<1>2. EndsOK
  BY DEF TreeInv, InputOK
<1>3. Rooted(m) /\ Accepted(m, DOMAIN m) /\ \A i \in DOMAIN m : m[i].holds = {i}
  BY <1>2, PagesAccepted
<1> HIDE DEF m
<1> QED BY <1>1, <1>3, BuiltStep

LEMMA PromoteStep ==
    ASSUME TreeInv, Promote
    PROVE  TreeInv'
<1>1. /\ phase = "build" /\ rest = {} /\ phase' = "tree" /\ nodes' = Promoted
      /\ ends' = ends /\ rest' = rest /\ UNCHANGED <<ends, layout, frames, levels>>
  BY DEF Promote
<1>2. EndsOK /\ Growing(nodes, stack) /\ nodes # <<>>
  BY <1>1 DEF TreeInv, InputOK, BuildOK, Building
<1> DEFINE m == Promoted
<1>3. Rooted(m) /\ Accepted(m, DOMAIN m) /\ \A i \in DOMAIN m : m[i].holds = {i}
  BY <1>2, PromotedAccepted
<1>4. nodes' = m
  BY <1>1
<1> HIDE DEF m
<1> QED BY <1>1, <1>3, <1>4, BuiltStep

\* The optimizer never sees a tree that it refuses.
LEMMA MergeStep ==
    ASSUME TreeInv, phase' \in Merging, UNCHANGED <<ends, layout, frames, levels>>,
           ends' = ends, rest' = rest,
           Rooted(nodes'), alive' \in SUBSET DOMAIN nodes', Accepted(nodes', alive'),
           Kept(nodes, alive)'
    PROVE  TreeInv'
<1>1. InputOK'
  BY InputKept DEF TreeInv, InputOK
<1>2. Accepted(nodes, alive)'
  BY PagesKept
<1>3. MergeOK'
  BY <1>2 DEF MergeOK, Rooted
<1>4. BuildOK' /\ TreeOK' /\ (phase \in Phases)'
  BY DEF BuildOK, TreeOK, Building, Merging, Phases
<1> QED BY <1>1, <1>3, <1>4 DEF TreeInv

LEMMA ReadForestStep ==
    ASSUME TreeInv, ReadForest
    PROVE  TreeInv'
<1>1. /\ phase = "tree" /\ phase' = (IF Accepts(nodes, DOMAIN nodes) THEN "siblings" ELSE "refused")
      /\ alive' = DOMAIN nodes /\ built' = nodes /\ nodes' = nodes
      /\ ends' = ends /\ rest' = rest /\ UNCHANGED <<ends, layout, frames, levels>>
  BY DEF ReadForest
<1>2. /\ EndsOK /\ Rooted(nodes) /\ Accepted(nodes, DOMAIN nodes)
      /\ \A i \in DOMAIN nodes : nodes[i].holds = {i}
  BY <1>1 DEF TreeInv, InputOK, TreeOK
<1>3. Accepts(nodes, DOMAIN nodes)
  BY <1>2, AcceptsIs DEF Rooted
<1>4. phase' \in Merging
  BY <1>1, <1>3 DEF Merging
<1>5. Kept(nodes, alive)'
  <2>1. \A o \in DOMAIN nodes : \A j \in DOMAIN nodes \ {o} : o \notin nodes[j].holds
    BY <1>2
  <2>2. ASSUME NEW o \in DOMAIN nodes
        PROVE  /\ o \in nodes[o].holds
               /\ \A j \in DOMAIN nodes \ {o} : o \notin nodes[j].holds
    BY <1>2
  <2>3. \A o \in DOMAIN built' : Keeps(nodes, alive, o)'
    BY <1>1, <2>2 DEF Keeps
  <2> QED BY <2>3 DEF Kept
<1>6. Rooted(nodes') /\ alive' \in SUBSET DOMAIN nodes' /\ Accepted(nodes', alive')
  BY <1>1, <1>2
<1> QED BY <1>1, <1>4, <1>5, <1>6, MergeStep

LEMMA MergeSiblingsStep ==
    ASSUME TreeInv, MergeSiblings
    PROVE  TreeInv'
<1> DEFINE m == [i \in DOMAIN nodes |-> IF i \in Keepers THEN Merged(Group(i), i) ELSE nodes[i]]
           live == alive \ (Leaves \ Keepers)
<1>1. /\ phase = "siblings" /\ phase' = "subtrees" /\ nodes' = m /\ alive' = live
      /\ ends' = ends /\ rest' = rest /\ built' = built
      /\ UNCHANGED <<ends, layout, frames, levels>>
  BY DEF MergeSiblings, Leaves, Keepers
<1>2. /\ EndsOK /\ Rooted(nodes) /\ alive \in SUBSET DOMAIN nodes
      /\ Accepted(nodes, alive) /\ Kept(nodes, alive)
  BY <1>1 DEF TreeInv, InputOK, MergeOK, Merging
<1>3. Rooted(m) /\ live \in SUBSET DOMAIN m /\ Accepted(m, live) /\ Kept(m, live)
  BY <1>2, SiblingsMerged
<1> HIDE DEF m, live
<1>4. Rooted(nodes') /\ alive' \in SUBSET DOMAIN nodes' /\ Accepted(nodes', alive')
      /\ Kept(nodes', alive')
  BY <1>1, <1>3
<1>5. Kept(nodes, alive)'
  BY <1>1, <1>4, TreesKept
<1>6. phase' \in Merging
  BY <1>1 DEF Merging
<1> QED BY <1>1, <1>4, <1>5, <1>6, MergeStep

LEMMA MergeSubtreesStep ==
    ASSUME TreeInv, MergeSubtrees
    PROVE  TreeInv'
<1> DEFINE collapsed == {i \in alive :
                /\ Children(nodes, alive, i) # {}
                /\ Span(nodes[i]) <= Expanded(nodes, alive, Cost(nodes, alive), i)}
           m == [i \in DOMAIN nodes |->
                    IF i \in collapsed
                    THEN [nodes[i] EXCEPT !.holds = UNION {nodes[j].holds :
                                                j \in Subtree(nodes, i) \cap alive}]
                    ELSE nodes[i]]
           live == alive \ {j \in alive : Ancestors(nodes)[j] \cap collapsed # {}}
<1>1. /\ phase = "subtrees" /\ phase' \in {"flatten", "siblings"}
      /\ nodes' = m /\ alive' = live
      /\ ends' = ends /\ rest' = rest /\ built' = built
      /\ UNCHANGED <<ends, layout, frames, levels>>
  BY DEF MergeSubtrees
<1>2. /\ EndsOK /\ Rooted(nodes) /\ alive \in SUBSET DOMAIN nodes
      /\ Accepted(nodes, alive) /\ Kept(nodes, alive)
  BY <1>1 DEF TreeInv, InputOK, MergeOK, Merging
<1>3. collapsed \in SUBSET alive
  OBVIOUS
<1> HIDE DEF collapsed
<1>4. Rooted(m) /\ live \in SUBSET DOMAIN m /\ Accepted(m, live) /\ Kept(m, live)
  BY <1>2, <1>3, SubtreesMerged
<1> HIDE DEF m, live
<1>5. Rooted(nodes') /\ alive' \in SUBSET DOMAIN nodes' /\ Accepted(nodes', alive')
      /\ Kept(nodes', alive')
  BY <1>1, <1>4
<1>6. Kept(nodes, alive)'
  BY <1>1, <1>5, TreesKept
<1>7. phase' \in Merging
  BY <1>1 DEF Merging
<1> QED BY <1>1, <1>5, <1>6, <1>7, MergeStep

LEMMA FlattenStep ==
    ASSUME TreeInv, Flatten
    PROVE  TreeInv'
<1>1. /\ phase = "flatten" /\ phase' = (IF Accepts(nodes, alive) THEN "done" ELSE "refused")
      /\ ends' = ends /\ rest' = rest /\ built' = built /\ nodes' = nodes /\ alive' = alive
      /\ UNCHANGED <<ends, layout, frames, levels>>
  BY DEF Flatten
<1>2. /\ EndsOK /\ Rooted(nodes) /\ alive \in SUBSET DOMAIN nodes
      /\ Accepted(nodes, alive) /\ Kept(nodes, alive)
  BY <1>1 DEF TreeInv, InputOK, MergeOK, Merging
<1>3. Accepts(nodes, alive)
  BY <1>2, AcceptsIs DEF Rooted
<1>4. phase' \in Merging
  BY <1>1, <1>3 DEF Merging
<1>5. Rooted(nodes') /\ alive' \in SUBSET DOMAIN nodes' /\ Accepted(nodes', alive')
      /\ Kept(nodes', alive')
  BY <1>1, <1>2
<1>6. Kept(nodes, alive)'
  BY <1>1, <1>5, TreesKept
<1> QED BY <1>1, <1>4, <1>5, <1>6, MergeStep

LEMMA TreeStep ==
    ASSUME TreeInv, [TreeNext]_treeVars
    PROVE  TreeInv'
<1>1. ASSUME NEW t \in Titles, NEW l \in 1..MaxLevel, NEW line \in 1..Total, Heading(t, l, line)
      PROVE  TreeInv'
  <2>1. InputOK'
    BY <1>1, HeadingStep DEF TreeInv
  <2>2. /\ phase = "input" /\ phase' = "input"
        /\ ends' = ends /\ nodes' = nodes /\ stack' = stack /\ last' = last
    BY <1>1 DEF Heading
  <2> QED BY <2>1, <2>2, InputStep
<1>2. ASSUME NEW t \in Titles, NEW l \in 1..MaxLevel, NEW p \in DOMAIN ends,
             NEW line \in 0..Total, Bookmark(t, l, p, line)
      PROVE  TreeInv'
  <2>1. InputOK'
    BY <1>2, BookmarkStep DEF TreeInv
  <2>2. /\ phase = "input" /\ phase' = "input"
        /\ ends' = ends /\ nodes' = nodes /\ stack' = stack /\ last' = last
    BY <1>2 DEF Bookmark
  <2> QED BY <2>1, <2>2, InputStep
<1>3. CASE UNCHANGED treeVars
  <2>1. /\ UNCHANGED <<ends, layout, frames, levels>> /\ ends' = ends /\ phase' = phase
        /\ rest' = rest /\ last' = last /\ nodes' = nodes /\ stack' = stack
        /\ alive' = alive /\ built' = built
    BY <1>3 DEF treeVars
  <2>2. InputOK'
    BY <2>1, InputKept DEF TreeInv, InputOK
  <2>3. /\ Growing(nodes, stack)' <=> Growing(nodes', stack')
        /\ Accepted(nodes, alive)' <=> Accepted(nodes', alive')
        /\ Accepted(nodes, DOMAIN nodes)' <=> Accepted(nodes', DOMAIN nodes')
        /\ Kept(nodes, alive)' <=> Kept(nodes', alive')
    BY <2>1, TreesKept, PagesKept
  <2>4. BuildOK' /\ TreeOK' /\ MergeOK'
    BY <2>1, <2>3 DEF TreeInv, BuildOK, TreeOK, MergeOK, Rooted
  <2> QED BY <2>1, <2>2, <2>4 DEF TreeInv
<1> QED BY <1>1, <1>2, <1>3, AssembleStep, PageFallbackStep, PushStep, PromoteStep,
           ReadForestStep, MergeSiblingsStep, MergeSubtreesStep, FlattenStep DEF TreeNext

\* Every state of the structure of a document satisfies the invariant.
LEMMA TreeInvariant == TreeSpec => []TreeInv
<1>1. TreeInit => TreeInv
  BY TreeInitInv
<1>2. TreeInv /\ [TreeNext]_treeVars => TreeInv'
  BY TreeStep
<1> QED BY <1>1, <1>2, PTL DEF TreeSpec

\* However the bookmarks and headings of a document lie, the tree that is built from
\* them covers every line from its roots, a section lies in all of its ancestors, and
\* the optimizer accepts that tree, and its own result when it reads it again.
THEOREM TreeIsCovered == TreeSpec => []TreeCovers
<1>1. ASSUME TreeInv PROVE TreeCovers
  <2>1. phase # "refused"
    BY <1>1 DEF TreeInv, Phases
  <2>2. ASSUME phase = "tree"
        PROVE  /\ \A line \in 1..Total : \E i \in DOMAIN nodes :
                    nodes[i].parent = Root /\ line \in nodes[i].lineStart..nodes[i].lineEnd
               /\ \A i \in DOMAIN nodes : \A a \in Ancestors(nodes)[i] :
                    nodes[i].lineStart..nodes[i].lineEnd \subseteq nodes[a].lineStart..nodes[a].lineEnd
    <3>1. EndsOK /\ Rooted(nodes) /\ Accepted(nodes, DOMAIN nodes) /\ nodes \in Seq(TreeNode)
      BY <1>1, <2>2 DEF TreeInv, InputOK, TreeOK, Rooted
    <3>2. \A i \in DOMAIN nodes : nodes[i].lineStart \in Nat /\ nodes[i].lineEnd \in Nat
      BY <3>1, NodeFields
    <3>3. ASSUME NEW line \in 1..Total
          PROVE  \E i \in DOMAIN nodes :
                    nodes[i].parent = Root /\ line \in nodes[i].lineStart..nodes[i].lineEnd
      <4>1. PICK i \in DOMAIN nodes : /\ nodes[i].parent = Root
                                      /\ nodes[i].lineStart <= line /\ line <= nodes[i].lineEnd
        BY <3>1 DEF Accepted, RootsCover
      <4>2. line \in Nat /\ nodes[i].lineStart \in Nat /\ nodes[i].lineEnd \in Nat
        BY <3>1, <3>2, PageFacts
      <4> QED BY <4>1, <4>2
    <3>4. ASSUME NEW i \in DOMAIN nodes, NEW a \in Ancestors(nodes)[i]
          PROVE  nodes[i].lineStart..nodes[i].lineEnd \subseteq nodes[a].lineStart..nodes[a].lineEnd
      <4>1. /\ a \in DOMAIN nodes /\ nodes[a].lineStart <= nodes[i].lineStart
            /\ nodes[i].lineEnd <= nodes[a].lineEnd
        BY <3>1, NestedAbove
      <4> QED BY <3>2, <4>1, WiderLines
    <3> QED BY <3>3, <3>4
  <2> QED BY <2>1, <2>2 DEF TreeCovers
<1> QED BY <1>1, TreeInvariant, PTL

\* However the optimizer merges, a section of the tree that was built is in exactly one
\* section of the tree that it leaves, with its title and all of its lines.
THEOREM SectionsKept == TreeSpec => []MergeKeeps
<1>1. TreeInv => MergeKeeps
  BY DEF TreeInv, MergeOK, Merging, Kept, Keeps, MergeKeeps
<1> QED BY <1>1, TreeInvariant, PTL

---------------------------------------------------------------------------
(***************************************************************************)
(* What it costs to find a page.                                           *)
(***************************************************************************)

\* Numbers that are given for some nodes are bounded.
LEMMA Bounded ==
    ASSUME NEW k \in Nat, NEW S \in SUBSET (1..k), NEW f, \A j \in S : f[j] \in Nat
    PROVE  \E b \in Nat : \A j \in S : f[j] <= b
<1> DEFINE Below(m, b) == \A j \in S : j <= m => f[j] <= b
           bad == {m \in Nat : m <= k /\ ~\E b \in Nat : Below(m, b)}
<1>1. \A j \in S : j \in Nat /\ 1 <= j /\ j <= k
  OBVIOUS
<1>2. ASSUME bad # {} PROVE FALSE
  <2>1. PICK m \in bad : \A x \in bad : ~(x < m)
    <3>1. bad \in SUBSET Nat
      OBVIOUS
    <3> HIDE DEF bad
    <3> QED BY <1>2, <3>1, LeastOne
  <2>2. CASE m = 0
    <3>1. Below(m, 0)
      BY <1>1, <2>2
    <3> QED BY <2>1, <3>1
  <2>3. CASE m # 0
    <3>1. m - 1 \in Nat /\ m - 1 <= k /\ m - 1 < m /\ m \in Nat
      BY <2>1, <2>3
    <3>2. PICK b \in Nat : Below(m - 1, b)
      BY <2>1, <3>1
    <3>3. \A j \in S : j <= m => j <= m - 1 \/ j = m
      BY <1>1, <3>1
    <3>4. CASE m \in S
      <4>1. f[m] \in Nat /\ b + f[m] \in Nat /\ b <= b + f[m] /\ f[m] <= b + f[m]
        BY <3>2, <3>4
      <4>2. \A j \in S : j <= m => f[j] <= b + f[m]
        <5> SUFFICES ASSUME NEW j \in S, j <= m PROVE f[j] <= b + f[m]
          OBVIOUS
        <5>1. CASE j = m
          BY <4>1, <5>1
        <5>2. CASE j # m
          <6>1. f[j] <= b /\ f[j] \in Nat
            BY <3>2, <3>3, <5>2
          <6> QED BY <3>2, <4>1, <6>1
        <5> QED BY <5>1, <5>2
      <4>3. Below(m, b + f[m])
        BY <4>2
      <4> HIDE DEF Below
      <4> QED BY <2>1, <4>1, <4>3
    <3>5. CASE m \notin S
      <4>1. Below(m, b)
        BY <3>2, <3>3, <3>5
      <4> HIDE DEF Below
      <4> QED BY <2>1, <3>2, <4>1
    <3> QED BY <3>4, <3>5
  <2> QED BY <2>2, <2>3
<1>3. k \notin bad
  BY <1>2
<1>4. PICK b \in Nat : Below(k, b)
  BY <1>3
<1>5. \A j \in S : f[j] <= b
  BY <1>1, <1>4
<1> QED BY <1>5

\* Nodes that are some have a last one.
LEMMA LastOne ==
    ASSUME NEW k \in Nat, NEW bad \in SUBSET (1..k), bad # {}
    PROVE  \E i \in bad : \A j \in bad : ~(i < j)
<1>1. bad \in SUBSET Nat /\ \A x \in bad : x <= k
  OBVIOUS
<1>2. Max(bad) \in bad /\ \A x \in bad : x <= Max(bad)
  BY <1>1, MaxFacts
<1> DEFINE m == Max(bad)
<1>3. m \in bad /\ \A x \in bad : x <= m
  BY <1>2
<1> HIDE DEF m
<1>4. \A x \in bad : ~(m < x)
  BY <1>1, <1>3
<1> QED BY <1>3, <1>4

\* A forest whose nodes live with their parents.
Forest(n, live) ==
    /\ Rooted(n) /\ live \in SUBSET DOMAIN n
    /\ \A i \in live : n[i].pageStart <= n[i].pageEnd
    /\ \A i \in live : n[i].parent # Root => n[i].parent \in live

LEMMA AcceptedForest ==
    ASSUME NEW n, Rooted(n), NEW live \in SUBSET DOMAIN n, Accepted(n, live)
    PROVE  Forest(n, live)
  BY DEF Accepted, Valid, Forest

LEMMA SpanFacts ==
    ASSUME NEW n, NEW live, Forest(n, live), NEW i \in live
    PROVE  Span(n[i]) \in Nat /\ Residual(n, live, i) \in Nat
<1>1. n[i].pageStart \in Nat /\ n[i].pageEnd \in Nat /\ n[i].pageStart <= n[i].pageEnd
  BY NodeFields DEF Forest, Rooted
<1>2. Span(n[i]) \in Nat
  BY <1>1 DEF Span
<1>3. IsFiniteSet(Pages(n[i]))
  <2>1. n[i].pageStart \in Int /\ n[i].pageEnd \in Int
    BY <1>1
  <2>2. IsFiniteSet(n[i].pageStart..n[i].pageEnd)
    BY <2>1, FS_Interval
  <2> QED BY <2>2 DEF Pages
<1> DEFINE left == Pages(n[i]) \ UNION {Pages(n[j]) : j \in Children(n, live, i)}
<1>4. left \subseteq Pages(n[i]) /\ Residual(n, live, i) = Cardinality(left)
  BY DEF Residual
<1> HIDE DEF left
<1>5. IsFiniteSet(left)
  BY <1>3, <1>4, FS_Subset
<1> QED BY <1>2, <1>4, <1>5, FS_CardinalityType

LEMMA ChildFacts ==
    ASSUME NEW n, NEW live, Forest(n, live), NEW i \in live, NEW c \in Children(n, live, i)
    PROVE  /\ c \in live /\ i \in DOMAIN n /\ c \in DOMAIN n /\ n[c].parent = i /\ i # Root
           /\ i \in Nat /\ c \in Nat /\ i < c
           /\ Ancestors(n)[c] = {i} \cup Ancestors(n)[i]
<1>1. Rooted(n) /\ live \in SUBSET DOMAIN n /\ DOMAIN n = 1..Len(n) /\ Len(n) \in Nat
  BY DEF Forest, Rooted
<1>2. c \in live /\ n[c].parent = i
  BY DEF Children
<1>3. i \in Nat /\ c \in Nat /\ i # Root /\ i \in DOMAIN n /\ c \in DOMAIN n
  BY <1>1, <1>2 DEF Root
<1>4. i < c
  BY <1>1, <1>2, <1>3 DEF Rooted
<1>5. Ancestors(n)[c] = IF n[c].parent = Root THEN {}
                        ELSE {n[c].parent} \cup Ancestors(n)[n[c].parent]
  BY <1>1, <1>3, AncestorsStep
<1> QED BY <1>2, <1>3, <1>4, <1>5

\* What lives in the subtree of a node: itself, and what is below its children.
Below(n, live, i) == Subtree(n, i) \cap live

LEMMA BelowFacts ==
    ASSUME NEW n, NEW live, Forest(n, live), NEW i \in live
    PROVE  /\ i \in Below(n, live, i) /\ Below(n, live, i) \subseteq live
           /\ Ancestors(n)[i] \cap Below(n, live, i) = {}
           /\ \A j \in Below(n, live, i) : j # i =>
                \E c \in Children(n, live, i) : j \in Below(n, live, c)
           /\ \A c \in Children(n, live, i) : \A j \in Below(n, live, c) :
                /\ j \in Below(n, live, i)
                /\ Ancestors(n)[j] \cap Below(n, live, i)
                     = {i} \cup (Ancestors(n)[j] \cap Below(n, live, c))
                /\ i \notin Ancestors(n)[j] \cap Below(n, live, c)
<1> DEFINE Anc(j) == Ancestors(n)[j]
<1>1. Rooted(n) /\ live \in SUBSET DOMAIN n /\ DOMAIN n = 1..Len(n) /\ Len(n) \in Nat
      /\ live \in SUBSET Nat /\ DOMAIN n \in SUBSET Nat
  BY DEF Forest, Rooted
<1>2. \A k \in live : \A j : j \in Below(n, live, k) <=> j \in live /\ (j = k \/ k \in Anc(j))
  BY <1>1 DEF Below, Subtree
<1>3. \A j \in DOMAIN n : \A a \in Anc(j) : a \in DOMAIN n /\ a < j
  BY <1>1, AncestorsBefore
<1>4. Anc(i) \cap Below(n, live, i) = {}
  <2> SUFFICES ASSUME NEW a \in Anc(i), a = i \/ i \in Anc(a) PROVE FALSE
    BY <1>2
  <2>1. a \in Nat /\ i \in Nat /\ a < i /\ a \in DOMAIN n
    BY <1>1, <1>3
  <2>2. i \in Anc(a) => i < a
    BY <1>3, <2>1
  <2> HIDE DEF Anc
  <2> QED BY <2>1, <2>2
<1>5. ASSUME NEW j \in Below(n, live, i), j # i
      PROVE  \E c \in Children(n, live, i) : j \in Below(n, live, c)
  <2> DEFINE Reached(k) == \E c \in Children(n, live, i) : k \in Below(n, live, c)
             bad == {k \in live : i \in Anc(k) /\ ~Reached(k)}
  <2>1. ASSUME bad # {} PROVE FALSE
    <3>1. bad \in SUBSET Nat
      BY <1>1
    <3>2. PICK k \in bad : \A x \in bad : ~(x < k)
      BY <2>1, <3>1, LeastOne
    <3>3. k \in live /\ k \in DOMAIN n /\ i \in Anc(k) /\ ~Reached(k)
      BY <1>1, <3>2
    <3>4. Anc(k) = IF n[k].parent = Root THEN {} ELSE {n[k].parent} \cup Anc(n[k].parent)
      BY <1>1, <3>3, AncestorsStep
    <3> DEFINE p == n[k].parent
    <3>5. /\ p # Root /\ p \in live /\ p < k /\ p \in Anc(k)
          /\ i = p \/ i \in Anc(p)
      BY <1>1, <3>3, <3>4 DEF Forest, Rooted
    <3>6. CASE i = p
      <4>1. k \in Children(n, live, i)
        BY <3>3, <3>6 DEF Children
      <4>2. k \in Below(n, live, k)
        BY <1>2, <3>3
      <4> QED BY <3>3, <4>1, <4>2
    <3>7. CASE i # p
      <4>1. p \notin bad
        BY <3>2, <3>5
      <4>2. PICK c \in Children(n, live, i) : p \in Below(n, live, c)
        BY <3>5, <3>7, <4>1
      <4>3. c \in live
        BY DEF Children
      <4>4. p = c \/ c \in Anc(p)
        BY <1>2, <4>2, <4>3
      <4>5. c \in Anc(k)
        <5>1. Anc(p) \subseteq Anc(k)
          BY <1>1, <3>3, <3>5, AncestorsTransitive
        <5> QED BY <3>5, <4>4, <5>1
      <4>6. k \in Below(n, live, c)
        BY <1>2, <3>3, <4>3, <4>5
      <4> QED BY <3>3, <4>6
    <3> QED BY <3>6, <3>7
  <2>2. j \in live /\ i \in Anc(j)
    BY <1>2, <1>5
  <2> QED BY <2>1, <2>2
<1>6. ASSUME NEW c \in Children(n, live, i), NEW j \in Below(n, live, c)
      PROVE  /\ j \in Below(n, live, i)
             /\ Anc(j) \cap Below(n, live, i) = {i} \cup (Anc(j) \cap Below(n, live, c))
             /\ i \notin Anc(j) \cap Below(n, live, c)
  <2>1. /\ c \in live /\ c \in DOMAIN n /\ i \in DOMAIN n /\ i < c /\ i \in Nat /\ c \in Nat
        /\ Anc(c) = {i} \cup Anc(i)
    BY ChildFacts
  <2>2. j \in live /\ j \in DOMAIN n /\ (j = c \/ c \in Anc(j))
    BY <1>1, <1>2, <2>1
  <2>3. Anc(c) \subseteq Anc(j)
    BY <1>1, <2>2, AncestorsTransitive
  <2>4. i \in Anc(j)
    BY <2>1, <2>3
  <2>5. i \notin Below(n, live, c)
    <3> SUFFICES ASSUME i = c \/ c \in Anc(i) PROVE FALSE
      BY <1>2, <2>1
    <3>1. c \in Anc(i) => c < i
      BY <1>3, <2>1
    <3> HIDE DEF Anc
    <3> QED BY <2>1, <3>1
  <2>6. ASSUME NEW a \in Anc(j), a \in Below(n, live, i), a # i PROVE a \in Below(n, live, c)
    <3>1. a \in live /\ i \in Anc(a) /\ a \in DOMAIN n
      BY <1>1, <1>2, <2>6
    <3>2. a \notin Anc(c)
      <4>1. a \notin Anc(i)
        BY <1>4, <2>6
      <4> QED BY <2>1, <2>6, <4>1
    <3>3. a = c \/ c \in Anc(a)
      <4>1. CASE j = c
        BY <2>6, <3>2, <4>1
      <4>2. CASE c \in Anc(j)
        <5>1. a = c \/ a \in Anc(c) \/ c \in Anc(a)
          BY <1>1, <2>2, <2>6, <4>2, AncestorsLinear
        <5> QED BY <3>2, <5>1
      <4> QED BY <2>2, <4>1, <4>2
    <3> QED BY <1>2, <2>1, <3>1, <3>3
  <2>7. Below(n, live, c) \subseteq Below(n, live, i)
    <3> SUFFICES ASSUME NEW a \in Below(n, live, c) PROVE a \in Below(n, live, i)
      OBVIOUS
    <3>1. a \in live /\ a \in DOMAIN n /\ (a = c \/ c \in Anc(a))
      BY <1>1, <1>2, <2>1
    <3>2. Anc(c) \subseteq Anc(a)
      BY <1>1, <3>1, AncestorsTransitive
    <3>3. i \in Anc(a)
      BY <2>1, <3>2
    <3> QED BY <1>2, <3>1, <3>3
  <2>8. i \in Below(n, live, i)
    BY <1>2
  <2> HIDE DEF Anc
  <2> QED BY <2>4, <2>5, <2>6, <2>7, <2>8
<1>7. i \in Below(n, live, i) /\ Below(n, live, i) \subseteq live
  BY <1>2
<1> QED BY <1>4, <1>5, <1>6, <1>7

\* One more than the largest of the costs of the children and the pages left out.
Over(n, live, f, i, e) ==
    /\ e \in Nat
    /\ \A c \in Children(n, live, i) : 1 + f[c] <= e
    /\ 1 + Residual(n, live, i) <= e
    /\ (\E c \in Children(n, live, i) : e = 1 + f[c]) \/ e = 1 + Residual(n, live, i)

\* Cheaper children make a cheaper parent.
LEMMA OverMonotone ==
    ASSUME NEW n, NEW live, NEW f, NEW i, NEW e, Over(n, live, f, i, e),
           NEW m, NEW left, NEW g, NEW d, Over(m, left, g, i, d),
           Children(m, left, i) \subseteq Children(n, live, i),
           Residual(m, left, i) = Residual(n, live, i),
           \A c \in Children(n, live, i) : f[c] \in Nat,
           \A c \in Children(m, left, i) : g[c] \in Nat /\ g[c] <= f[c]
    PROVE  d <= e
<1>1. CASE \E c \in Children(m, left, i) : d = 1 + g[c]
  <2>1. PICK c \in Children(m, left, i) : d = 1 + g[c]
    BY <1>1
  <2>2. c \in Children(n, live, i) /\ g[c] \in Nat /\ f[c] \in Nat /\ g[c] <= f[c]
    OBVIOUS
  <2>3. 1 + f[c] <= e /\ e \in Nat
    BY <2>2 DEF Over
  <2> QED BY <2>1, <2>2, <2>3
<1>2. CASE d = 1 + Residual(m, left, i)
  BY <1>2 DEF Over
<1> QED BY <1>1, <1>2 DEF Over

\* The frontier cost of a leaf is its pages; that of another node follows from its
\* children's.
Frontier(n, live) == [i \in live |-> FrontierCost(n, live, i)]

\* The pages to read at a node at the end of the way.
AtEnd(n, live, j) ==
    IF Children(n, live, j) = {} THEN Span(n[j])
    ELSE IF Residual(n, live, j) > 0 THEN 1 + Residual(n, live, j) ELSE 0
Way(n, live, i, j) ==
    Cardinality(Ancestors(n)[j] \cap Below(n, live, i)) + AtEnd(n, live, j)

LEMMA FrontierIs ==
    ASSUME NEW n, NEW live, Forest(n, live), NEW i \in live
    PROVE  /\ FrontierCost(n, live, i) \in Nat
           /\ \A j \in Below(n, live, i) :
                /\ Way(n, live, i, j) \in Nat /\ AtEnd(n, live, j) \in Nat
                /\ Way(n, live, i, j) <= FrontierCost(n, live, i)
           /\ \E j \in Below(n, live, i) : FrontierCost(n, live, i) = Way(n, live, i, j)
<1>1. Rooted(n) /\ live \in SUBSET DOMAIN n /\ DOMAIN n = 1..Len(n) /\ Len(n) \in Nat
  BY DEF Forest, Rooted
<1>2. i \in Below(n, live, i) /\ Below(n, live, i) \subseteq live
  BY BelowFacts
<1>3. ASSUME NEW j \in Below(n, live, i)
      PROVE  Way(n, live, i, j) \in Nat /\ AtEnd(n, live, j) \in Nat
  <2>1. j \in live
    BY <1>2
  <2>2. Span(n[j]) \in Nat /\ Residual(n, live, j) \in Nat
    BY <2>1, SpanFacts
  <2>3. AtEnd(n, live, j) \in Nat
    BY <2>2 DEF AtEnd
  <2>4. IsFiniteSet(1..Len(n)) /\ Below(n, live, i) \subseteq 1..Len(n)
    BY <1>1, <1>2, FS_Interval
  <2>5. IsFiniteSet(Ancestors(n)[j] \cap Below(n, live, i))
    BY <2>4, FS_Subset
  <2>6. Cardinality(Ancestors(n)[j] \cap Below(n, live, i)) \in Nat
    BY <2>5, FS_CardinalityType
  <2> QED BY <2>3, <2>6 DEF Way
<1> DEFINE f == [j \in 1..Len(n) |-> Way(n, live, i, j)]
           S == Below(n, live, i)
           ways == {Way(n, live, i, j) : j \in S}
<1>4. S \in SUBSET (1..Len(n)) /\ \A j \in S : f[j] = Way(n, live, i, j)
  BY <1>1, <1>2
<1>5. \A j \in S : f[j] \in Nat
  BY <1>3, <1>4
<1>6. PICK b \in Nat : \A j \in S : f[j] <= b
  <2> HIDE DEF f, S
  <2> QED BY <1>1, <1>4, <1>5, Bounded
<1>7. ways \in SUBSET Nat /\ ways # {} /\ \A x \in ways : x <= b
  BY <1>2, <1>3, <1>4, <1>6
<1>8. FrontierCost(n, live, i) = Max(ways)
  BY DEF FrontierCost, Way, AtEnd, Below
<1> HIDE DEF ways
<1>9. Max(ways) \in ways /\ \A x \in ways : x <= Max(ways)
  BY <1>7, MaxFacts
<1>10. FrontierCost(n, live, i) \in Nat
  BY <1>7, <1>8, <1>9
<1>11. \E j \in S : FrontierCost(n, live, i) = Way(n, live, i, j)
  BY <1>8, <1>9 DEF ways
<1>12. \A j \in S : Way(n, live, i, j) <= FrontierCost(n, live, i)
  BY <1>8, <1>9 DEF ways
<1> QED BY <1>3, <1>10, <1>11, <1>12

LEMMA FrontierStep ==
    ASSUME NEW n, NEW live, Forest(n, live), NEW i \in live
    PROVE  /\ Frontier(n, live)[i] = FrontierCost(n, live, i)
           /\ Frontier(n, live)[i] \in Nat
           /\ Children(n, live, i) = {} => Frontier(n, live)[i] = Span(n[i])
           /\ Children(n, live, i) # {} =>
                Over(n, live, Frontier(n, live), i, Frontier(n, live)[i])
<1> DEFINE F(k) == FrontierCost(n, live, k)
<1>1. \A k \in live : Frontier(n, live)[k] = F(k)
  BY DEF Frontier
<1>2. /\ F(i) \in Nat
      /\ \A j \in Below(n, live, i) : /\ Way(n, live, i, j) \in Nat /\ AtEnd(n, live, j) \in Nat
                                      /\ Way(n, live, i, j) <= F(i)
      /\ \E j \in Below(n, live, i) : F(i) = Way(n, live, i, j)
  BY FrontierIs
\* The way to the node itself has no step.
<1>3. i \in Below(n, live, i) /\ Way(n, live, i, i) = AtEnd(n, live, i)
  <2>1. i \in Below(n, live, i) /\ Ancestors(n)[i] \cap Below(n, live, i) = {}
    BY BelowFacts
  <2>2. Way(n, live, i, i) = 0 + AtEnd(n, live, i)
    BY <2>1, FS_EmptySet DEF Way
  <2> QED BY <1>2, <2>1, <2>2
\* The way to one below a child has a step more than from the child.
<1>4. ASSUME NEW c \in Children(n, live, i)
      PROVE  /\ c \in live /\ F(c) \in Nat
             /\ \A j \in Below(n, live, c) :
                  /\ j \in Below(n, live, i) /\ Way(n, live, c, j) \in Nat
                  /\ Way(n, live, i, j) = 1 + Way(n, live, c, j)
                  /\ Way(n, live, c, j) <= F(c)
             /\ \E j \in Below(n, live, c) : F(c) = Way(n, live, c, j)
  <2>1. c \in live
    BY ChildFacts
  <2>2. /\ F(c) \in Nat
        /\ \A j \in Below(n, live, c) :
             /\ Way(n, live, c, j) \in Nat /\ AtEnd(n, live, j) \in Nat
             /\ Way(n, live, c, j) <= F(c)
        /\ \E j \in Below(n, live, c) : F(c) = Way(n, live, c, j)
    BY <2>1, FrontierIs
  <2>3. ASSUME NEW j \in Below(n, live, c)
        PROVE  j \in Below(n, live, i) /\ Way(n, live, i, j) = 1 + Way(n, live, c, j)
    <3> DEFINE X == Ancestors(n)[j] \cap Below(n, live, c)
    <3>1. /\ j \in Below(n, live, i) /\ i \notin X
          /\ Ancestors(n)[j] \cap Below(n, live, i) = {i} \cup X
      BY BelowFacts
    <3>2. IsFiniteSet(X)
      <4>1. /\ live \subseteq 1..Len(n) /\ Len(n) \in Nat
        BY DEF Forest, Rooted
      <4>2. X \subseteq 1..Len(n)
        BY <4>1 DEF Below
      <4>3. IsFiniteSet(1..Len(n))
        BY <4>1, FS_Interval
      <4> HIDE DEF X
      <4> QED BY <4>2, <4>3, FS_Subset
    <3>3. Way(n, live, i, j) = Cardinality({i} \cup X) + AtEnd(n, live, j)
          /\ Way(n, live, c, j) = Cardinality(X) + AtEnd(n, live, j)
      BY <3>1 DEF Way
    <3> HIDE DEF X
    <3>4. Cardinality(X \cup {i}) = Cardinality(X) + 1 /\ Cardinality(X) \in Nat
      BY <3>1, <3>2, FS_AddElement, FS_CardinalityType
    <3>5. X \cup {i} = {i} \cup X
      OBVIOUS
    <3>6. AtEnd(n, live, j) \in Nat
      BY <2>2
    <3> DEFINE a == Cardinality(X)
               e == AtEnd(n, live, j)
    <3>7. Cardinality({i} \cup X) = a + 1 /\ a \in Nat /\ e \in Nat
      BY <3>4, <3>5, <3>6
    <3>8. Way(n, live, i, j) = (a + 1) + e /\ Way(n, live, c, j) = a + e
      BY <3>3, <3>7
    <3> HIDE DEF a, e
    <3>9. Way(n, live, i, j) = 1 + Way(n, live, c, j)
      BY <3>7, <3>8
    <3> QED BY <3>1, <3>9
  <2> QED BY <2>1, <2>2, <2>3
<1>5. ASSUME Children(n, live, i) = {} PROVE F(i) = Span(n[i])
  <2>1. Below(n, live, i) = {i}
    BY <1>5, BelowFacts
  <2> QED BY <1>2, <1>3, <1>5, <2>1 DEF AtEnd
<1>6. ASSUME Children(n, live, i) # {} PROVE Over(n, live, Frontier(n, live), i, F(i))
  <2>1. \A c \in Children(n, live, i) : 1 + F(c) <= F(i)
    <3> SUFFICES ASSUME NEW c \in Children(n, live, i) PROVE 1 + F(c) <= F(i)
      OBVIOUS
    <3>1. PICK j \in Below(n, live, c) : F(c) = Way(n, live, c, j)
      BY <1>4
    <3>2. j \in Below(n, live, i) /\ Way(n, live, i, j) = 1 + Way(n, live, c, j)
      BY <1>4
    <3>3. Way(n, live, i, j) <= F(i)
      BY <1>2, <3>2
    <3> HIDE DEF F
    <3> QED BY <3>1, <3>2, <3>3
  <2>2. Residual(n, live, i) \in Nat
    BY SpanFacts
  <2>3. 1 <= F(i)
    <3>1. PICK c \in Children(n, live, i) : TRUE
      BY <1>6
    <3>2. F(c) \in Nat /\ 1 + F(c) <= F(i)
      BY <1>4, <2>1
    <3> HIDE DEF F
    <3> QED BY <1>2, <3>2
  <2>4. 1 + Residual(n, live, i) <= F(i)
    <3>1. CASE Residual(n, live, i) > 0
      <4>1. Way(n, live, i, i) = 1 + Residual(n, live, i)
        BY <1>3, <1>6, <3>1 DEF AtEnd
      <4> QED BY <1>2, <1>3, <4>1
    <3>2. CASE ~(Residual(n, live, i) > 0)
      <4>1. Residual(n, live, i) = 0
        BY <2>2, <3>2
      <4> QED BY <2>3, <4>1
    <3> QED BY <3>1, <3>2
  <2>5. (\E c \in Children(n, live, i) : F(i) = 1 + F(c)) \/ F(i) = 1 + Residual(n, live, i)
    <3>1. PICK j \in Below(n, live, i) : F(i) = Way(n, live, i, j)
      BY <1>2
    <3>2. CASE j = i
      <4>1. F(i) = AtEnd(n, live, i)
        BY <1>3, <3>1, <3>2
      <4>2. CASE Residual(n, live, i) > 0
        BY <1>6, <4>1, <4>2 DEF AtEnd
      <4>3. CASE ~(Residual(n, live, i) > 0)
        <5>1. F(i) = 0
          BY <1>6, <4>1, <4>3 DEF AtEnd
        <5> HIDE DEF F
        <5> QED BY <2>3, <5>1
      <4> QED BY <4>2, <4>3
    <3>3. CASE j # i
      <4>1. PICK c \in Children(n, live, i) : j \in Below(n, live, c)
        BY <3>3, BelowFacts
      <4>2. /\ Way(n, live, i, j) = 1 + Way(n, live, c, j) /\ Way(n, live, c, j) <= F(c)
            /\ Way(n, live, c, j) \in Nat /\ F(c) \in Nat
        BY <1>4, <4>1
      <4>3. 1 + F(c) <= F(i)
        BY <2>1
      <4> HIDE DEF F
      <4>4. F(i) = 1 + F(c)
        BY <1>2, <3>1, <4>2, <4>3
      <4> QED BY <4>4
    <3> QED BY <3>2, <3>3
  <2>6. \A c \in Children(n, live, i) : Frontier(n, live)[c] = F(c)
    BY <1>1, <1>4
  <2> HIDE DEF F
  <2> QED BY <1>2, <2>1, <2>4, <2>5, <2>6 DEF Over
<1> QED BY <1>1, <1>2, <1>5, <1>6

\* The cost of a node after its subtree is collapsed where it pays.
Price(n, live, f, i) ==
    IF Children(n, live, i) = {} THEN Span(n[i])
    ELSE Min({Span(n[i]), Expanded(n, live, f, i)})

\* The costs of the last h nodes.
Priced(f, n, live, h) ==
    f = [i \in {j \in live : Len(n) < j + h} |-> Price(n, live, f, i)]

\* A price depends on those of the children.
LEMMA PriceBelow ==
    ASSUME NEW n, NEW live, NEW i, NEW f, NEW g,
           \A c \in Children(n, live, i) : f[c] = g[c]
    PROVE  Price(n, live, f, i) = Price(n, live, g, i)
<1>1. {f[c] : c \in Children(n, live, i)} = {g[c] : c \in Children(n, live, i)}
  OBVIOUS
<1>2. Expanded(n, live, f, i) = Expanded(n, live, g, i)
  BY <1>1 DEF Expanded
<1> QED BY <1>2 DEF Price

LEMMA PricedExists ==
    ASSUME NEW n, NEW live, Forest(n, live)
    PROVE  \A h \in Nat : h <= Len(n) => \E f : Priced(f, n, live, h)
<1>1. /\ Len(n) \in Nat /\ live \in SUBSET (1..Len(n)) /\ live \in SUBSET Nat
      /\ \A j \in live : ~(Len(n) < j)
  <2>1. Len(n) \in Nat /\ live \in SUBSET (1..Len(n))
    BY DEF Forest, Rooted
  <2>2. \A j \in live : j \in Nat /\ j <= Len(n)
    BY <2>1
  <2>3. \A j \in live : ~(Len(n) < j)
    BY <2>1, <2>2
  <2> QED BY <2>1, <2>2, <2>3
<1> DEFINE bad == {h \in Nat : h <= Len(n) /\ ~\E f : Priced(f, n, live, h)}
           tail(h) == {j \in live : Len(n) < j + h}
<1>2. ASSUME bad # {} PROVE FALSE
  <2>1. PICK h \in bad : \A k \in bad : ~(k < h)
    <3>1. bad \in SUBSET Nat
      OBVIOUS
    <3> HIDE DEF bad
    <3> QED BY <1>2, <3>1, LeastOne
  <2>2. h \in Nat /\ h <= Len(n) /\ ~\E f : Priced(f, n, live, h)
    BY <2>1
  <2>3. CASE h = 0
    <3>1. tail(h) = {}
      <4>1. \A j \in live : j + h = j
        BY <1>1, <2>3
      <4> QED BY <1>1, <4>1
    <3> DEFINE e == [i \in {} |-> 0]
    <3>2. Priced(e, n, live, h)
      BY <3>1 DEF Priced
    <3> QED BY <2>2, <3>2
  <2>4. CASE h # 0
    <3>1. h - 1 \in Nat /\ h - 1 <= Len(n) /\ h - 1 < h
      BY <1>1, <2>2, <2>4
    <3>2. PICK f : Priced(f, n, live, h - 1)
      BY <2>1, <3>1
    <3> DEFINE g == [i \in tail(h) |-> IF i \in tail(h - 1) THEN f[i] ELSE Price(n, live, f, i)]
    <3>3. \A i \in tail(h - 1) : i \in tail(h) /\ f[i] = Price(n, live, f, i)
      <4>1. \A i \in tail(h - 1) : f[i] = Price(n, live, f, i)
        BY <3>2 DEF Priced
      <4>2. \A i \in tail(h - 1) : i \in tail(h)
        BY <1>1, <2>2, <3>1
      <4> QED BY <4>1, <4>2
    <3>4. ASSUME NEW i \in tail(h) PROVE g[i] = Price(n, live, g, i)
      <4>1. ASSUME NEW c \in Children(n, live, i) PROVE f[c] = g[c]
        <5>1. i \in live /\ c \in live /\ i < c /\ i \in Nat /\ c \in Nat /\ Len(n) < i + h
          BY ChildFacts
        <5>2. c \in tail(h - 1)
          BY <1>1, <2>2, <5>1
        <5> QED BY <3>3, <5>2
      <4>2. Price(n, live, f, i) = Price(n, live, g, i)
        <5> HIDE DEF g
        <5> QED BY <4>1, PriceBelow
      <4>3. g[i] = Price(n, live, f, i)
        BY <3>3
      <4> QED BY <4>2, <4>3
    <3>5. Priced(g, n, live, h)
      <4>1. g = [i \in tail(h) |-> g[i]]
        OBVIOUS
      <4> HIDE DEF g
      <4> QED BY <3>4, <4>1 DEF Priced
    <3> QED BY <2>2, <3>5
  <2> QED BY <2>3, <2>4
<1> QED BY <1>2

LEMMA CostIs ==
    ASSUME NEW n, NEW live, Forest(n, live), NEW i \in live
    PROVE  Cost(n, live)[i] = Price(n, live, Cost(n, live), i)
<1>1. Len(n) \in Nat /\ live \in SUBSET (1..Len(n))
  BY DEF Forest, Rooted
<1> DEFINE cost == CHOOSE f : f = [j \in live |->
                       IF Children(n, live, j) = {} THEN Span(n[j])
                       ELSE Min({Span(n[j]), Expanded(n, live, f, j)})]
<1>2. Cost(n, live) = cost
  BY DEF Cost
<1>3. \E f : Priced(f, n, live, Len(n))
  BY <1>1, PricedExists
<1>4. {j \in live : Len(n) < j + Len(n)} = live
  <2> DEFINE k == Len(n)
  <2>1. k \in Nat /\ \A j \in live : j \in Nat /\ 1 <= j
    BY <1>1
  <2> HIDE DEF k
  <2>2. \A j \in live : k < j + k
    BY <2>1
  <2> QED BY <2>2 DEF k
<1>5. \E f : f = [j \in live |-> IF Children(n, live, j) = {} THEN Span(n[j])
                                 ELSE Min({Span(n[j]), Expanded(n, live, f, j)})]
  BY <1>3, <1>4, Zenon DEF Priced, Price
<1>6. cost = [j \in live |-> IF Children(n, live, j) = {} THEN Span(n[j])
                             ELSE Min({Span(n[j]), Expanded(n, live, cost, j)})]
  BY <1>5, Zenon
<1> HIDE DEF cost
<1>7. cost[i] = IF Children(n, live, i) = {} THEN Span(n[i])
                ELSE Min({Span(n[i]), Expanded(n, live, cost, i)})
  BY <1>6, Zenon
<1> QED BY <1>2, <1>7 DEF Price

LEMMA ExpandedFacts ==
    ASSUME NEW n, NEW live, Forest(n, live), NEW i \in live,
           NEW f, \A c \in Children(n, live, i) : f[c] \in Nat
    PROVE  Over(n, live, f, i, Expanded(n, live, f, i))
<1> DEFINE below == Children(n, live, i)
           left == Residual(n, live, i)
           costs == {f[c] : c \in below} \cup {left}
<1>1. left \in Nat
  BY SpanFacts
<1>2. PICK b \in Nat : \A c \in below : f[c] <= b
  <2>1. /\ Len(n) \in Nat /\ below \in SUBSET (1..Len(n))
        /\ \A c \in below : f[c] \in Nat
    BY DEF Forest, Rooted, Children
  <2> HIDE DEF below
  <2> QED BY <2>1, Bounded
<1> HIDE DEF left, below
<1>3. costs \in SUBSET Nat /\ costs # {} /\ \A x \in costs : x <= b + left
  <2>1. \A c \in below : f[c] \in Nat /\ f[c] <= b + left
    <3> SUFFICES ASSUME NEW c \in below PROVE f[c] \in Nat /\ f[c] <= b + left
      OBVIOUS
    <3>1. f[c] \in Nat /\ f[c] <= b
      BY <1>2 DEF below
    <3> QED BY <1>1, <3>1
  <2>2. left <= b + left
    BY <1>1
  <2> QED BY <1>1, <2>1, <2>2
<1>4. Max(costs) \in costs /\ \A x \in costs : x <= Max(costs)
  <2>1. b + left \in Nat
    BY <1>1
  <2> HIDE DEF costs
  <2> QED BY <1>3, <2>1, MaxFacts
<1> DEFINE m == Max(costs)
<1>5. Expanded(n, live, f, i) = 1 + m
  BY DEF Expanded, below, left
<1>6. m \in Nat /\ m \in costs /\ \A x \in costs : x <= m
  BY <1>3, <1>4
<1> HIDE DEF m
<1>7. /\ \A c \in below : f[c] \in Nat /\ f[c] <= m
      /\ left <= m
      /\ (\E c \in below : m = f[c]) \/ m = left
  BY <1>6 DEF below
<1>8. /\ \A c \in below : 1 + f[c] <= 1 + m
      /\ 1 + left <= 1 + m
      /\ (\E c \in below : 1 + m = 1 + f[c]) \/ 1 + m = 1 + left
  BY <1>1, <1>6, <1>7
<1> QED BY <1>5, <1>6, <1>8 DEF Over, below, left

LEMMA SmallerOf ==
    ASSUME NEW a \in Nat, NEW b \in Nat
    PROVE  /\ Min({a, b}) \in Nat /\ Min({a, b}) <= b
           /\ a <= b => Min({a, b}) = a
           /\ ~(a <= b) => Min({a, b}) = b
<1> DEFINE m == Min({a, b})
<1>1. m \in {a, b} /\ m <= a /\ m <= b
  <2>1. {a, b} \in SUBSET Nat /\ {a, b} # {}
    OBVIOUS
  <2>2. Min({a, b}) \in {a, b} /\ \A x \in {a, b} : Min({a, b}) <= x
    BY <2>1, MinFacts
  <2> QED BY <2>2
<1> HIDE DEF m
<1>2. /\ m \in Nat /\ m <= b /\ (a <= b => m = a) /\ (~(a <= b) => m = b)
  BY <1>1
<1> QED BY <1>2 DEF m

LEMMA CostStep ==
    ASSUME NEW n, NEW live, Forest(n, live), NEW cost, cost = Cost(n, live)
    PROVE  \A i \in live :
             /\ cost[i] \in Nat
             /\ Children(n, live, i) = {} => cost[i] = Span(n[i])
             /\ Children(n, live, i) # {} =>
                  LET e == Expanded(n, live, cost, i) IN
                  /\ Over(n, live, cost, i, e) /\ cost[i] <= e
                  /\ Span(n[i]) <= e => cost[i] = Span(n[i])
                  /\ ~(Span(n[i]) <= e) => cost[i] = e
<1>1. Len(n) \in Nat /\ live \in SUBSET (1..Len(n)) /\ live \in SUBSET Nat
  BY DEF Forest, Rooted
<1>2. \A i \in live : cost[i] = Price(n, live, cost, i) /\ Span(n[i]) \in Nat
  BY CostIs, SpanFacts
<1> HIDE DEF Cost
<1>3. ASSUME NEW i \in live, Children(n, live, i) # {},
             \A c \in Children(n, live, i) : cost[c] \in Nat
      PROVE  LET e == Expanded(n, live, cost, i) IN
             /\ cost[i] \in Nat
             /\ Over(n, live, cost, i, e) /\ cost[i] <= e
             /\ Span(n[i]) <= e => cost[i] = Span(n[i])
             /\ ~(Span(n[i]) <= e) => cost[i] = e
  <2> DEFINE e == Expanded(n, live, cost, i)
             s == Span(n[i])
  <2>1. Over(n, live, cost, i, e)
    BY <1>3, ExpandedFacts
  <2>2. e \in Nat /\ s \in Nat
    BY <1>2, <2>1 DEF Over
  <2>3. cost[i] = Min({s, e})
    BY <1>2, <1>3 DEF Price
  <2> HIDE DEF e, s
  <2>4. cost[i] \in Nat /\ cost[i] <= e /\ (s <= e => cost[i] = s) /\ (~(s <= e) => cost[i] = e)
    BY <2>2, <2>3, SmallerOf
  <2> QED BY <2>1, <2>4 DEF e, s
<1>4. \A i \in live : Children(n, live, i) = {} => cost[i] = Span(n[i]) /\ cost[i] \in Nat
  BY <1>2 DEF Price
<1> DEFINE bad == {i \in live : cost[i] \notin Nat}
<1>5. ASSUME bad # {} PROVE FALSE
  <2>1. PICK i \in bad : \A j \in bad : ~(i < j)
    <3>1. bad \in SUBSET (1..Len(n))
      BY <1>1
    <3> HIDE DEF bad
    <3> QED BY <1>1, <1>5, <3>1, LastOne
  <2>2. i \in live /\ cost[i] \notin Nat
    BY <2>1
  <2>3. \A c \in Children(n, live, i) : c \in live /\ i < c
    BY <2>2, ChildFacts
  <2>4. \A c \in Children(n, live, i) : cost[c] \in Nat
    BY <2>1, <2>3
  <2> QED BY <1>3, <1>4, <2>2, <2>4
<1>6. \A i \in live : \A c \in Children(n, live, i) : cost[c] \in Nat
  BY <1>5 DEF Children
<1> QED BY <1>3, <1>4, <1>6

\* The passes leave parents and pages as they are.
Alike(m, n) ==
    /\ DOMAIN m = DOMAIN n
    /\ \A i \in DOMAIN n : /\ m[i].parent = n[i].parent
                           /\ m[i].pageStart = n[i].pageStart /\ m[i].pageEnd = n[i].pageEnd

\* The first leaf of a group stands for the others.
LEMMA SiblingsCheaper ==
    ASSUME Forest(nodes, alive),
           NEW live, live = alive \ (Leaves \ Keepers),
           NEW m, Alike(m, nodes), Forest(m, live)
    PROVE  \A i \in live : FrontierCost(m, live, i) <= FrontierCost(nodes, alive, i)
<1>1. /\ Rooted(nodes) /\ alive \in SUBSET DOMAIN nodes /\ live \subseteq alive
      /\ Len(nodes) \in Nat /\ live \subseteq 1..Len(nodes)
  BY DEF Forest, Rooted
<1>2. /\ \A i \in alive : Span(m[i]) = Span(nodes[i]) /\ Pages(m[i]) = Pages(nodes[i])
      /\ \A i : Children(m, live, i) = {c \in live : nodes[c].parent = i}
      /\ \A i : Children(m, live, i) \subseteq Children(nodes, alive, i)
  <2>1. \A i \in alive : /\ m[i].parent = nodes[i].parent
                          /\ m[i].pageStart = nodes[i].pageStart
                          /\ m[i].pageEnd = nodes[i].pageEnd
    BY <1>1 DEF Alike
  <2>2. \A i \in alive : Span(m[i]) = Span(nodes[i]) /\ Pages(m[i]) = Pages(nodes[i])
    BY <2>1 DEF Span, Pages
  <2>3. \A i : Children(m, live, i) = {c \in live : nodes[c].parent = i}
    BY <1>1, <2>1 DEF Children
  <2>4. \A i : Children(m, live, i) \subseteq Children(nodes, alive, i)
    <3>1. \A i : Children(nodes, alive, i) = {c \in alive : nodes[c].parent = i}
      BY DEF Children
    <3> QED BY <1>1, <2>3, <3>1
  <2> QED BY <2>2, <2>3, <2>4
<1>3. ASSUME NEW i \in live, NEW c \in Children(nodes, alive, i)
      PROVE  \E d \in Children(m, live, i) : Pages(m[d]) = Pages(nodes[c])
  <2>1. c \in alive /\ nodes[c].parent = i
    BY DEF Children
  <2>2. CASE c \in live
    <3>1. c \in Children(m, live, i)
      BY <1>2, <2>1, <2>2
    <3> QED BY <1>2, <2>1, <3>1
  <2>3. CASE c \notin live
    <3> DEFINE d == Min(Group(c))
    <3>1. c \in Leaves
      BY <2>1, <2>3
    <3>2. /\ d \in Keepers /\ d \in Leaves /\ d \in alive
          /\ nodes[d].parent = nodes[c].parent /\ Pages(nodes[d]) = Pages(nodes[c])
      <4>1. d \in Group(c) \cap Keepers /\ Group(c) \in SUBSET Leaves /\ Leaves \subseteq alive
            /\ \A j \in Group(c) : /\ nodes[j].parent = nodes[c].parent
                                   /\ Pages(nodes[j]) = Pages(nodes[c])
        BY <1>1, <3>1, GroupFacts
      <4> QED BY <4>1
    <3> HIDE DEF d
    <3>3. d \in live
      BY <3>2
    <3>4. d \in Children(m, live, i)
      BY <1>2, <2>1, <3>2, <3>3
    <3> QED BY <1>2, <3>2, <3>4
  <2> QED BY <2>2, <2>3
<1>4. ASSUME NEW i \in live
      PROVE  Residual(m, live, i) = Residual(nodes, alive, i)
  <2>1. UNION {Pages(m[j]) : j \in Children(m, live, i)}
          = UNION {Pages(nodes[j]) : j \in Children(nodes, alive, i)}
    <3>1. \A d \in Children(m, live, i) :
            d \in Children(nodes, alive, i) /\ Pages(m[d]) = Pages(nodes[d])
      BY <1>2 DEF Children
    <3>2. \A x \in {Pages(m[j]) : j \in Children(m, live, i)} :
            x \in {Pages(nodes[j]) : j \in Children(nodes, alive, i)}
      BY <3>1
    <3>3. \A x \in {Pages(nodes[j]) : j \in Children(nodes, alive, i)} :
            x \in {Pages(m[j]) : j \in Children(m, live, i)}
      <4> SUFFICES ASSUME NEW c \in Children(nodes, alive, i)
                   PROVE  Pages(nodes[c]) \in {Pages(m[j]) : j \in Children(m, live, i)}
        OBVIOUS
      <4>1. PICK d \in Children(m, live, i) : Pages(m[d]) = Pages(nodes[c])
        BY <1>3
      <4> QED BY <4>1
    <3>4. {Pages(m[j]) : j \in Children(m, live, i)}
            = {Pages(nodes[j]) : j \in Children(nodes, alive, i)}
      BY <3>2, <3>3
    <3> QED BY <3>4
  <2>2. Pages(m[i]) = Pages(nodes[i])
    BY <1>1, <1>2
  <2> QED BY <2>1, <2>2 DEF Residual
<1> DEFINE g == Frontier(m, live)
           f == Frontier(nodes, alive)
           bad == {i \in live : ~(g[i] <= f[i])}
<1>5. /\ \A i \in live :
           /\ g[i] = FrontierCost(m, live, i) /\ g[i] \in Nat
           /\ Children(m, live, i) = {} => g[i] = Span(m[i])
           /\ Children(m, live, i) # {} => Over(m, live, g, i, g[i])
      /\ \A i \in alive :
           /\ f[i] = FrontierCost(nodes, alive, i) /\ f[i] \in Nat
           /\ Children(nodes, alive, i) = {} => f[i] = Span(nodes[i])
           /\ Children(nodes, alive, i) # {} => Over(nodes, alive, f, i, f[i])
  BY FrontierStep
<1> HIDE DEF f, g
<1>6. ASSUME bad # {} PROVE FALSE
  <2>1. PICK i \in bad : \A j \in bad : ~(i < j)
    <3>1. bad \in SUBSET (1..Len(nodes))
      BY <1>1
    <3> HIDE DEF bad
    <3> QED BY <1>1, <1>6, <3>1, LastOne
  <2>2. i \in live /\ i \in alive /\ ~(g[i] <= f[i])
    BY <1>1, <2>1
  <2>3. CASE Children(m, live, i) = {}
    <3>1. Children(nodes, alive, i) = {}
      BY <1>3, <2>2, <2>3
    <3>2. g[i] = Span(m[i]) /\ f[i] = Span(nodes[i]) /\ Span(m[i]) = Span(nodes[i])
      BY <1>2, <1>5, <2>2, <2>3, <3>1
    <3>3. g[i] = f[i] /\ f[i] \in Nat
      BY <1>5, <2>2, <3>2
    <3> QED BY <2>2, <3>3
  <2>4. CASE Children(m, live, i) # {}
    <3>1. Children(nodes, alive, i) # {}
      BY <1>2, <2>4
    <3>2. Over(m, live, g, i, g[i]) /\ Over(nodes, alive, f, i, f[i])
      BY <1>5, <2>2, <2>4, <3>1
    <3>3. \A c \in Children(nodes, alive, i) : f[c] \in Nat
      BY <1>5 DEF Children
    <3>4. \A c \in Children(m, live, i) : g[c] \in Nat /\ g[c] <= f[c]
      <4>1. \A c \in Children(m, live, i) : c \in live /\ i < c
        BY <2>2, ChildFacts
      <4> QED BY <1>5, <2>1, <4>1
    <3>5. g[i] <= f[i]
      BY <1>2, <1>4, <2>2, <3>2, <3>3, <3>4, OverMonotone
    <3> QED BY <2>2, <3>5
  <2> QED BY <2>3, <2>4
<1> QED BY <1>1, <1>5, <1>6

\* The nodes whose subtrees are collapsed.
Collapsed ==
    {i \in alive : /\ Children(nodes, alive, i) # {}
                   /\ Span(nodes[i]) <= Expanded(nodes, alive, Cost(nodes, alive), i)}

\* What is left costs what was computed, which was no more than before.
LEMMA SubtreesCheaper ==
    ASSUME Forest(nodes, alive),
           NEW live, live = alive \ {j \in alive : Ancestors(nodes)[j] \cap Collapsed # {}},
           NEW m, Alike(m, nodes), Forest(m, live)
    PROVE  /\ \A i \in live : FrontierCost(m, live, i) <= FrontierCost(nodes, alive, i)
           /\ Collapsed = {} =>
                \A i \in live : Children(m, live, i) # {} => FrontierCost(m, live, i) < Span(m[i])
<1>1. /\ Rooted(nodes) /\ alive \in SUBSET DOMAIN nodes /\ live \subseteq alive
      /\ Len(nodes) \in Nat /\ alive \subseteq 1..Len(nodes) /\ Collapsed \subseteq alive
  BY DEF Forest, Rooted, Collapsed
<1>2. /\ \A i \in alive : Span(m[i]) = Span(nodes[i]) /\ Pages(m[i]) = Pages(nodes[i])
      /\ \A i : Children(m, live, i) = {c \in live : nodes[c].parent = i}
      /\ \A i : Children(m, live, i) \subseteq Children(nodes, alive, i)
  <2>1. \A i \in alive : /\ m[i].parent = nodes[i].parent
                          /\ m[i].pageStart = nodes[i].pageStart
                          /\ m[i].pageEnd = nodes[i].pageEnd
    BY <1>1 DEF Alike
  <2>2. \A i \in alive : Span(m[i]) = Span(nodes[i]) /\ Pages(m[i]) = Pages(nodes[i])
    BY <2>1 DEF Span, Pages
  <2>3. \A i : Children(m, live, i) = {c \in live : nodes[c].parent = i}
    BY <1>1, <2>1 DEF Children
  <2>4. \A i : Children(m, live, i) \subseteq Children(nodes, alive, i)
    <3>1. \A i : Children(nodes, alive, i) = {c \in alive : nodes[c].parent = i}
      BY DEF Children
    <3> QED BY <1>1, <2>3, <3>1
  <2> QED BY <2>2, <2>3, <2>4
<1>3. ASSUME NEW i \in live
      PROVE  /\ i \in Collapsed => Children(m, live, i) = {}
             /\ i \notin Collapsed => Children(m, live, i) = Children(nodes, alive, i)
  <2>1. \A c \in Children(nodes, alive, i) :
          c \in alive /\ nodes[c].parent = i
          /\ Ancestors(nodes)[c] = {i} \cup Ancestors(nodes)[i]
    BY <1>1, ChildFacts
  <2>2. Ancestors(nodes)[i] \cap Collapsed = {}
    BY <1>1
  <2>3. \A c \in Children(nodes, alive, i) : c \in live <=> i \notin Collapsed
    BY <2>1, <2>2
  <2> QED BY <1>2, <2>1, <2>3
<1>4. ASSUME NEW i \in live, i \notin Collapsed
      PROVE  Residual(m, live, i) = Residual(nodes, alive, i)
  <2>1. Children(m, live, i) = Children(nodes, alive, i) /\ Pages(m[i]) = Pages(nodes[i])
    BY <1>1, <1>2, <1>3, <1>4
  <2>2. \A d \in Children(nodes, alive, i) : Pages(m[d]) = Pages(nodes[d])
    BY <1>2 DEF Children
  <2>3. {Pages(m[j]) : j \in Children(m, live, i)}
          = {Pages(nodes[j]) : j \in Children(nodes, alive, i)}
    BY <2>1, <2>2
  <2> QED BY <2>1, <2>3 DEF Residual
<1> DEFINE g == Frontier(m, live)
           f == Frontier(nodes, alive)
           cost == Cost(nodes, alive)
           e(i) == Expanded(nodes, alive, cost, i)
<1>5. /\ \A i \in live :
           /\ g[i] = FrontierCost(m, live, i) /\ g[i] \in Nat
           /\ Children(m, live, i) = {} => g[i] = Span(m[i])
           /\ Children(m, live, i) # {} => Over(m, live, g, i, g[i])
      /\ \A i \in alive :
           /\ f[i] = FrontierCost(nodes, alive, i) /\ f[i] \in Nat
           /\ Children(nodes, alive, i) = {} => f[i] = Span(nodes[i])
           /\ Children(nodes, alive, i) # {} => Over(nodes, alive, f, i, f[i])
  BY FrontierStep
<1>6. \A i \in alive :
        /\ cost[i] \in Nat
        /\ Children(nodes, alive, i) = {} => cost[i] = Span(nodes[i])
        /\ Children(nodes, alive, i) # {} =>
             /\ Over(nodes, alive, cost, i, e(i)) /\ cost[i] <= e(i) /\ e(i) \in Nat
             /\ Span(nodes[i]) <= e(i) => cost[i] = Span(nodes[i])
             /\ ~(Span(nodes[i]) <= e(i)) => cost[i] = e(i)
  BY CostStep DEF Over
<1>7. /\ \A i \in alive : i \in Collapsed <=>
           Children(nodes, alive, i) # {} /\ Span(nodes[i]) <= e(i)
      /\ \A i \in alive : \A c \in Children(nodes, alive, i) :
           c \in alive /\ i < c /\ cost[c] \in Nat /\ f[c] \in Nat
  <2>1. \A i \in alive : \A c \in Children(nodes, alive, i) : c \in alive /\ i < c
    BY ChildFacts
  <2> QED BY <1>5, <1>6, <2>1 DEF Collapsed
<1> HIDE DEF f, g, cost, e
<1>8. \A i \in alive : cost[i] <= f[i]
  <2> DEFINE bad == {i \in alive : ~(cost[i] <= f[i])}
  <2>1. ASSUME bad # {} PROVE FALSE
    <3>1. PICK i \in bad : \A j \in bad : ~(i < j)
      <4>1. bad \in SUBSET (1..Len(nodes))
        BY <1>1
      <4> HIDE DEF bad
      <4> QED BY <1>1, <2>1, <4>1, LastOne
    <3>2. i \in alive /\ ~(cost[i] <= f[i]) /\ cost[i] \in Nat /\ f[i] \in Nat
      BY <1>5, <1>6, <3>1
    <3>3. CASE Children(nodes, alive, i) = {}
      <4>1. cost[i] = f[i]
        BY <1>5, <1>6, <3>2, <3>3
      <4> QED BY <3>2, <4>1
    <3>4. CASE Children(nodes, alive, i) # {}
      <4>1. Over(nodes, alive, cost, i, e(i)) /\ Over(nodes, alive, f, i, f[i])
            /\ cost[i] <= e(i) /\ e(i) \in Nat
        BY <1>5, <1>6, <3>2, <3>4
      <4>2. \A c \in Children(nodes, alive, i) : f[c] \in Nat /\ cost[c] \in Nat /\ cost[c] <= f[c]
        BY <1>7, <3>1, <3>2
      <4>3. e(i) <= f[i]
        BY <4>1, <4>2, OverMonotone
      <4> QED BY <3>2, <4>1, <4>3
    <3> QED BY <3>3, <3>4
  <2> QED BY <2>1
<1>9. \A i \in live : g[i] = cost[i]
  <2> DEFINE bad == {i \in live : g[i] # cost[i]}
  <2>1. ASSUME bad # {} PROVE FALSE
    <3>1. PICK i \in bad : \A j \in bad : ~(i < j)
      <4>1. bad \in SUBSET (1..Len(nodes))
        BY <1>1
      <4> HIDE DEF bad
      <4> QED BY <1>1, <2>1, <4>1, LastOne
    <3>2. i \in live /\ i \in alive /\ g[i] # cost[i] /\ cost[i] \in Nat /\ g[i] \in Nat
          /\ Span(m[i]) = Span(nodes[i])
      BY <1>1, <1>2, <1>5, <1>6, <3>1
    <3>3. CASE i \in Collapsed
      <4>1. g[i] = Span(m[i])
        BY <1>3, <1>5, <3>2, <3>3
      <4>2. cost[i] = Span(nodes[i])
        BY <1>6, <1>7, <3>2, <3>3
      <4> QED BY <3>2, <4>1, <4>2
    <3>4. CASE i \notin Collapsed
      <4>1. Children(m, live, i) = Children(nodes, alive, i)
        BY <1>3, <3>2, <3>4
      <4>2. CASE Children(nodes, alive, i) = {}
        BY <1>5, <1>6, <3>2, <4>1, <4>2
      <4>3. CASE Children(nodes, alive, i) # {}
        <5>1. /\ Over(nodes, alive, cost, i, e(i)) /\ e(i) \in Nat /\ cost[i] = e(i)
          BY <1>6, <1>7, <3>2, <3>4, <4>3
        <5>2. Over(m, live, g, i, g[i])
          BY <1>5, <3>2, <4>1, <4>3
        <5>3. \A c \in Children(nodes, alive, i) :
                cost[c] \in Nat /\ g[c] \in Nat /\ g[c] <= cost[c] /\ cost[c] <= g[c]
          <6> SUFFICES ASSUME NEW c \in Children(nodes, alive, i)
                       PROVE  cost[c] \in Nat /\ g[c] = cost[c]
            OBVIOUS
          <6>1. c \in live /\ i < c /\ cost[c] \in Nat
            BY <1>2, <1>7, <3>2, <4>1
          <6> QED BY <3>1, <6>1
        <5>4. Residual(m, live, i) = Residual(nodes, alive, i)
          BY <1>4, <3>2, <3>4
        <5>5. g[i] <= e(i)
          BY <4>1, <5>1, <5>2, <5>3, <5>4, OverMonotone
        <5>6. e(i) <= g[i]
          BY <4>1, <5>1, <5>2, <5>3, <5>4, OverMonotone
        <5> QED BY <3>2, <5>1, <5>5, <5>6
      <4> QED BY <4>2, <4>3
    <3> QED BY <3>3, <3>4
  <2> QED BY <2>1
<1>10. \A i \in live : FrontierCost(m, live, i) <= FrontierCost(nodes, alive, i)
  BY <1>1, <1>5, <1>8, <1>9
<1>11. ASSUME Collapsed = {}, NEW i \in live, Children(m, live, i) # {}
       PROVE  FrontierCost(m, live, i) < Span(m[i])
  <2>1. i \in alive /\ i \notin Collapsed /\ Children(nodes, alive, i) # {}
        /\ Span(m[i]) = Span(nodes[i]) /\ Span(nodes[i]) \in Nat
    BY <1>1, <1>2, <1>3, <1>11, SpanFacts
  <2>2. ~(Span(nodes[i]) <= e(i)) /\ cost[i] = e(i) /\ e(i) \in Nat
    BY <1>6, <1>7, <2>1
  <2>3. FrontierCost(m, live, i) = e(i)
    BY <1>5, <1>9, <2>2
  <2> QED BY <2>1, <2>2, <2>3
<1> QED BY <1>10, <1>11

---------------------------------------------------------------------------
(***************************************************************************)
(* What the optimizer spares.                                              *)
(***************************************************************************)

\* No node costs more than in the tree that was built.
CostOK ==
    /\ phase \in Merging =>
         /\ Forest(built, DOMAIN built) /\ DOMAIN nodes = DOMAIN built
         /\ \A i \in alive : FrontierCost(nodes, alive, i) <= FrontierCost(built, DOMAIN built, i)
    /\ phase \in {"flatten", "done"} =>
         \A i \in alive : Children(nodes, alive, i) # {} =>
            FrontierCost(nodes, alive, i) < Span(nodes[i])

LEMMA ForestNow ==
    ASSUME TreeInv, phase \in Merging
    PROVE  Forest(nodes, alive)
<1>1. Rooted(nodes) /\ alive \in SUBSET DOMAIN nodes /\ Accepted(nodes, alive)
  BY DEF TreeInv, MergeOK
<1> QED BY <1>1, AcceptedForest

\* A pass that leaves each node no dearer than it was keeps the bound.
LEMMA CheaperStep ==
    ASSUME TreeInv, CostOK, phase \in Merging, TreeInv', phase' \in Merging, built' = built,
           Alike(nodes', nodes), alive' \subseteq alive,
           \A i \in alive' : FrontierCost(nodes', alive', i) <= FrontierCost(nodes, alive, i),
           phase' \in {"flatten", "done"} =>
             \A i \in alive' : Children(nodes', alive', i) # {} =>
                FrontierCost(nodes', alive', i) < Span(nodes'[i])
    PROVE  CostOK'
<1>1. Forest(nodes, alive) /\ Forest(nodes', alive')
  <2>1. Forest(nodes, alive)
    BY ForestNow
  <2>2. (phase \in Merging)'
    BY DEF Merging
  <2>3. Forest(nodes, alive)'
    BY <2>2, ForestNow, PTL
  <2> QED BY <2>1, <2>3
<1>2. /\ Forest(built, DOMAIN built) /\ DOMAIN nodes = DOMAIN built
      /\ \A i \in alive : FrontierCost(nodes, alive, i) <= FrontierCost(built, DOMAIN built, i)
  BY DEF CostOK
<1>3. DOMAIN nodes' = DOMAIN built /\ alive \subseteq DOMAIN built
  BY <1>1, <1>2 DEF Alike, Forest
<1>4. \A i \in alive' : FrontierCost(nodes', alive', i) <= FrontierCost(built, DOMAIN built, i)
  <2> SUFFICES ASSUME NEW i \in alive'
               PROVE  FrontierCost(nodes', alive', i) <= FrontierCost(built, DOMAIN built, i)
    OBVIOUS
  <2>1. FrontierCost(nodes', alive', i) \in Nat
    BY <1>1, FrontierIs
  <2>2. i \in alive /\ FrontierCost(nodes, alive, i) \in Nat
    BY <1>1, FrontierIs
  <2>3. FrontierCost(built, DOMAIN built, i) \in Nat
    BY <1>2, <1>3, <2>2, FrontierIs
  <2>4. /\ FrontierCost(nodes', alive', i) <= FrontierCost(nodes, alive, i)
        /\ FrontierCost(nodes, alive, i) <= FrontierCost(built, DOMAIN built, i)
    BY <1>2, <2>2
  <2> QED BY <2>1, <2>2, <2>3, <2>4
<1>5. Forest(built, DOMAIN built)' /\ DOMAIN nodes' = DOMAIN built'
  BY <1>2, <1>3 DEF Forest, Rooted
<1>6. \A i \in alive' : FrontierCost(nodes', alive', i) <= FrontierCost(built', DOMAIN built', i)
  BY <1>4
<1> QED BY <1>5, <1>6 DEF CostOK, Merging

LEMMA CostsStart == TreeInit => CostOK
  BY DEF TreeInit, CostOK, Merging

LEMMA CostsStep ==
    ASSUME TreeInv, CostOK, TreeInv', [TreeNext]_treeVars
    PROVE  CostOK'
<1>1. ASSUME phase' \notin Merging PROVE CostOK'
  BY <1>1 DEF CostOK, Merging
<1>2. CASE ReadForest
  <2>1. /\ phase = "tree" /\ phase' \in {"siblings", "refused"}
        /\ alive' = DOMAIN nodes /\ built' = nodes /\ nodes' = nodes
    BY <1>2 DEF ReadForest
  <2>2. Forest(nodes, DOMAIN nodes)
    <3>1. Rooted(nodes) /\ Accepted(nodes, DOMAIN nodes)
      BY <2>1 DEF TreeInv, TreeOK
    <3> QED BY <3>1, AcceptedForest
  <2>3. \A i \in DOMAIN nodes :
          FrontierCost(nodes, DOMAIN nodes, i) <= FrontierCost(nodes, DOMAIN nodes, i)
    <3>1. \A i \in DOMAIN nodes : FrontierCost(nodes, DOMAIN nodes, i) \in Nat
      BY <2>2, FrontierIs
    <3> QED BY <3>1
  <2>4. Forest(built, DOMAIN built)'
    BY <2>1, <2>2 DEF Forest, Rooted
  <2>5. \A i \in alive' : FrontierCost(nodes', alive', i) <= FrontierCost(built', DOMAIN built', i)
    BY <2>1, <2>3
  <2> QED BY <2>1, <2>4, <2>5 DEF CostOK
<1>3. CASE MergeSiblings
  <2>1. /\ phase = "siblings" /\ phase' = "subtrees" /\ built' = built
        /\ alive' = alive \ (Leaves \ Keepers)
        /\ nodes' = [i \in DOMAIN nodes |->
                        IF i \in Keepers THEN Merged(Group(i), i) ELSE nodes[i]]
    BY <1>3 DEF MergeSiblings, Leaves, Keepers
  <2>2. phase \in Merging /\ phase' \in Merging /\ (phase \in Merging)'
    BY <2>1 DEF Merging
  <2>3. /\ EndsOK /\ Rooted(nodes) /\ alive \in SUBSET DOMAIN nodes /\ Accepted(nodes, alive)
    BY <2>2 DEF TreeInv, InputOK, MergeOK
  <2>4. Alike(nodes', nodes)
    <3>1. ASSUME NEW i \in DOMAIN nodes
          PROVE  /\ nodes'[i].parent = nodes[i].parent
                 /\ nodes'[i].pageStart = nodes[i].pageStart
                 /\ nodes'[i].pageEnd = nodes[i].pageEnd
      <4>1. CASE i \in Keepers
        <5>1. nodes'[i] = Merged(Group(i), i)
          BY <2>1, <4>1
        <5>2. /\ Merged(Group(i), i).parent = nodes[i].parent
              /\ Merged(Group(i), i).pageStart = nodes[i].pageStart
              /\ Merged(Group(i), i).pageEnd = nodes[i].pageEnd
          BY <2>3, <4>1, MergedFacts
        <5> QED BY <5>1, <5>2
      <4>2. CASE i \notin Keepers
        BY <2>1, <4>2
      <4> QED BY <4>1, <4>2
    <3>2. DOMAIN nodes' = DOMAIN nodes
      BY <2>1
    <3> QED BY <3>1, <3>2 DEF Alike
  <2>5. Forest(nodes, alive) /\ Forest(nodes', alive')
    <3>1. Forest(nodes, alive)
      BY <2>2, ForestNow
    <3>2. Forest(nodes, alive)'
      BY <2>2, ForestNow, PTL
    <3> QED BY <3>1, <3>2
  <2> DEFINE m == nodes'
             live == alive'
  <2>6. live = alive \ (Leaves \ Keepers) /\ Alike(m, nodes) /\ Forest(m, live)
    BY <2>1, <2>4, <2>5
  <2> HIDE DEF m, live
  <2>7. \A i \in live : FrontierCost(m, live, i) <= FrontierCost(nodes, alive, i)
    BY <2>5, <2>6, SiblingsCheaper
  <2>8. \A i \in alive' : FrontierCost(nodes', alive', i) <= FrontierCost(nodes, alive, i)
    BY <2>7 DEF m, live
  <2>9. alive' \subseteq alive
    BY <2>1
  <2> QED BY <2>1, <2>2, <2>4, <2>8, <2>9, CheaperStep
<1>4. CASE MergeSubtrees
  <2>1. /\ phase = "subtrees" /\ built' = built
        /\ phase' = (IF quiet /\ Collapsed = {} THEN "flatten" ELSE "siblings")
        /\ alive' = alive \ {j \in alive : Ancestors(nodes)[j] \cap Collapsed # {}}
        /\ nodes' = [i \in DOMAIN nodes |->
                        IF i \in Collapsed
                        THEN [nodes[i] EXCEPT !.holds = UNION {nodes[j].holds :
                                                    j \in Subtree(nodes, i) \cap alive}]
                        ELSE nodes[i]]
    BY <1>4 DEF MergeSubtrees, Collapsed
  <2>2. phase \in Merging /\ phase' \in Merging /\ (phase \in Merging)'
    BY <2>1 DEF Merging
  <2>3. Rooted(nodes) /\ alive \in SUBSET DOMAIN nodes
    BY <2>2 DEF TreeInv, MergeOK
  <2>4. Alike(nodes', nodes)
    <3>1. ASSUME NEW i \in DOMAIN nodes
          PROVE  /\ nodes'[i].parent = nodes[i].parent
                 /\ nodes'[i].pageStart = nodes[i].pageStart
                 /\ nodes'[i].pageEnd = nodes[i].pageEnd
      <4> DEFINE h == UNION {nodes[j].holds : j \in Subtree(nodes, i) \cap alive}
      <4>1. nodes'[i] = IF i \in Collapsed THEN [nodes[i] EXCEPT !.holds = h] ELSE nodes[i]
        BY <2>1
      <4>2. nodes[i] \in TreeNode
        BY <2>3, NodeFields DEF Rooted
      <4> HIDE DEF h
      <4> QED BY <4>1, <4>2 DEF TreeNode
    <3>2. DOMAIN nodes' = DOMAIN nodes
      BY <2>1
    <3> QED BY <3>1, <3>2 DEF Alike
  <2>5. Forest(nodes, alive) /\ Forest(nodes', alive')
    <3>1. Forest(nodes, alive)
      BY <2>2, ForestNow
    <3>2. Forest(nodes, alive)'
      BY <2>2, ForestNow, PTL
    <3> QED BY <3>1, <3>2
  <2> DEFINE m == nodes'
             live == alive'
  <2>6. /\ live = alive \ {j \in alive : Ancestors(nodes)[j] \cap Collapsed # {}}
        /\ Alike(m, nodes) /\ Forest(m, live)
    BY <2>1, <2>4, <2>5
  <2> HIDE DEF m, live
  <2>7. /\ \A i \in live : FrontierCost(m, live, i) <= FrontierCost(nodes, alive, i)
        /\ Collapsed = {} =>
             \A i \in live : Children(m, live, i) # {} => FrontierCost(m, live, i) < Span(m[i])
    BY <2>5, <2>6, SubtreesCheaper
  <2>8. /\ \A i \in alive' : FrontierCost(nodes', alive', i) <= FrontierCost(nodes, alive, i)
        /\ phase' \in {"flatten", "done"} =>
             \A i \in alive' : Children(nodes', alive', i) # {} =>
                FrontierCost(nodes', alive', i) < Span(nodes'[i])
    BY <2>1, <2>7 DEF m, live
  <2>9. alive' \subseteq alive
    BY <2>1
  <2> QED BY <2>1, <2>2, <2>4, <2>8, <2>9, CheaperStep
<1>5. CASE Flatten \/ UNCHANGED treeVars
  <2>1. /\ built' = built /\ nodes' = nodes /\ alive' = alive
        /\ phase' = phase \/ (phase = "flatten" /\ phase' \in {"done", "refused"})
    BY <1>5 DEF Flatten, treeVars
  <2>2. CASE phase' \in Merging
    <3>1. phase \in Merging
          /\ (phase' \in {"flatten", "done"} => phase \in {"flatten", "done"})
      BY <2>1, <2>2 DEF Merging
    <3>2. Forest(nodes, alive)
      BY <3>1, ForestNow
    <3>3. \A i \in alive : FrontierCost(nodes, alive, i) \in Nat
      BY <3>2, FrontierIs
    <3>4. \A i \in alive' : FrontierCost(nodes', alive', i) <= FrontierCost(nodes, alive, i)
      BY <2>1, <3>3
    <3>5. phase' \in {"flatten", "done"} =>
             \A i \in alive' : Children(nodes', alive', i) # {} =>
                FrontierCost(nodes', alive', i) < Span(nodes'[i])
      BY <2>1, <3>1 DEF CostOK
    <3>6. Alike(nodes', nodes) /\ alive' \subseteq alive
      BY <2>1 DEF Alike
    <3> QED BY <2>1, <2>2, <3>1, <3>4, <3>5, <3>6, CheaperStep
  <2> QED BY <1>1, <2>2
<1>6. CASE \/ \E t \in Titles, l \in 1..MaxLevel :
                \/ \E line \in 1..Total : Heading(t, l, line)
                \/ \E p \in DOMAIN ends, line \in 0..Total : Bookmark(t, l, p, line)
           \/ Assemble \/ PageFallback \/ Push \/ Promote
  <2>1. phase' \notin Merging
    BY <1>6 DEF Heading, Bookmark, Assemble, PageFallback, Push, Promote, Merging
  <2> QED BY <1>1, <2>1
<1> QED BY <1>2, <1>3, <1>4, <1>5, <1>6 DEF TreeNext

\* However a tree is built and optimized, finding a page in a section of the result is
\* not dearer than it was, and in a section with children it is cheaper than to read all
\* of its pages: another pass would collapse nothing.
THEOREM NoneDearer == TreeSpec => []NeverDearer
<1>1. CostOK => NeverDearer
  BY DEF CostOK, NeverDearer, Merging
<1>2. TreeSpec => []TreeInv
  BY TreeInvariant
<1>3. TreeInv /\ TreeInv' /\ CostOK /\ [TreeNext]_treeVars => CostOK'
  BY CostsStep
<1> QED BY <1>1, <1>2, <1>3, CostsStart, PTL DEF TreeSpec

---------------------------------------------------------------------------
(***************************************************************************)
(* Sums and volumes.                                                       *)
(***************************************************************************)

\* What the recursive function gives: natural numbers that do not descend.
LEMMA SumsFacts ==
    ASSUME NEW f \in Seq(Nat)
    PROVE  /\ Sums(f)[0] = 0
           /\ \A k \in 0..Len(f) : Sums(f)[k] \in Nat
           /\ \A k \in 1..Len(f) : Sums(f)[k] = Sums(f)[k - 1] + f[k]
           /\ \A i, j \in 0..Len(f) : i <= j => Sums(f)[i] <= Sums(f)[j]
<1> DEFINE n == Len(f)
           e == CHOOSE s : s = [k \in 0..Len(f) |-> IF k = 0 THEN 0 ELSE s[k - 1] + f[k]]
<1>1. Sums(f) = e
  BY DEF Sums
<1>2. Summed(e, f, n)
  <2>1. n \in Nat
    OBVIOUS
  <2>2. \E s : Summed(s, f, n)
    BY <2>1, SummedExists
  <2> QED BY <2>2 DEF Summed
<1> HIDE DEF e
<1>3. \A k \in 0..n : e[k] = IF k = 0 THEN 0 ELSE e[k - 1] + f[k]
  BY <1>2 DEF Summed
<1>4. n \in Nat /\ \A k \in 1..n : f[k] \in Nat
  OBVIOUS
<1> HIDE DEF n
<1>5. \A k \in 0..n : e[k] \in Nat
  <2> DEFINE bad == {k \in 0..n : e[k] \notin Nat}
  <2>1. ASSUME bad # {} PROVE FALSE
    <3>1. bad \in SUBSET Nat
      OBVIOUS
    <3>2. PICK k \in bad : \A m \in bad : ~(m < k)
      BY <2>1, <3>1, LeastOne
    <3>3. CASE k = 0
      BY <1>3, <3>2, <3>3
    <3>4. CASE k # 0
      <4>1. k - 1 \in 0..n /\ k \in 1..n /\ k - 1 < k
        BY <1>4, <3>4
      <4>2. e[k - 1] \in Nat
        BY <3>2, <4>1
      <4> QED BY <1>3, <1>4, <3>2, <3>4, <4>1, <4>2
    <3> QED BY <3>3, <3>4
  <2> QED BY <2>1
<1>6. \A k \in 1..n : e[k] = e[k - 1] + f[k]
  BY <1>3, <1>4
<1>7. ASSUME NEW i \in 0..n, NEW k \in 0..n, i <= k PROVE e[i] <= e[k]
  <2> DEFINE bad == {j \in 0..n : i <= j /\ ~(e[i] <= e[j])}
  <2>1. ASSUME bad # {} PROVE FALSE
    <3>1. bad \in SUBSET Nat
      OBVIOUS
    <3>2. PICK j \in bad : \A m \in bad : ~(m < j)
      BY <2>1, <3>1, LeastOne
    <3>3. CASE i = j
      BY <1>5, <3>2, <3>3
    <3>4. CASE i # j
      <4>1. j - 1 \in 0..n /\ j \in 1..n /\ j - 1 < j /\ i <= j - 1
        BY <1>4, <3>2, <3>4
      <4>2. e[i] <= e[j - 1]
        BY <3>2, <4>1
      <4>3. e[i] \in Nat /\ e[j - 1] \in Nat /\ e[j] = e[j - 1] + f[j] /\ f[j] \in Nat
        BY <1>4, <1>5, <1>6, <4>1
      <4>4. e[i] <= e[j]
        BY <4>2, <4>3
      <4> QED BY <3>2, <4>4
    <3> QED BY <3>3, <3>4
  <2> QED BY <1>7, <2>1
<1>8. e[0] = 0
  BY <1>3, <1>4
<1> QED BY <1>1, <1>5, <1>6, <1>7, <1>8 DEF n

\* They depend on the elements that are summed.
LEMMA SumsAgree ==
    ASSUME NEW f \in Seq(Nat), NEW g \in Seq(Nat), NEW n \in Nat,
           n <= Len(f), n <= Len(g), \A k \in 1..n : f[k] = g[k]
    PROVE  \A k \in 0..n : Sums(f)[k] = Sums(g)[k]
<1> DEFINE bad == {k \in 0..n : Sums(f)[k] # Sums(g)[k]}
<1>1. /\ Sums(f)[0] = 0 /\ Sums(g)[0] = 0
      /\ \A k \in 1..Len(f) : Sums(f)[k] = Sums(f)[k - 1] + f[k]
      /\ \A k \in 1..Len(g) : Sums(g)[k] = Sums(g)[k - 1] + g[k]
  BY SumsFacts
<1>2. Len(f) \in Nat /\ Len(g) \in Nat
  OBVIOUS
<1>3. ASSUME bad # {} PROVE FALSE
  <2>1. bad \in SUBSET Nat
    OBVIOUS
  <2>2. PICK k \in bad : \A m \in bad : ~(m < k)
    BY <1>3, <2>1, LeastOne
  <2>3. CASE k = 0
    BY <1>1, <2>2, <2>3
  <2>4. CASE k # 0
    <3>1. k - 1 \in 0..n /\ k \in 1..n /\ k - 1 < k /\ k \in 1..Len(f) /\ k \in 1..Len(g)
      BY <1>2, <2>4
    <3>2. Sums(f)[k - 1] = Sums(g)[k - 1]
      BY <2>2, <3>1
    <3>3. Sums(f)[k] = Sums(g)[k]
      BY <1>1, <3>1, <3>2
    <3> QED BY <2>2, <3>3
  <2> QED BY <2>3, <2>4
<1> QED BY <1>3

SizesOK == sizes \in Seq(Nat)

\* Where the batch before ends.
Behind(c, i) == IF i = 0 THEN 0 ELSE c[i]

\* Batches that follow each other.
Cutting(c) ==
    /\ c \in Seq(Nat)
    /\ \A i \in DOMAIN c : c[i] \in 1..Len(sizes)
    /\ \A i, j \in DOMAIN c : i < j => c[i] < c[j]

\* A larger range has a larger volume, and fits only if the smaller one does.
LEMMA VolumeFacts ==
    ASSUME SizesOK, NEW a \in 1..Len(sizes), NEW b \in 1..Len(sizes), a <= b
    PROVE  /\ Volume(a, b) \in Nat
           /\ Volume(a, b) = Frame + Sums(sizes)[b] - Sums(sizes)[a - 1]
           /\ \A s \in a..b, t \in a..b : s <= t /\ Fits(a, b) => Fits(s, t)
<1> DEFINE S == Sums(sizes)
           n == Len(sizes)
<1>1. n \in Nat /\ (\A k \in 0..n : S[k] \in Nat) /\ \A i, j \in 0..n : i <= j => S[i] <= S[j]
  BY SumsFacts DEF SizesOK
<1>2. Frame \in Nat /\ Envelope \in Nat /\ MaxQuestions \in Nat
  BY ScanAssumption
<1>3. Volume(a, b) = Frame + S[b] - S[a - 1]
  BY DEF Volume
<1>4. a \in 1..n /\ b \in 1..n
  OBVIOUS
<1>5. ASSUME NEW s \in a..b, NEW t \in a..b, s <= t, Fits(a, b)
      PROVE  Fits(s, t)
  <2>1. b - a < MaxQuestions /\ Frame + S[b] - S[a - 1] <= Envelope
    BY <1>5 DEF Fits, Volume
  <2> HIDE DEF S, n
  <2>2. /\ a - 1 \in 0..n /\ s - 1 \in 0..n /\ t \in 0..n /\ b \in 0..n
        /\ a - 1 <= s - 1 /\ t <= b
    BY <1>1, <1>4
  <2>3. S[a - 1] <= S[s - 1] /\ S[t] <= S[b]
    BY <1>1, <2>2
  <2>4. S[a - 1] \in Nat /\ S[s - 1] \in Nat /\ S[t] \in Nat /\ S[b] \in Nat
    BY <1>1, <2>2
  <2>5. Frame + S[t] - S[s - 1] <= Envelope
    BY <1>2, <2>1, <2>3, <2>4
  <2>6. t - s < MaxQuestions
    BY <1>2, <1>4, <2>1
  <2> QED BY <2>5, <2>6 DEF Fits, Volume, S
<1>6. Frame + S[b] - S[a - 1] \in Nat
  <2> HIDE DEF S, n
  <2>1. a - 1 \in 0..n /\ b \in 0..n /\ a - 1 <= b
    BY <1>1, <1>4
  <2>2. S[a - 1] \in Nat /\ S[b] \in Nat /\ S[a - 1] <= S[b]
    BY <1>1, <2>1
  <2> QED BY <1>2, <2>2
<1> QED BY <1>3, <1>5, <1>6

\* What a request adds is paid for each batch, and each candidate once.
LEMMA PlannedFacts ==
    ASSUME SizesOK, NEW c, Cutting(c)
    PROVE  /\ Volumes(c) \in Seq(Nat)
           /\ Len(Volumes(c)) = Len(c)
           /\ \A k \in 0..Len(c) :
                /\ Behind(c, k) \in 0..Len(sizes)
                /\ Sums(Volumes(c))[k] = k * Frame + Sums(sizes)[Behind(c, k)]
           /\ \A k \in DOMAIN c : From(c, k) = Behind(c, k - 1) + 1 /\ From(c, k) <= c[k]
<1> DEFINE S == Sums(sizes)
           n == Len(sizes)
           v == Volumes(c)
           m == Len(c)
<1>1. c \in Seq(Nat) /\ m \in Nat /\ n \in Nat /\ DOMAIN c = 1..m
  BY DEF Cutting, SizesOK
<1>2. ASSUME NEW k \in 0..m PROVE Behind(c, k) \in 0..n
  BY <1>1 DEF Behind, Cutting
<1>3. ASSUME NEW k \in 1..m
      PROVE  /\ From(c, k) = Behind(c, k - 1) + 1 /\ From(c, k) <= c[k]
             /\ From(c, k) \in 1..n /\ c[k] \in 1..n
  <2>1. c[k] \in 1..n
    BY <1>1 DEF Cutting
  <2>2. CASE k = 1
    BY <1>1, <2>1, <2>2 DEF From, Behind
  <2>3. CASE k # 1
    <3>1. k - 1 \in 1..m /\ k - 1 < k
      BY <1>1, <2>3
    <3>2. c[k - 1] \in 1..n /\ c[k - 1] < c[k]
      BY <1>1, <3>1 DEF Cutting
    <3> HIDE DEF m, n
    <3>3. From(c, k) = c[k - 1] + 1 /\ Behind(c, k - 1) = c[k - 1]
      BY <2>3, <3>1 DEF From, Behind
    <3> QED BY <1>1, <2>1, <3>2, <3>3
  <2> QED BY <2>2, <2>3
<1>4. ASSUME NEW k \in 1..m
      PROVE  v[k] \in Nat /\ v[k] = Frame + S[Behind(c, k)] - S[Behind(c, k - 1)]
  <2>1. v[k] = Volume(From(c, k), c[k])
    BY <1>1 DEF Volumes
  <2>2. /\ Volume(From(c, k), c[k]) \in Nat
        /\ Volume(From(c, k), c[k]) = Frame + S[c[k]] - S[From(c, k) - 1]
    BY <1>3, VolumeFacts
  <2>3. c[k] = Behind(c, k)
    BY <1>1 DEF Behind
  <2>4. From(c, k) - 1 = Behind(c, k - 1)
    <3>1. k - 1 \in 0..m
      BY <1>1
    <3>2. Behind(c, k - 1) \in 0..n
      BY <1>2, <3>1
    <3> QED BY <1>1, <1>3, <3>2
  <2> QED BY <2>1, <2>2, <2>3, <2>4
<1>5. v \in Seq(Nat) /\ Len(v) = m
  <2>1. v \in [1..m -> Nat]
    <3>1. v = [i \in 1..m |-> v[i]]
      BY <1>1 DEF Volumes
    <3> HIDE DEF v
    <3> QED BY <1>4, <3>1
  <2> HIDE DEF v, m
  <2> QED BY <1>1, <2>1
<1>6. ASSUME NEW k \in 0..m PROVE Sums(v)[k] = k * Frame + S[Behind(c, k)]
  <2> DEFINE bad == {j \in 0..m : Sums(v)[j] # j * Frame + S[Behind(c, j)]}
  <2>1. Frame \in Nat
    BY ScanAssumption
  <2>2. /\ Sums(v)[0] = 0 /\ S[0] = 0 /\ \A j \in 1..m : Sums(v)[j] = Sums(v)[j - 1] + v[j]
        /\ \A j \in 0..n : S[j] \in Nat
    BY <1>5, SumsFacts DEF SizesOK
  <2> HIDE DEF m, n, v, S
  <2>3. ASSUME bad # {} PROVE FALSE
    <3>1. bad \in SUBSET Nat
      BY <1>1
    <3>2. PICK j \in bad : \A i \in bad : ~(i < j)
      BY <2>3, <3>1, LeastOne
    <3>3. CASE j = 0
      <4>1. S[Behind(c, j)] = 0 /\ Sums(v)[j] = 0
        BY <2>2, <3>3 DEF Behind
      <4> QED BY <2>1, <3>2, <3>3, <4>1
    <3>4. CASE j # 0
      <4>1. j - 1 \in 0..m /\ j \in 1..m /\ j - 1 < j /\ j \in Nat
        BY <1>1, <3>2, <3>4
      <4>2. Sums(v)[j - 1] = (j - 1) * Frame + S[Behind(c, j - 1)]
        BY <3>2, <4>1
      <4>3. Sums(v)[j] = Sums(v)[j - 1] + v[j]
        BY <2>2, <4>1
      <4>4. v[j] = Frame + S[Behind(c, j)] - S[Behind(c, j - 1)]
        BY <1>4, <4>1
      <4>5. S[Behind(c, j)] \in Nat /\ S[Behind(c, j - 1)] \in Nat
        BY <1>2, <2>2, <4>1
      <4>6. (j - 1) * Frame + Frame = j * Frame /\ (j - 1) * Frame \in Nat
        BY <2>1, <4>1
      <4>7. Sums(v)[j] = j * Frame + S[Behind(c, j)]
        BY <2>1, <4>2, <4>3, <4>4, <4>5, <4>6
      <4> QED BY <3>2, <4>7
    <3> QED BY <3>3, <3>4
  <2> QED BY <2>3
<1> QED BY <1>1, <1>2, <1>3, <1>5, <1>6
---------------------------------------------------------------------------
(***************************************************************************)
(* Batches.                                                                *)
(***************************************************************************)

\* Each batch fits, and would not with one candidate more.
Greedy(c) ==
    \A i \in DOMAIN c :
      /\ Fits(From(c, i), c[i])
      /\ c[i] = Len(sizes) \/ ~Fits(From(c, i), c[i] + 1)

BatchOK ==
    /\ SizesOK /\ Cutting(cuts) /\ Greedy(cuts)
    /\ Len(cuts) <= MaxCalls
    /\ planned = Sums(Volumes(cuts))[Len(cuts)] /\ planned <= MaxBytes
    /\ stage = "packet" => First > Len(sizes)
    /\ stage = "refused" => \A c \in Divisions : ~Affordable(c)

\* A division is a cutting that ends with the last candidate.
LEMMA DivisionFacts ==
    ASSUME SizesOK, NEW c \in Divisions
    PROVE  /\ Cutting(c)
           /\ Behind(c, Len(c)) = Len(sizes)
<1> DEFINE n == Len(sizes)
           m == Len(c)
<1>1. n \in Nat /\ DOMAIN sizes = 1..n /\ (sizes # <<>> => n # 0) /\ (sizes = <<>> => n = 0)
  BY DEF SizesOK
<1>2. /\ c \in UNION {[1..k -> DOMAIN sizes] : k \in 0..n}
      /\ \A i, j \in DOMAIN c : i < j => c[i] < c[j]
      /\ sizes # <<>> => \E i \in DOMAIN c : c[i] = n
  BY DEF Divisions
<1>3. PICK k \in 0..n : c \in [1..k -> 1..n]
  BY <1>1, <1>2
<1>4. k \in Nat /\ c \in Seq(1..n) /\ m = k /\ DOMAIN c = 1..k
  BY <1>3
<1>5. Cutting(c)
  <2>1. c \in Seq(Nat)
    BY <1>1, <1>4
  <2>2. \A i \in DOMAIN c : c[i] \in 1..n
    BY <1>3, <1>4
  <2> QED BY <1>2, <2>1, <2>2 DEF Cutting
<1>6. CASE sizes = <<>>
  <2>1. n = 0 /\ k = 0
    BY <1>1, <1>6
  <2> QED BY <1>4, <1>5, <2>1 DEF Behind
<1>7. CASE sizes # <<>>
  <2>1. PICK i \in 1..k : c[i] = n
    BY <1>2, <1>4, <1>7
  <2>2. ~(i < k)
    <3> SUFFICES ASSUME i < k PROVE FALSE
      OBVIOUS
    <3>1. k \in 1..k
      BY <1>4, <2>1
    <3>2. c[i] < c[k] /\ c[k] \in 1..n
      BY <1>2, <1>3, <1>4, <3>1
    <3> QED BY <1>1, <2>1, <3>2
  <2>3. i = k /\ k # 0
    BY <1>4, <2>1, <2>2
  <2> QED BY <1>4, <1>5, <2>1, <2>3 DEF Behind
<1> QED BY <1>6, <1>7

\* The batches so far reach as far as the same number of batches of any division.
LEMMA GreedyAhead ==
    ASSUME SizesOK, Cutting(cuts), Greedy(cuts), NEW c, Cutting(c),
           \A i \in DOMAIN c : Fits(From(c, i), c[i])
    PROVE  \A i \in 0..Len(cuts) : i <= Len(c) => Behind(c, i) <= Behind(cuts, i)
<1> DEFINE n == Len(sizes)
           m == Len(cuts)
           l == Len(c)
           bad == {i \in 0..m : i <= l /\ ~(Behind(c, i) <= Behind(cuts, i))}
<1>1. n \in Nat /\ m \in Nat /\ l \in Nat /\ DOMAIN cuts = 1..m /\ DOMAIN c = 1..l
  BY DEF SizesOK, Cutting
<1>2. ASSUME bad # {} PROVE FALSE
  <2>1. bad \in SUBSET Nat
    BY <1>1
  <2>2. PICK i \in bad : \A j \in bad : ~(j < i)
    BY <1>2, <2>1, LeastOne
  <2>3. i # 0
    BY <2>2 DEF Behind
  <2>4. i \in 1..m /\ i \in 1..l /\ i - 1 \in 0..m /\ i - 1 <= l /\ i - 1 < i /\ i - 1 \in 0..l
    BY <1>1, <2>2, <2>3
  <2>5. Behind(c, i - 1) <= Behind(cuts, i - 1)
    BY <2>2, <2>4
  <2>6. Behind(cuts, i) = cuts[i] /\ Behind(c, i) = c[i] /\ ~(c[i] <= cuts[i])
    BY <2>2, <2>3 DEF Behind
  <2>7. /\ From(c, i) = Behind(c, i - 1) + 1 /\ From(c, i) <= c[i]
        /\ From(cuts, i) = Behind(cuts, i - 1) + 1 /\ From(cuts, i) <= cuts[i]
        /\ Behind(c, i - 1) \in 0..n /\ Behind(cuts, i - 1) \in 0..n
    BY <1>1, <2>4, PlannedFacts
  <2>8. c[i] \in 1..n /\ cuts[i] \in 1..n
    BY <1>1, <2>4 DEF Cutting
  <2>9. Fits(From(c, i), c[i]) /\ ~Fits(From(cuts, i), cuts[i] + 1)
    <3>1. cuts[i] # n
      BY <1>1, <2>6, <2>8
    <3> QED BY <1>1, <2>4, <3>1 DEF Greedy
  <2>10. /\ From(c, i) \in 1..n /\ From(c, i) <= c[i]
         /\ From(cuts, i) \in From(c, i)..c[i] /\ cuts[i] + 1 \in From(c, i)..c[i]
         /\ From(cuts, i) <= cuts[i] + 1
    <3> HIDE DEF n, m, l, bad
    <3>1. /\ From(c, i) \in 1..n /\ From(c, i) <= c[i] /\ From(c, i) \in Nat
          /\ From(cuts, i) \in 1..n /\ From(cuts, i) <= cuts[i] /\ From(cuts, i) \in Nat
      BY <1>1, <2>7, <2>8
    <3>2. From(c, i) <= From(cuts, i)
      BY <2>5, <2>7
    <3>3. c[i] \in Nat /\ cuts[i] \in Nat /\ cuts[i] < c[i]
      BY <1>1, <2>6, <2>8
    <3> QED BY <3>1, <3>2, <3>3
  <2>11. Fits(From(cuts, i), cuts[i] + 1)
    BY <2>8, <2>9, <2>10, VolumeFacts
  <2> QED BY <2>9, <2>11
<1> QED BY <1>2

\* The longest batch: as far as a request takes, and no further.
LEMMA LongestFacts ==
    ASSUME BatchOK, First <= Len(sizes)
    PROVE  /\ First = Behind(cuts, Len(cuts)) + 1 /\ First \in 1..Len(sizes)
           /\ Longer = {} => ~Fits(First, First)
           /\ Longer # {} =>
                /\ Max(Longer) \in First..Len(sizes)
                /\ Fits(First, Max(Longer))
                /\ Max(Longer) = Len(sizes) \/ ~Fits(First, Max(Longer) + 1)
<1> DEFINE n == Len(sizes)
           m == Len(cuts)
           e == Max(Longer)
<1>1. n \in Nat /\ m \in Nat /\ cuts \in Seq(Nat)
  BY DEF BatchOK, SizesOK, Cutting
<1>2. First = Behind(cuts, m) + 1
  <2>1. m + 1 = 1 <=> m = 0
    BY <1>1
  <2>2. m + 1 - 1 = m
    BY <1>1
  <2> QED BY <2>1, <2>2 DEF First, From, Behind
<1>3. Behind(cuts, m) \in 0..n
  BY <1>1, PlannedFacts DEF BatchOK
<1>4. First \in 1..n
  BY <1>1, <1>2, <1>3
<1>5. ASSUME Longer = {} PROVE ~Fits(First, First)
  <2>1. First \in First..n /\ \A k \in First..First : k = First
    BY <1>1, <1>4
  <2> QED BY <1>5, <2>1 DEF Longer
<1>6. ASSUME Longer # {}
      PROVE  e \in First..n /\ Fits(First, e) /\ (e = n \/ ~Fits(First, e + 1))
  <2>1. Longer \in SUBSET Nat /\ \A x \in Longer : x <= n
    BY <1>1, <1>4 DEF Longer
  <2>2. e \in Longer /\ \A x \in Longer : x <= e
    BY <1>1, <1>6, <2>1, MaxFacts
  <2> HIDE DEF e
  <2>3. e \in First..n /\ \A k \in First..e : Fits(First, k)
    BY <2>2 DEF Longer
  <2>4. e \in First..e /\ e \in Nat
    BY <1>1, <1>4, <2>3
  <2>5. ASSUME e # n, Fits(First, e + 1) PROVE FALSE
    <3>1. e + 1 \in First..n /\ ~(e + 1 <= e)
      BY <1>1, <1>4, <2>3, <2>4, <2>5
    <3>2. \A k \in First..(e + 1) : k \in First..e \/ k = e + 1
      BY <1>1, <1>4, <2>4
    <3>3. e + 1 \in Longer
      BY <2>3, <2>5, <3>1, <3>2 DEF Longer
    <3> QED BY <2>2, <3>1, <3>3
  <2> QED BY <2>3, <2>4, <2>5
<1> QED BY <1>2, <1>4, <1>5, <1>6

\* A division that could be paid has a batch with the first candidate that is left.
LEMMA Affords ==
    ASSUME BatchOK, First <= Len(sizes), NEW c \in Divisions, Affordable(c)
    PROVE  /\ Longer # {}
           /\ Len(cuts) < MaxCalls
           /\ planned + Volume(First, Max(Longer)) <= MaxBytes
<1> DEFINE n == Len(sizes)
           m == Len(cuts)
           l == Len(c)
           S == Sums(sizes)
<1>1. Cutting(c) /\ Behind(c, l) = n
  BY DivisionFacts DEF BatchOK
<1>2. /\ n \in Nat /\ m \in Nat /\ l \in Nat /\ DOMAIN c = 1..l
      /\ SizesOK /\ Cutting(cuts) /\ Greedy(cuts)
  BY <1>1 DEF Cutting, BatchOK, SizesOK
<1>3. /\ l <= MaxCalls /\ Sums(Volumes(c))[l] <= MaxBytes
      /\ \A i \in DOMAIN c : Fits(From(c, i), c[i])
  BY DEF Affordable
<1>4. \A i \in 0..m : i <= l => Behind(c, i) <= Behind(cuts, i)
  BY <1>1, <1>2, <1>3, GreedyAhead
<1>5. First = Behind(cuts, m) + 1 /\ First \in 1..n /\ Behind(cuts, m) \in 0..n
  BY <1>2, LongestFacts, PlannedFacts
<1>6. m < l
  <2> SUFFICES ASSUME l <= m PROVE FALSE
    BY <1>2
  <2>1. l \in 0..m /\ l \in 0..l
    BY <1>2
  <2>2. n <= Behind(cuts, l) /\ Behind(cuts, l) \in 0..n
    BY <1>1, <1>2, <1>4, <2>1, PlannedFacts
  <2>3. Behind(cuts, l) = n
    BY <1>2, <2>2
  <2>4. CASE l = m
    BY <1>2, <1>5, <2>3, <2>4
  <2>5. CASE l # m
    <3>1. CASE l = 0
      BY <1>2, <1>5, <2>3, <3>1 DEF Behind
    <3>2. CASE l # 0
      <4>1. l \in 1..m /\ m \in 1..m /\ l < m
        BY <1>2, <2>5, <3>2
      <4>2. cuts[l] < cuts[m] /\ cuts[m] \in 1..n /\ cuts[l] = n
        BY <1>2, <2>3, <3>2, <4>1 DEF Cutting, Behind
      <4> QED BY <1>2, <4>2
    <3> QED BY <3>1, <3>2
  <2> QED BY <2>4, <2>5
<1>7. PICK j \in 1..l : From(c, j) <= First /\ First <= c[j]
  <2> DEFINE reached == {j \in 1..l : First <= c[j]}
  <2>1. reached \in SUBSET Nat /\ l \in reached
    <3>1. l \in 1..l /\ c[l] = n
      BY <1>1, <1>2, <1>6 DEF Behind
    <3> QED BY <1>2, <1>5, <3>1
  <2>2. PICK j \in reached : \A i \in reached : ~(i < j)
    BY <2>1, LeastOne
  <2>3. j \in 1..l /\ First <= c[j]
    BY <2>2
  <2>4. From(c, j) = Behind(c, j - 1) + 1 /\ Behind(c, j - 1) \in 0..n
    <3>1. j - 1 \in 0..l
      BY <1>2, <2>3
    <3> QED BY <1>1, <1>2, <2>3, <3>1, PlannedFacts
  <2>5. CASE j = 1
    <3>1. From(c, j) = 1
      BY <2>5 DEF From
    <3> QED BY <1>2, <1>5, <2>3, <3>1
  <2>6. CASE j # 1
    <3>1. j - 1 \in 1..l /\ j - 1 < j /\ j - 1 # 0
      BY <1>2, <2>3, <2>6
    <3>2. ~(First <= c[j - 1]) /\ Behind(c, j - 1) = c[j - 1]
      BY <2>2, <3>1 DEF Behind
    <3> HIDE DEF n, l, reached
    <3>3. From(c, j) <= First
      BY <1>2, <1>5, <2>4, <3>2
    <3> QED BY <2>3, <3>3
  <2> QED BY <2>5, <2>6
<1>8. Longer # {}
  <2>1. c[j] \in 1..n /\ Fits(From(c, j), c[j])
    BY <1>1, <1>2, <1>3 DEF Cutting
  <2>2. From(c, j) \in 1..n
    <3>1. j - 1 \in 0..l
      BY <1>2
    <3>2. From(c, j) = Behind(c, j - 1) + 1 /\ Behind(c, j - 1) \in 0..n /\ From(c, j) <= c[j]
      BY <1>1, <1>2, <3>1, PlannedFacts
    <3> HIDE DEF n, l
    <3> QED BY <1>2, <2>1, <3>2
  <2>3. First \in From(c, j)..c[j] /\ From(c, j) <= c[j] /\ First <= First
    <3> HIDE DEF n, l
    <3> QED BY <1>2, <1>5, <1>7, <2>1, <2>2
  <2>4. Fits(First, First)
    BY <1>2, <2>1, <2>2, <2>3, VolumeFacts
  <2> QED BY <2>4, LongestFacts
<1>9. m < MaxCalls
  BY <1>2, <1>3, <1>6, ScanAssumption
<1>10. planned + Volume(First, Max(Longer)) <= MaxBytes
  <2> DEFINE e == Max(Longer)
  <2>1. e \in First..n
    BY <1>8, LongestFacts
  <2>2. e \in 1..n /\ First <= e
    <3> HIDE DEF e
    <3> QED BY <1>2, <1>5, <2>1
  <2>3. Volume(First, e) = Frame + S[e] - S[First - 1]
    BY DEF Volume
  <2>4. First - 1 = Behind(cuts, m)
    BY <1>2, <1>5
  <2>5. planned = m * Frame + S[Behind(cuts, m)]
    <3>1. m \in 0..m
      BY <1>2
    <3> QED BY <1>2, <3>1, PlannedFacts DEF BatchOK
  <2>6. l * Frame + S[n] <= MaxBytes
    <3>1. l \in 0..l
      BY <1>2
    <3>2. Sums(Volumes(c))[l] = l * Frame + S[Behind(c, l)]
      BY <1>1, <1>2, <3>1, PlannedFacts
    <3> QED BY <1>1, <1>3, <3>2
  <2>7. S[Behind(cuts, m)] \in Nat /\ S[e] \in Nat /\ S[n] \in Nat /\ S[e] <= S[n]
    <3>1. Behind(cuts, m) \in 0..n /\ e \in 0..n /\ n \in 0..n /\ e <= n
      BY <1>2, <1>5, <2>2
    <3> QED BY <1>2, <3>1, SumsFacts DEF SizesOK
  <2>8. Frame \in Nat /\ MaxBytes \in Nat
    BY ScanAssumption
  <2> HIDE DEF e, S, n, m, l
  <2>9. m * Frame + Frame <= l * Frame /\ m * Frame \in Nat /\ l * Frame \in Nat
    <3>1. PICK d \in Nat : l = m + 1 + d
      <4>1. l - (m + 1) \in Nat /\ l = m + 1 + (l - (m + 1))
        BY <1>2, <1>6
      <4> QED BY <4>1
    <3>2. (m + 1 + d) * Frame = m * Frame + Frame + d * Frame /\ d * Frame \in Nat
      BY <1>2, <2>8, <3>1
    <3>3. m * Frame \in Nat
      BY <1>2, <2>8
    <3> QED BY <2>8, <3>1, <3>2, <3>3
  <2>10. planned + Volume(First, e) = m * Frame + Frame + S[e]
    BY <2>3, <2>4, <2>5, <2>7, <2>8, <2>9
  <2>11. planned + Volume(First, e) <= MaxBytes
    BY <2>6, <2>7, <2>8, <2>9, <2>10
  <2> QED BY <2>11 DEF e
<1> QED BY <1>8, <1>9, <1>10

\* One batch more.
LEMMA BatchAdded ==
    ASSUME BatchOK, First <= Len(sizes), Longer # {}
    PROVE  LET d == Append(cuts, Max(Longer)) IN
           /\ Cutting(d) /\ Greedy(d) /\ Len(d) = Len(cuts) + 1
           /\ Sums(Volumes(d))[Len(d)] = planned + Volume(First, Max(Longer))
<1> DEFINE n == Len(sizes)
           m == Len(cuts)
           e == Max(Longer)
           d == Append(cuts, e)
           S == Sums(sizes)
<1>1. n \in Nat /\ m \in Nat /\ cuts \in Seq(Nat) /\ DOMAIN cuts = 1..m /\ SizesOK
  BY DEF BatchOK, SizesOK, Cutting
<1>2. /\ First = Behind(cuts, m) + 1 /\ First \in 1..n
      /\ e \in First..n /\ Fits(First, e) /\ (e = n \/ ~Fits(First, e + 1))
  BY LongestFacts
<1>3. Behind(cuts, m) \in 0..n
  BY <1>1, PlannedFacts DEF BatchOK
<1> HIDE DEF e
<1>4. e \in 1..n /\ First <= e /\ First - 1 = Behind(cuts, m)
  BY <1>1, <1>2, <1>3
<1>5. /\ d \in Seq(Nat) /\ Len(d) = m + 1 /\ DOMAIN d = 1..(m + 1)
      /\ d[m + 1] = e /\ \A i \in 1..m : d[i] = cuts[i]
  BY <1>1, <1>4
<1>6. m = 0 \/ (m # 0 /\ cuts[m] < e /\ \A i \in 1..m : cuts[i] <= cuts[m])
  <2> SUFFICES ASSUME m # 0 PROVE cuts[m] < e /\ \A i \in 1..m : cuts[i] <= cuts[m]
    OBVIOUS
  <2>1. m \in 1..m /\ Behind(cuts, m) = cuts[m]
    BY <1>1 DEF Behind
  <2>2. cuts[m] < e
    BY <1>1, <1>2, <1>3, <1>4, <2>1
  <2>3. ASSUME NEW i \in 1..m PROVE cuts[i] <= cuts[m]
    <3>1. cuts[i] \in Nat /\ cuts[m] \in Nat
      BY <1>1, <2>1
    <3>2. i < m => cuts[i] < cuts[m]
      BY <1>1, <2>1 DEF BatchOK, Cutting
    <3>3. i < m \/ i = m
      <4> HIDE DEF m
      <4> QED BY <1>1
    <3> QED BY <3>1, <3>2, <3>3
  <2> QED BY <2>2, <2>3
<1>7. Cutting(d)
  <2>1. ASSUME NEW i \in 1..(m + 1) PROVE d[i] \in 1..n
    <3>1. CASE i = m + 1
      BY <1>4, <1>5, <3>1
    <3>2. CASE i # m + 1
      <4>1. i \in 1..m
        BY <1>1, <3>2
      <4> QED BY <1>1, <1>5, <4>1 DEF BatchOK, Cutting
    <3> QED BY <3>1, <3>2
  <2>2. ASSUME NEW i \in 1..(m + 1), NEW j \in 1..(m + 1), i < j PROVE d[i] < d[j]
    <3>1. i \in 1..m /\ d[i] = cuts[i] /\ cuts[i] \in Nat
      BY <1>1, <1>5, <2>2
    <3>2. CASE j = m + 1
      <4>1. m # 0
        BY <1>1, <3>1
      <4>2. m \in 1..m
        BY <1>1, <4>1
      <4>3. cuts[i] <= cuts[m] /\ cuts[m] < e /\ cuts[m] \in Nat
        BY <1>1, <1>6, <3>1, <4>1, <4>2
      <4>4. d[j] = e /\ e \in Nat
        BY <1>4, <1>5, <3>2
      <4> QED BY <3>1, <4>3, <4>4
    <3>3. CASE j # m + 1
      <4>1. j \in 1..m
        BY <1>1, <3>3
      <4> QED BY <1>1, <1>5, <2>2, <3>1, <4>1 DEF BatchOK, Cutting
    <3> QED BY <3>2, <3>3
  <2> QED BY <1>5, <2>1, <2>2 DEF Cutting
<1>8. \A i \in 1..m : From(d, i) = From(cuts, i)
  <2> SUFFICES ASSUME NEW i \in 1..m PROVE From(d, i) = From(cuts, i)
    OBVIOUS
  <2>1. CASE i = 1
    BY <2>1 DEF From
  <2>2. CASE i # 1
    <3>1. i - 1 \in 1..m
      BY <1>1, <2>2
    <3>2. d[i - 1] = cuts[i - 1]
      BY <1>5, <3>1
    <3> QED BY <2>2, <3>2 DEF From
  <2> QED BY <2>1, <2>2
<1>9. ASSUME NEW k, k = m + 1 PROVE From(d, k) = First
  <2>1. From(d, k) = Behind(d, k - 1) + 1
    <3>1. k \in DOMAIN d
      BY <1>1, <1>5, <1>9
    <3> HIDE DEF d, m
    <3> QED BY <1>1, <1>7, <3>1, PlannedFacts
  <2>2. k - 1 = m
    BY <1>1, <1>9
  <2>3. Behind(d, m) = Behind(cuts, m)
    <3>1. m # 0 => m \in 1..m
      BY <1>1
    <3> QED BY <1>5, <3>1 DEF Behind
  <2> QED BY <1>2, <2>1, <2>2, <2>3
<1>10. Greedy(d)
  <2> SUFFICES ASSUME NEW i \in 1..(m + 1)
               PROVE  /\ Fits(From(d, i), d[i])
                      /\ d[i] = Len(sizes) \/ ~Fits(From(d, i), d[i] + 1)
    BY <1>5 DEF Greedy
  <2>1. CASE i = m + 1
    BY <1>2, <1>5, <1>9, <2>1
  <2>2. CASE i # m + 1
    <3>1. i \in 1..m
      BY <1>1, <2>2
    <3> QED BY <1>1, <1>5, <1>8, <3>1 DEF BatchOK, Greedy
  <2> QED BY <2>1, <2>2
<1>11. Sums(Volumes(d))[m + 1] = planned + Volume(First, e)
  <2>1. planned = m * Frame + S[Behind(cuts, m)]
    <3>1. m \in 0..m
      BY <1>1
    <3> QED BY <3>1, PlannedFacts DEF BatchOK
  <2>2. Sums(Volumes(d))[m + 1] = (m + 1) * Frame + S[e]
    <3>1. m + 1 \in 0..Len(d) /\ m + 1 # 0
      BY <1>1, <1>5
    <3>2. Behind(d, m + 1) = e
      BY <1>5, <3>1 DEF Behind
    <3> QED BY <1>1, <1>7, <3>1, <3>2, PlannedFacts
  <2>3. Volume(First, e) = Frame + S[e] - S[Behind(cuts, m)]
    BY <1>4 DEF Volume
  <2>4. S[e] \in Nat /\ S[Behind(cuts, m)] \in Nat
    <3>1. e \in 0..n
      BY <1>1, <1>4
    <3> QED BY <1>1, <1>3, <3>1, SumsFacts DEF SizesOK
  <2>5. Frame \in Nat
    BY ScanAssumption
  <2> HIDE DEF S, n, m, d
  <2>6. (m + 1) * Frame = m * Frame + Frame /\ m * Frame \in Nat
    BY <1>1, <2>5
  <2> QED BY <2>1, <2>2, <2>3, <2>4, <2>5, <2>6
<1> QED BY <1>5, <1>7, <1>10, <1>11 DEF e

\* What is said of batches depends on their ends and the sizes.
LEMMA BatchesKept ==
    ASSUME sizes' = sizes, cuts' = cuts
    PROVE  /\ SizesOK' = SizesOK /\ Cutting(cuts)' = Cutting(cuts)
           /\ Greedy(cuts)' = Greedy(cuts)
           /\ Sums(Volumes(cuts))' = Sums(Volumes(cuts))
           /\ First' = First
           /\ (\A c \in Divisions : ~Affordable(c))' = (\A c \in Divisions : ~Affordable(c))
<1>1. \A a, b : Volume(a, b)' = Volume(a, b)
  BY DEF Volume
<1>2. \A a, b : Fits(a, b)' = Fits(a, b)
  BY DEF Fits, Volume
<1>3. \A c : Volumes(c)' = Volumes(c)
  BY <1>1 DEF Volumes
<1>4. \A c : Affordable(c)' = Affordable(c)
  <2>1. \A c : Sums(Volumes(c))' = Sums(Volumes(c))
    BY <1>3
  <2> QED BY <1>2, <2>1 DEF Affordable
<1>5. Divisions' = Divisions
  BY DEF Divisions
<1>6. Sums(Volumes(cuts))' = Sums(Volumes(cuts))
  BY DEF Volumes, Volume
<1>7. Cutting(cuts)' = Cutting(cuts) /\ Greedy(cuts)' = Greedy(cuts)
  BY DEF Cutting, Greedy, Fits, Volume
<1> QED BY <1>4, <1>5, <1>6, <1>7 DEF SizesOK, First

LEMMA SizesInit == ScanInit => SizesOK
<1> SUFFICES ASSUME ScanInit PROVE SizesOK
  OBVIOUS
<1>1. CASE sizes = <<>>
  BY <1>1 DEF SizesOK
<1>2. CASE sizes # <<>>
  <2>1. PICK n \in 0..MaxHints : sizes \in [1..n -> HintSizes]
    BY <1>2 DEF ScanInit
  <2>2. n \in Nat /\ HintSizes \subseteq Nat
    BY <2>1, ScanAssumption
  <2>3. sizes \in [1..n -> Nat]
    BY <2>1, <2>2
  <2> QED BY <2>2, <2>3 DEF SizesOK
<1> QED BY <1>1, <1>2

LEMMA BatchStarts == ScanInit => BatchOK
<1> SUFFICES ASSUME ScanInit PROVE BatchOK
  OBVIOUS
<1>1. cuts = <<>> /\ planned = 0 /\ stage # "packet" /\ stage # "refused"
  BY DEF ScanInit
<1>2. SizesOK /\ Cutting(cuts) /\ Greedy(cuts) /\ Len(cuts) = 0
  BY <1>1, SizesInit DEF Cutting, Greedy
<1>3. MaxCalls \in Nat /\ MaxBytes \in Nat
  BY ScanAssumption
<1>4. Sums(Volumes(cuts))[Len(cuts)] = 0
  <2>1. Volumes(cuts) \in Seq(Nat)
    BY <1>2, PlannedFacts
  <2> QED BY <1>2, <2>1, SumsFacts
<1> QED BY <1>1, <1>2, <1>3, <1>4 DEF BatchOK

LEMMA BatchStep ==
    ASSUME BatchOK, [ScanNext]_scanVars
    PROVE  BatchOK'
<1>1. CASE TakeBatch
  <2> DEFINE e == Max(Longer)
             total == planned + Volume(First, e)
  <2>1. sizes' = sizes /\ First <= Len(sizes) /\ stage = "batches"
    BY <1>1 DEF TakeBatch
  <2>2. CASE Longer # {} /\ Len(cuts) < MaxCalls /\ total <= MaxBytes
    <3>1. cuts' = Append(cuts, e) /\ planned' = total /\ stage' = stage
      BY <1>1, <2>2 DEF TakeBatch
    <3>2. /\ Cutting(cuts') /\ Greedy(cuts') /\ Len(cuts') = Len(cuts) + 1
          /\ Sums(Volumes(cuts'))[Len(cuts')] = planned'
      BY <2>1, <2>2, <3>1, BatchAdded
    <3>3. Len(cuts') <= MaxCalls
      <4>1. Len(cuts) \in Nat /\ MaxCalls \in Nat
        BY ScanAssumption DEF BatchOK, Cutting
      <4> HIDE DEF e, total
      <4> QED BY <2>2, <3>2, <4>1
    <3>4. Cutting(cuts)' /\ Greedy(cuts)' /\ SizesOK' /\ Volumes(cuts)' = Volumes(cuts')
      <4>1. Cutting(cuts)' = Cutting(cuts') /\ Greedy(cuts)' = Greedy(cuts')
        BY <2>1 DEF Cutting, Greedy, Fits, Volume
      <4>2. Volumes(cuts)' = Volumes(cuts')
        BY <2>1 DEF Volumes, Volume
      <4> QED BY <2>1, <3>2, <4>1, <4>2 DEF SizesOK, BatchOK
    <3>5. Sums(Volumes(cuts)')[Len(cuts')] = planned' /\ planned' <= MaxBytes
      BY <2>2, <3>1, <3>2, <3>4
    <3>6. stage' = "batches"
      BY <2>1, <3>1
    <3>7. Sums(Volumes(cuts))' = Sums(Volumes(cuts)')
      BY DEF Sums
    <3> QED BY <3>3, <3>4, <3>5, <3>6, <3>7 DEF BatchOK
  <2>3. CASE ~(Longer # {} /\ Len(cuts) < MaxCalls /\ total <= MaxBytes)
    <3>1. stage' = "refused" /\ cuts' = cuts /\ planned' = planned
      BY <1>1, <2>3 DEF TakeBatch
    <3>2. \A c \in Divisions : ~Affordable(c)
      BY <2>1, <2>3, Affords
    <3> QED BY <2>1, <3>1, <3>2, BatchesKept DEF BatchOK
  <2> QED BY <2>2, <2>3
<1>2. CASE Answered
  <2>1. /\ sizes' = sizes /\ cuts' = cuts /\ planned' = planned /\ stage' = "packet"
        /\ First > Len(sizes)
    BY <1>2 DEF Answered
  <2> QED BY <2>1, BatchesKept DEF BatchOK
<1>3. CASE UNCHANGED <<sizes, cuts, planned, stage>>
  BY <1>3, BatchesKept DEF BatchOK
<1>4. CASE \E i \in todo : CoverWindow(i) \/ Consider(i)
  BY <1>3, <1>4 DEF CoverWindow, Consider
<1>5. CASE UNCHANGED scanVars
  BY <1>3, <1>5 DEF scanVars
<1> QED BY <1>1, <1>2, <1>4, <1>5 DEF ScanNext

\* When every candidate is in a batch the batches are a division that can be paid.
LEMMA BatchesAre ==
    ASSUME BatchOK
    PROVE  BatchesBest
<1> DEFINE n == Len(sizes)
           m == Len(cuts)
<1>1. /\ n \in Nat /\ m \in Nat /\ cuts \in Seq(Nat) /\ DOMAIN cuts = 1..m
      /\ DOMAIN sizes = 1..n /\ sizes \in Seq(Nat)
      /\ (\A i \in DOMAIN cuts : cuts[i] \in 1..n)
      /\ \A i, j \in DOMAIN cuts : i < j => cuts[i] < cuts[j]
  BY DEF BatchOK, SizesOK, Cutting
<1>2. ASSUME stage = "packet" PROVE cuts \in Divisions
  <2>1. First > n
    BY <1>2 DEF BatchOK
  <2>2. First = Behind(cuts, m) + 1
    <3>1. (m + 1 = 1 <=> m = 0) /\ m + 1 - 1 = m
      BY <1>1
    <3> QED BY <3>1 DEF First, From, Behind
  <2>3. Behind(cuts, m) \in 0..n
    BY <1>1, PlannedFacts DEF BatchOK
  <2>4. Behind(cuts, m) = n
    BY <1>1, <2>1, <2>2, <2>3
  <2>5. sizes # <<>> => \E i \in DOMAIN cuts : cuts[i] = n
    <3> SUFFICES ASSUME sizes # <<>> PROVE \E i \in DOMAIN cuts : cuts[i] = n
      OBVIOUS
    <3>1. n # 0
      BY <1>1
    <3>2. m # 0
      BY <2>4, <3>1 DEF Behind
    <3>3. m \in DOMAIN cuts /\ cuts[m] = n
      BY <1>1, <2>4, <3>2 DEF Behind
    <3> QED BY <3>3
  <2>6. m \in 0..n
    <3>1. cuts \in [1..m -> 1..n]
      <4>1. cuts = [i \in 1..m |-> cuts[i]]
        BY <1>1
      <4> HIDE DEF m, n
      <4> QED BY <1>1, <4>1
    <3>2. \A i \in 0..m : i <= Behind(cuts, i)
      <4> DEFINE bad == {i \in 0..m : ~(i <= Behind(cuts, i))}
      <4>1. ASSUME bad # {} PROVE FALSE
        <5>1. bad \in SUBSET Nat
          BY <1>1
        <5>2. PICK i \in bad : \A j \in bad : ~(j < i)
          BY <4>1, <5>1, LeastOne
        <5>3. i # 0
          BY <5>2 DEF Behind
        <5>4. i - 1 \in 0..m /\ i \in 1..m /\ i - 1 < i
          BY <1>1, <5>2, <5>3
        <5>5. i - 1 <= Behind(cuts, i - 1) /\ Behind(cuts, i) = cuts[i] /\ cuts[i] \in 1..n
          BY <1>1, <5>2, <5>3, <5>4 DEF Behind
        <5>6. Behind(cuts, i - 1) + 1 <= cuts[i] /\ Behind(cuts, i - 1) \in 0..n
          BY <1>1, <5>4, PlannedFacts DEF BatchOK
        <5>7. i <= Behind(cuts, i)
          <6> HIDE DEF m, n, bad
          <6> QED BY <1>1, <5>4, <5>5, <5>6
        <5> QED BY <5>2, <5>7
      <4> QED BY <4>1
    <3>3. m <= Behind(cuts, m)
      BY <1>1, <3>2
    <3> QED BY <1>1, <2>4, <3>3
  <2>7. cuts \in [1..m -> DOMAIN sizes]
    <3>1. cuts = [i \in 1..m |-> cuts[i]]
      BY <1>1
    <3> HIDE DEF m, n
    <3> QED BY <1>1, <3>1
  <2> HIDE DEF m
  <2>8. cuts \in UNION {[1..k -> DOMAIN sizes] : k \in 0..n}
    BY <2>6, <2>7
  <2> QED BY <1>1, <2>5, <2>8 DEF Divisions
<1>3. ASSUME stage = "packet" PROVE Affordable(cuts)
  <2>1. \A i \in DOMAIN cuts : Fits(From(cuts, i), cuts[i])
    BY DEF BatchOK, Greedy
  <2> QED BY <2>1 DEF BatchOK, Affordable
<1>4. stage = "refused" => \A c \in Divisions : ~Affordable(c)
  BY DEF BatchOK
<1> QED BY <1>2, <1>3, <1>4 DEF BatchesBest

---------------------------------------------------------------------------
(***************************************************************************)
(* Covered bytes.                                                          *)
(***************************************************************************)

\* The bytes of the windows i of S.
Bytes(S) == UNION {anchors[i][1]..(anchors[i][2] - 1) : i \in S}

Passed == DOMAIN anchors \ todo

\* The windows that were passed start before those to come, and end by priorEnd.
CoverOK ==
    /\ stage # "cover" => anchors = <<>> /\ covered = 0
    /\ stage = "cover" =>
         /\ anchors \in Seq(Intervals) /\ todo \subseteq DOMAIN anchors
         /\ priorEnd \in Nat /\ covered = Cardinality(Bytes(Passed))
         /\ \A i \in Passed : anchors[i][2] <= priorEnd
         /\ priorEnd # 0 => \E i \in Passed : anchors[i][2] = priorEnd
         /\ \A i \in Passed, j \in todo : anchors[i][1] <= anchors[j][1]

LEMMA NoBytes ==
    ASSUME Passed = {}
    PROVE  Cardinality(Bytes(Passed)) = 0
<1>1. Bytes(Passed) = {}
  BY DEF Bytes
<1> QED BY <1>1, FS_EmptySet

LEMMA CoverStarts == ScanInit => CoverOK
<1> SUFFICES ASSUME ScanInit PROVE CoverOK
  OBVIOUS
<1>1. /\ todo = DOMAIN anchors /\ covered = 0 /\ priorEnd = 0
      /\ stage # "cover" => anchors = <<>>
  BY DEF ScanInit
<1>2. Passed = {}
  BY <1>1 DEF Passed
<1>3. ASSUME stage = "cover" PROVE anchors \in Seq(Intervals)
  <2>1. PICK k \in 0..MaxWindows : anchors \in [1..k -> Intervals]
    BY <1>3 DEF ScanInit
  <2>2. k \in Nat
    BY <2>1, ScanAssumption
  <2> QED BY <2>1, <2>2
<1> QED BY <1>1, <1>2, <1>3, NoBytes DEF CoverOK

LEMMA IntervalFacts ==
    ASSUME anchors \in Seq(Intervals), NEW i \in DOMAIN anchors
    PROVE  /\ anchors[i][1] \in Nat /\ anchors[i][2] \in Nat
           /\ anchors[i][1] < anchors[i][2] /\ anchors[i][2] <= TextBytes
<1>1. anchors[i] \in Intervals
  OBVIOUS
<1>2. PICK a \in 0..TextBytes, b \in 0..TextBytes : anchors[i] = <<a, b>> /\ anchors[i][1] < anchors[i][2]
  BY <1>1 DEF Intervals
<1> QED BY <1>2, ScanAssumption

\* The bytes that a window adds are those after the largest end before it.
LEMMA WindowAdds ==
    ASSUME CoverOK, NEW i, CoverWindow(i)
    PROVE  /\ covered' = Cardinality(Bytes(Passed \cup {i}))
           /\ \A j \in todo : anchors[i][1] <= anchors[j][1]
           /\ priorEnd' \in Nat /\ priorEnd <= priorEnd' /\ anchors[i][2] <= priorEnd'
           /\ priorEnd' = priorEnd \/ priorEnd' = anchors[i][2]
<1> DEFINE a == anchors[i][1]
           b == anchors[i][2]
           p == priorEnd
           start == Max({a, p})
           old == Bytes(Passed)
           added == start..(b - 1)
<1>1. /\ stage = "cover" /\ anchors \in Seq(Intervals) /\ i \in DOMAIN anchors /\ i \in todo
      /\ p \in Nat /\ covered = Cardinality(old) /\ todo \subseteq DOMAIN anchors
      /\ \A j \in Passed : anchors[j][2] <= p
      /\ p # 0 => \E j \in Passed : anchors[j][2] = p
      /\ \A j \in Passed, k \in todo : anchors[j][1] <= anchors[k][1]
  BY DEF CoverOK, CoverWindow
<1>2. a \in Nat /\ b \in Nat /\ a < b /\ b <= TextBytes
  BY <1>1, IntervalFacts
<1>3. start \in {a, p} /\ a <= start /\ p <= start
  <2>1. {a, p} \in SUBSET Nat /\ \A x \in {a, p} : x <= a + p
    BY <1>1, <1>2
  <2>2. a + p \in Nat
    BY <1>1, <1>2
  <2> HIDE DEF a, p
  <2> QED BY <2>1, <2>2, MaxFacts
<1>4. covered' = covered + (IF start < b THEN b - start ELSE 0)
  BY DEF CoverWindow, NewBytes
<1>5. priorEnd' \in Nat /\ p <= priorEnd' /\ b <= priorEnd' /\ (priorEnd' = p \/ priorEnd' = b)
  <2>1. priorEnd' = Max({p, b})
    BY DEF CoverWindow, Reach
  <2>2. {p, b} \in SUBSET Nat /\ \A x \in {p, b} : x <= p + b
    BY <1>1, <1>2
  <2>3. p + b \in Nat
    BY <1>1, <1>2
  <2> HIDE DEF p, b
  <2>4. Max({p, b}) \in {p, b} /\ \A x \in {p, b} : x <= Max({p, b})
    BY <2>2, <2>3, MaxFacts
  <2> QED BY <1>1, <1>2, <2>1, <2>4
<1>6. ASSUME NEW j \in todo PROVE a <= anchors[j][1]
  <2>1. ~Sooner(anchors[j], anchors[i]) /\ anchors[j][1] \in Nat
    BY <1>1, IntervalFacts DEF CoverWindow
  <2> QED BY <1>2, <2>1 DEF Sooner
<1>7. Bytes(Passed \cup {i}) = old \cup (a..(b - 1))
  BY DEF Bytes
<1>8. old \cup (a..(b - 1)) = old \cup added
  <2>1. ASSUME NEW x \in added PROVE x \in a..(b - 1)
    <3> HIDE DEF start, a, b, p
    <3> QED BY <1>1, <1>2, <1>3, <2>1
  <2>2. ASSUME NEW x \in a..(b - 1), x \notin added PROVE x \in old
    <3>1. x \in Nat /\ a <= x /\ x < p
      <4> HIDE DEF start, a, b, p
      <4> QED BY <1>1, <1>2, <1>3, <2>2
    <3>2. PICK j \in Passed : anchors[j][2] = p
      <4>1. p # 0
        BY <1>1, <3>1
      <4> QED BY <1>1, <4>1
    <3>3. anchors[j][1] <= a /\ anchors[j][1] \in Nat
      <4>1. j \in DOMAIN anchors
        BY DEF Passed
      <4> QED BY <1>1, <4>1, IntervalFacts
    <3>4. x \in anchors[j][1]..(anchors[j][2] - 1)
      BY <1>1, <1>2, <3>1, <3>2, <3>3
    <3> QED BY <3>4 DEF Bytes
  <2> HIDE DEF old, added
  <2> QED BY <2>1, <2>2
<1>9. old \cap added = {}
  <2> SUFFICES ASSUME NEW x \in old, x \in added PROVE FALSE
    OBVIOUS
  <2>1. PICK j \in Passed : x \in anchors[j][1]..(anchors[j][2] - 1)
    BY DEF Bytes
  <2>2. anchors[j][2] <= p /\ anchors[j][2] \in Nat
    <3>1. j \in DOMAIN anchors
      BY DEF Passed
    <3> QED BY <1>1, <3>1, IntervalFacts
  <2>3. x < p
    BY <1>1, <2>1, <2>2
  <2> HIDE DEF start, a, b, p
  <2> QED BY <1>1, <1>2, <1>3, <2>3
<1>10. IsFiniteSet(old)
  <2>1. IsFiniteSet(0..TextBytes)
    BY FS_Interval, ScanAssumption
  <2>2. ASSUME NEW x \in old PROVE x \in 0..TextBytes
    <3>1. PICK j \in Passed : x \in anchors[j][1]..(anchors[j][2] - 1)
      BY DEF Bytes
    <3>2. j \in DOMAIN anchors
      BY DEF Passed
    <3>3. /\ anchors[j][1] \in Nat /\ anchors[j][2] \in Nat /\ anchors[j][2] <= TextBytes
          /\ TextBytes \in Nat
      BY <1>1, <3>2, IntervalFacts, ScanAssumption
    <3> QED BY <3>1, <3>3
  <2> HIDE DEF old
  <2> QED BY <2>1, <2>2, FS_Subset
<1>11. IsFiniteSet(added) /\ Cardinality(added) = IF start < b THEN b - start ELSE 0
  <2> HIDE DEF start, b, a, p
  <2>1. start \in Int /\ b - 1 \in Int
    BY <1>1, <1>2, <1>3
  <2>2. Cardinality(added) = IF start > b - 1 THEN 0 ELSE b - 1 - start + 1
    BY <2>1, FS_Interval
  <2> QED BY <1>2, <2>1, <2>2, FS_Interval
<1>12. Cardinality(old \cup added) = Cardinality(old) + Cardinality(added)
  <2> HIDE DEF old, added
  <2>1. Cardinality(old \cup added) = Cardinality(old) + Cardinality(added) - Cardinality({})
    BY <1>9, <1>10, <1>11, FS_Union
  <2>2. Cardinality(old) \in Nat /\ Cardinality(added) \in Nat /\ Cardinality({}) = 0
    BY <1>10, <1>11, FS_CardinalityType, FS_EmptySet
  <2> QED BY <2>1, <2>2
<1>13. covered' = Cardinality(Bytes(Passed \cup {i}))
  BY <1>1, <1>4, <1>7, <1>8, <1>11, <1>12
<1> QED BY <1>5, <1>6, <1>13

LEMMA CoverStep ==
    ASSUME CoverOK, [ScanNext]_scanVars
    PROVE  CoverOK'
<1>1. ASSUME NEW i \in todo, CoverWindow(i) PROVE CoverOK'
  <2>1. /\ stage = "cover" /\ stage' = stage /\ anchors' = anchors /\ todo' = todo \ {i}
        /\ i \in todo
    BY <1>1 DEF CoverWindow
  <2>2. /\ anchors \in Seq(Intervals) /\ todo \subseteq DOMAIN anchors /\ priorEnd \in Nat
        /\ \A j \in Passed : anchors[j][2] <= priorEnd
        /\ priorEnd # 0 => \E j \in Passed : anchors[j][2] = priorEnd
        /\ \A j \in Passed, k \in todo : anchors[j][1] <= anchors[k][1]
    BY <2>1 DEF CoverOK
  <2>3. Passed' = Passed \cup {i}
    BY <2>1, <2>2 DEF Passed
  <2>4. /\ covered' = Cardinality(Bytes(Passed \cup {i}))
        /\ \A j \in todo : anchors[i][1] <= anchors[j][1]
        /\ priorEnd' \in Nat /\ priorEnd <= priorEnd' /\ anchors[i][2] <= priorEnd'
        /\ priorEnd' = priorEnd \/ priorEnd' = anchors[i][2]
    BY <1>1, WindowAdds
  <2>5. Bytes(Passed)' = Bytes(Passed \cup {i})
    BY <2>1, <2>3 DEF Bytes
  <2>6. ASSUME NEW j \in Passed \cup {i} PROVE anchors[j][2] <= priorEnd'
    <3>1. CASE j = i
      BY <2>4, <3>1
    <3>2. CASE j # i
      <4>1. j \in Passed /\ j \in DOMAIN anchors
        BY <3>2 DEF Passed
      <4>2. anchors[j][2] <= priorEnd /\ anchors[j][2] \in Nat
        BY <2>2, <4>1, IntervalFacts
      <4> QED BY <2>2, <2>4, <4>2
    <3> QED BY <3>1, <3>2
  <2>7. priorEnd' # 0 => \E j \in Passed \cup {i} : anchors[j][2] = priorEnd'
    BY <2>2, <2>4
  <2>8. \A j \in Passed \cup {i}, k \in todo \ {i} : anchors[j][1] <= anchors[k][1]
    BY <2>2, <2>4
  <2> QED BY <2>1, <2>2, <2>3, <2>4, <2>5, <2>6, <2>7, <2>8 DEF CoverOK
<1>2. CASE TakeBatch \/ Answered \/ \E i \in todo : Consider(i)
  <2>1. /\ stage # "cover" /\ stage' # "cover" /\ anchors' = anchors /\ covered' = covered
    BY <1>2 DEF TakeBatch, Answered, Consider
  <2> QED BY <2>1 DEF CoverOK
<1>3. CASE UNCHANGED scanVars
  <2>1. UNCHANGED <<stage, anchors, todo, covered, priorEnd>>
    BY <1>3 DEF scanVars
  <2>2. Passed' = Passed /\ Bytes(Passed)' = Bytes(Passed)
    BY <2>1 DEF Passed, Bytes
  <2> QED BY <2>1, <2>2 DEF CoverOK
<1> QED BY <1>1, <1>2, <1>3 DEF ScanNext

LEMMA CoverIs ==
    ASSUME CoverOK
    PROVE  CoverExact
<1>1. CoverExact <=> covered = Cardinality(Bytes(Passed))
  BY DEF CoverExact, Bytes, Passed
<1>2. CASE stage = "cover"
  BY <1>1, <1>2 DEF CoverOK
<1>3. CASE stage # "cover"
  <2>1. anchors = <<>> /\ covered = 0
    BY <1>3 DEF CoverOK
  <2>2. Passed = {}
    BY <2>1 DEF Passed
  <2> QED BY <1>1, <2>1, <2>2, NoBytes
<1> QED BY <1>2, <1>3

---------------------------------------------------------------------------
(***************************************************************************)
(* The packet.                                                             *)
(***************************************************************************)

Scored == {i \in DOMAIN scores : scores[i] > 0}
Taken  == Scored \ todo

\* i comes after m of the chosen ones and does not fit with them.
LeftOut(c, m, i) ==
    /\ \A k \in DOMAIN c : Better(c[k], i) <=> k <= m
    /\ m = MaxSelected \/ Sums(SizesOf(c))[m] + sizes[i] > MaxPacket

InRank(c) == \A k, l \in DOMAIN c : k < l => Better(c[k], c[l])

ChosenFrom(c, S) == c \in Seq(Nat) /\ \A k \in DOMAIN c : c[k] \in S

PacketOK ==
    /\ SizesOK
    /\ stage # "packet" => scores = <<>> /\ packet = NoPacket
    /\ stage = "packet" =>
         /\ scores \in [DOMAIN sizes -> Nat] /\ todo \subseteq Scored
         /\ packet = [chosen |-> packet.chosen, omitted |-> packet.omitted,
                      bytes |-> packet.bytes]
         /\ packet.omitted \in Nat /\ ChosenFrom(packet.chosen, Taken)
         /\ \A i \in Taken, j \in todo : Better(i, j)
         /\ InRank(packet.chosen)
         /\ Len(packet.chosen) + packet.omitted = Cardinality(Taken)
         /\ Len(packet.chosen) <= MaxSelected
         /\ packet.bytes = Sums(SizesOf(packet.chosen))[Len(packet.chosen)]
         /\ packet.bytes <= MaxPacket
         /\ \A i \in Taken \ {packet.chosen[k] : k \in DOMAIN packet.chosen} :
              \E m \in 0..Len(packet.chosen) : LeftOut(packet.chosen, m, i)

\* The order of the candidates.
LEMMA RankFacts ==
    ASSUME SizesOK, scores \in [DOMAIN sizes -> Nat]
    PROVE  /\ Scored \subseteq DOMAIN sizes /\ Scored \subseteq Nat /\ IsFiniteSet(Scored)
           /\ \A i, j \in Scored : Better(i, j) => ~Better(j, i)
           /\ \A i, j \in Scored : i # j /\ ~Better(j, i) => Better(i, j)
<1>1. DOMAIN sizes = 1..Len(sizes) /\ Len(sizes) \in Nat
  BY DEF SizesOK
<1>2. Scored \subseteq 1..Len(sizes) /\ \A i \in Scored : scores[i] \in Nat /\ i \in Nat
  BY <1>1 DEF Scored
<1>3. IsFiniteSet(Scored)
  <2>1. IsFiniteSet(1..Len(sizes))
    BY <1>1, FS_Interval
  <2> QED BY <1>2, <2>1, FS_Subset
<1>4. ASSUME NEW i \in Scored, NEW j \in Scored
      PROVE  /\ Better(i, j) => ~Better(j, i)
             /\ i # j /\ ~Better(j, i) => Better(i, j)
  BY <1>2 DEF Better
<1> QED BY <1>1, <1>2, <1>3, <1>4

LEMMA SizesOfFacts ==
    ASSUME SizesOK, NEW c \in Seq(Nat), \A k \in DOMAIN c : c[k] \in DOMAIN sizes
    PROVE  /\ SizesOf(c) \in Seq(Nat) /\ Len(SizesOf(c)) = Len(c)
           /\ \A k \in DOMAIN c : SizesOf(c)[k] = sizes[c[k]]
<1> DEFINE s == SizesOf(c)
           n == Len(c)
<1>1. n \in Nat /\ DOMAIN c = 1..n
  OBVIOUS
<1>2. \A k \in 1..n : s[k] = sizes[c[k]] /\ s[k] \in Nat
  BY <1>1 DEF SizesOf, SizesOK
<1>3. s = [k \in 1..n |-> s[k]]
  BY <1>1 DEF SizesOf
<1> HIDE DEF s, n
<1>4. s \in [1..n -> Nat]
  BY <1>2, <1>3
<1>5. s \in Seq(Nat) /\ Len(s) = n
  BY <1>1, <1>4
<1> QED BY <1>1, <1>2, <1>5 DEF s, n

\* Nothing is chosen at first.
LEMMA NothingChosen ==
    ASSUME SizesOK
    PROVE  Sums(SizesOf(<<>>))[0] = 0
<1> DEFINE c == <<>>
<1>1. c \in Seq(Nat) /\ \A k \in DOMAIN c : c[k] \in DOMAIN sizes
  OBVIOUS
<1> HIDE DEF c
<1>2. SizesOf(c) \in Seq(Nat)
  BY <1>1, SizesOfFacts
<1> QED BY <1>2, SumsFacts DEF c

\* One candidate more.
LEMMA OneMore ==
    ASSUME SizesOK, NEW c \in Seq(Nat), \A k \in DOMAIN c : c[k] \in DOMAIN sizes,
           NEW i \in DOMAIN sizes
    PROVE  LET d == Append(c, i) IN
           /\ d \in Seq(Nat) /\ Len(d) = Len(c) + 1 /\ d[Len(c) + 1] = i
           /\ DOMAIN d = 1..(Len(c) + 1) /\ \A k \in DOMAIN c : d[k] = c[k]
           /\ \A m \in 0..Len(c) : Sums(SizesOf(d))[m] = Sums(SizesOf(c))[m]
           /\ Sums(SizesOf(d))[Len(d)] = Sums(SizesOf(c))[Len(c)] + sizes[i]
<1> DEFINE d == Append(c, i)
           n == Len(c)
<1>1. n \in Nat /\ DOMAIN c = 1..n /\ DOMAIN sizes \subseteq Nat
  BY DEF SizesOK
<1>2. /\ d \in Seq(Nat) /\ Len(d) = n + 1 /\ d[n + 1] = i
      /\ DOMAIN d = 1..(n + 1) /\ \A k \in 1..n : d[k] = c[k]
  BY <1>1
<1> HIDE DEF d, n
<1>3. ASSUME NEW k \in DOMAIN d PROVE d[k] \in DOMAIN sizes
  <2>1. k \in 1..n \/ k = n + 1
    BY <1>1, <1>2
  <2> QED BY <1>1, <1>2, <2>1
<1>4. /\ SizesOf(c) \in Seq(Nat) /\ Len(SizesOf(c)) = n
      /\ \A k \in 1..n : SizesOf(c)[k] = sizes[c[k]]
  BY <1>1, SizesOfFacts DEF n
<1>5. /\ SizesOf(d) \in Seq(Nat) /\ Len(SizesOf(d)) = n + 1
      /\ \A k \in 1..(n + 1) : SizesOf(d)[k] = sizes[d[k]]
  BY <1>2, <1>3, SizesOfFacts
<1>6. \A k \in 1..n : SizesOf(d)[k] = SizesOf(c)[k]
  <2> SUFFICES ASSUME NEW k \in 1..n PROVE SizesOf(d)[k] = SizesOf(c)[k]
    OBVIOUS
  <2>1. k \in 1..(n + 1)
    BY <1>1
  <2>2. d[k] = c[k]
    BY <1>1, <1>2
  <2> QED BY <1>4, <1>5, <2>1, <2>2
<1>7. \A m \in 0..n : Sums(SizesOf(d))[m] = Sums(SizesOf(c))[m]
  <2>1. n <= n + 1 /\ n <= n
    BY <1>1
  <2> QED BY <1>1, <1>4, <1>5, <1>6, <2>1, SumsAgree
<1>8. Sums(SizesOf(d))[n + 1] = Sums(SizesOf(c))[n] + sizes[i]
  <2>1. ASSUME NEW k, k = n + 1
        PROVE  Sums(SizesOf(d))[k] = Sums(SizesOf(d))[n] + SizesOf(d)[k]
    <3>1. k \in 1..Len(SizesOf(d)) /\ k - 1 = n
      BY <1>1, <1>5, <2>1
    <3>2. Sums(SizesOf(d))[k] = Sums(SizesOf(d))[k - 1] + SizesOf(d)[k]
      BY <1>5, <3>1, SumsFacts
    <3> QED BY <3>1, <3>2
  <2>2. n + 1 \in 1..(n + 1) /\ n \in 0..n
    BY <1>1
  <2> QED BY <1>2, <1>5, <1>7, <2>1, <2>2
<1> QED BY <1>1, <1>2, <1>7, <1>8 DEF d, n

LEMMA PacketStarts == ScanInit => PacketOK
<1> SUFFICES ASSUME ScanInit PROVE PacketOK
  OBVIOUS
<1>1. stage # "packet" /\ scores = <<>> /\ packet = NoPacket
  BY DEF ScanInit
<1> QED BY <1>1, SizesInit DEF PacketOK

\* What is said of the packet depends on the sizes and the scores.
LEMMA RanksKept ==
    ASSUME sizes' = sizes, scores' = scores
    PROVE  /\ SizesOK' = SizesOK /\ Scored' = Scored
           /\ \A i, j : Better(i, j)' = Better(i, j)
           /\ InRank(packet.chosen)' = InRank(packet'.chosen)
           /\ ChosenFrom(packet.chosen, Taken)' = ChosenFrom(packet'.chosen, Taken')
           /\ Sums(SizesOf(packet.chosen))' = Sums(SizesOf(packet'.chosen))
           /\ \A m, i : LeftOut(packet.chosen, m, i)' = LeftOut(packet'.chosen, m, i)
<1>1. \A i, j : Better(i, j)' = Better(i, j)
  BY DEF Better
<1>2. Sums(SizesOf(packet.chosen))' = Sums(SizesOf(packet'.chosen))
  BY DEF SizesOf
<1>3. InRank(packet.chosen)' = InRank(packet'.chosen)
  BY <1>1 DEF InRank
<1>4. ChosenFrom(packet.chosen, Taken)' = ChosenFrom(packet'.chosen, Taken')
  BY DEF ChosenFrom
<1>5. \A m, i : LeftOut(packet.chosen, m, i)' = LeftOut(packet'.chosen, m, i)
  BY <1>1, <1>2 DEF LeftOut
<1> QED BY <1>1, <1>2, <1>3, <1>4, <1>5 DEF SizesOK, Scored

\* The best that is left is chosen or omitted.
LEMMA ConsiderStep ==
    ASSUME PacketOK, NEW i, Consider(i)
    PROVE  PacketOK'
<1> DEFINE c == packet.chosen
           d == packet'.chosen
           n == Len(c)
           chosen(s) == {s[k] : k \in DOMAIN s}
<1>1. /\ stage = "packet" /\ i \in todo /\ (\A j \in todo : ~Better(j, i))
      /\ todo' = todo \ {i} /\ stage' = stage /\ sizes' = sizes /\ scores' = scores
  BY DEF Consider
<1>2. /\ SizesOK /\ scores \in [DOMAIN sizes -> Nat] /\ todo \subseteq Scored
      /\ packet = [chosen |-> packet.chosen, omitted |-> packet.omitted, bytes |-> packet.bytes]
      /\ packet.omitted \in Nat /\ ChosenFrom(c, Taken)
      /\ \A j \in Taken, k \in todo : Better(j, k)
      /\ InRank(c) /\ n + packet.omitted = Cardinality(Taken) /\ n <= MaxSelected
      /\ packet.bytes = Sums(SizesOf(c))[n] /\ packet.bytes <= MaxPacket
      /\ \A j \in Taken \ chosen(c) : \E m \in 0..n : LeftOut(c, m, j)
  BY <1>1 DEF PacketOK
<1>3. /\ Scored \subseteq DOMAIN sizes /\ Scored \subseteq Nat /\ IsFiniteSet(Scored)
      /\ \A j, k \in Scored : Better(j, k) => ~Better(k, j)
      /\ \A j, k \in Scored : j # k /\ ~Better(k, j) => Better(j, k)
  BY <1>2, RankFacts
<1>4. i \in Scored /\ i \notin Taken /\ Taken \subseteq Scored
  BY <1>1, <1>2 DEF Taken
<1>5. Taken' = Taken \cup {i} /\ Scored' = Scored
  <2>1. Scored' = Scored
    BY <1>1 DEF Scored
  <2> QED BY <1>1, <1>4, <2>1 DEF Taken
<1>6. Cardinality(Taken \cup {i}) = Cardinality(Taken) + 1
  <2>1. IsFiniteSet(Taken)
    BY <1>3, <1>4, FS_Subset
  <2> QED BY <1>4, <2>1, FS_AddElement
<1>7. /\ c \in Seq(Nat) /\ n \in Nat /\ DOMAIN c = 1..n
      /\ \A k \in DOMAIN c : c[k] \in Taken /\ c[k] \in DOMAIN sizes
  BY <1>2, <1>3, <1>4 DEF ChosenFrom
<1>8. i \in DOMAIN sizes /\ i \in Nat /\ sizes[i] \in Nat
  BY <1>2, <1>3, <1>4 DEF SizesOK
<1>9. \A j \in Taken \cup {i}, k \in todo \ {i} : Better(j, k)
  BY <1>1, <1>2, <1>3, <1>4
<1>10. \A j \in Taken : Better(j, i)
  BY <1>1, <1>2
<1>11. CASE HasRoom(i)
  <2>1. packet' = [packet EXCEPT !.chosen = Append(@, i), !.bytes = @ + sizes[i]]
    BY <1>11 DEF Consider
  <2>2. /\ d = Append(c, i) /\ packet'.omitted = packet.omitted
        /\ packet'.bytes = packet.bytes + sizes[i]
        /\ packet' = [chosen |-> packet'.chosen, omitted |-> packet'.omitted,
                      bytes |-> packet'.bytes]
    BY <1>2, <2>1
  <2>3. n < MaxSelected /\ packet'.bytes <= MaxPacket
    BY <1>11, <2>2 DEF HasRoom
  <2> HIDE DEF c, d
  <2>4. /\ d \in Seq(Nat) /\ Len(d) = n + 1 /\ d[n + 1] = i
        /\ DOMAIN d = 1..(n + 1) /\ \A k \in DOMAIN c : d[k] = c[k]
        /\ \A m \in 0..n : Sums(SizesOf(d))[m] = Sums(SizesOf(c))[m]
        /\ Sums(SizesOf(d))[Len(d)] = Sums(SizesOf(c))[n] + sizes[i]
    BY <1>2, <1>7, <1>8, <2>2, OneMore
  <2>5. \A k \in DOMAIN d : k \in DOMAIN c \/ k = n + 1
    BY <1>7, <2>4
  <2>6. ChosenFrom(d, Taken \cup {i})
    BY <1>7, <2>4, <2>5 DEF ChosenFrom
  <2>7. InRank(d)
    <3> SUFFICES ASSUME NEW k \in DOMAIN d, NEW l \in DOMAIN d, k < l
                 PROVE  Better(d[k], d[l])
      BY DEF InRank
    <3>1. k \in DOMAIN c /\ d[k] = c[k] /\ c[k] \in Taken
      <4>1. k # n + 1
        BY <1>7, <2>4
      <4> QED BY <1>7, <2>4, <2>5, <4>1
    <3>2. CASE l = n + 1
      BY <1>10, <2>4, <3>1, <3>2
    <3>3. CASE l # n + 1
      <4>1. l \in DOMAIN c /\ d[l] = c[l]
        BY <2>4, <2>5, <3>3
      <4> QED BY <1>2, <3>1, <4>1 DEF InRank
    <3> QED BY <3>2, <3>3
  <2>8. Len(d) + packet'.omitted = Cardinality(Taken \cup {i})
    <3>1. n + 1 + packet.omitted = n + packet.omitted + 1
      BY <1>2, <1>7
    <3> QED BY <1>2, <1>6, <2>2, <2>4, <3>1
  <2>9. Len(d) <= MaxSelected /\ packet'.bytes = Sums(SizesOf(d))[Len(d)]
    <3>1. n + 1 <= MaxSelected
      BY <1>7, <2>3, ScanAssumption
    <3> QED BY <1>2, <2>2, <2>4, <3>1
  <2>10. ASSUME NEW j \in (Taken \cup {i}) \ chosen(d)
         PROVE  \E m \in 0..Len(d) : LeftOut(d, m, j)
    <3>1. j # i
      <4>1. n + 1 \in DOMAIN d
        BY <1>7, <2>4
      <4> QED BY <2>4, <2>10, <4>1
    <3>2. j \in Taken \ chosen(c)
      <4> SUFFICES ASSUME j \in chosen(c) PROVE FALSE
        BY <2>10, <3>1
      <4>1. PICK k \in DOMAIN c : j = c[k]
        OBVIOUS
      <4>2. k \in DOMAIN d /\ d[k] = j
        BY <1>7, <2>4, <4>1
      <4> QED BY <2>10, <4>2
    <3>3. PICK m \in 0..n : LeftOut(c, m, j)
      BY <1>2, <3>2
    <3>4. ASSUME NEW k \in DOMAIN d PROVE Better(d[k], j) <=> k <= m
      <4>1. CASE k = n + 1
        <5>1. d[k] = i /\ ~Better(i, j)
          BY <1>3, <1>4, <1>10, <2>4, <3>2, <4>1
        <5>2. ~(k <= m)
          BY <1>7, <3>3, <4>1
        <5> QED BY <5>1, <5>2
      <4>2. CASE k # n + 1
        <5>1. k \in DOMAIN c /\ d[k] = c[k]
          BY <2>4, <2>5, <4>2
        <5> QED BY <3>3, <5>1 DEF LeftOut
      <4> QED BY <4>1, <4>2
    <3>5. m = MaxSelected \/ Sums(SizesOf(d))[m] + sizes[j] > MaxPacket
      BY <2>4, <3>3 DEF LeftOut
    <3>6. m \in 0..Len(d)
      BY <1>7, <2>4, <3>3
    <3>7. LeftOut(d, m, j)
      BY <3>4, <3>5 DEF LeftOut
    <3> QED BY <3>6, <3>7
  <2> HIDE DEF chosen
  <2>11. \A j \in Taken' \ chosen(d) : \E m \in 0..Len(d) : LeftOut(d, m, j)
    BY <1>5, <2>10
  <2>12. /\ packet'.omitted \in Nat /\ ChosenFrom(d, Taken') /\ InRank(d)
         /\ \A j \in Taken', k \in todo' : Better(j, k)
         /\ Len(d) + packet'.omitted = Cardinality(Taken')
         /\ todo' \subseteq Scored
    BY <1>1, <1>2, <1>5, <1>9, <2>2, <2>6, <2>7, <2>8
  <2>13. /\ InRank(packet.chosen)' /\ ChosenFrom(packet.chosen, Taken)'
         /\ packet'.bytes = Sums(SizesOf(packet.chosen))'[Len(packet'.chosen)]
         /\ \A j \in Taken' \ {packet'.chosen[k] : k \in DOMAIN packet'.chosen} :
              \E m \in 0..Len(packet'.chosen) : LeftOut(packet.chosen, m, j)'
    BY <1>1, <2>9, <2>11, <2>12, RanksKept DEF d, chosen
  <2>14. /\ SizesOK' /\ scores' \in [DOMAIN sizes' -> Nat] /\ todo' \subseteq Scored'
         /\ \A j \in Taken', k \in todo' : Better(j, k)'
    BY <1>1, <1>2, <1>5, <2>12, RanksKept
  <2>15. /\ Len(packet'.chosen) + packet'.omitted = Cardinality(Taken')
         /\ Len(packet'.chosen) <= MaxSelected /\ packet'.omitted \in Nat
    BY <2>9, <2>12 DEF d
  <2> QED BY <1>1, <2>2, <2>3, <2>13, <2>14, <2>15 DEF PacketOK
<1>12. CASE ~HasRoom(i)
  <2>1. packet' = [packet EXCEPT !.omitted = @ + 1]
    BY <1>12 DEF Consider
  <2>2. /\ d = c /\ packet'.omitted = packet.omitted + 1 /\ packet'.bytes = packet.bytes
        /\ packet' = [chosen |-> packet'.chosen, omitted |-> packet'.omitted,
                      bytes |-> packet'.bytes]
    BY <1>2, <2>1
  <2>3. n = MaxSelected \/ Sums(SizesOf(c))[n] + sizes[i] > MaxPacket
    <3>1. ~(n < MaxSelected) \/ ~(packet.bytes + sizes[i] <= MaxPacket)
      BY <1>12 DEF HasRoom
    <3>2. packet.bytes \in Nat
      <4>1. SizesOf(c) \in Seq(Nat) /\ Len(SizesOf(c)) = n
        BY <1>2, <1>7, SizesOfFacts
      <4>2. n \in 0..Len(SizesOf(c))
        BY <1>7, <4>1
      <4> QED BY <1>2, <4>1, <4>2, SumsFacts
    <3>3. n \in Nat /\ n <= MaxSelected /\ MaxSelected \in Nat /\ MaxPacket \in Nat
      BY <1>2, <1>7, ScanAssumption
    <3>4. packet.bytes = Sums(SizesOf(c))[n]
      BY <1>2
    <3> HIDE DEF n, c
    <3>5. n = MaxSelected \/ packet.bytes + sizes[i] > MaxPacket
      BY <1>8, <3>1, <3>2, <3>3
    <3> QED BY <3>4, <3>5
  <2>4. LeftOut(c, n, i)
    <3>1. \A k \in DOMAIN c : Better(c[k], i) /\ k <= n
      BY <1>7, <1>10
    <3> QED BY <2>3, <3>1 DEF LeftOut
  <2> HIDE DEF c, d
  <2>5. \A j \in (Taken \cup {i}) \ chosen(c) : \E m \in 0..n : LeftOut(c, m, j)
    <3>1. n \in 0..n
      BY <1>7
    <3> HIDE DEF chosen
    <3> QED BY <1>2, <2>4, <3>1
  <2>6. n + packet'.omitted = Cardinality(Taken \cup {i}) /\ packet'.omitted \in Nat
    <3>1. n + (packet.omitted + 1) = n + packet.omitted + 1
      BY <1>2, <1>7
    <3> QED BY <1>2, <1>6, <2>2, <3>1
  <2>7. ChosenFrom(c, Taken \cup {i})
    BY <1>2 DEF ChosenFrom
  <2> HIDE DEF chosen
  <2>8. \A j \in Taken' \ chosen(d) : \E m \in 0..Len(d) : LeftOut(d, m, j)
    BY <1>5, <2>2, <2>5
  <2>9. /\ packet'.omitted \in Nat /\ ChosenFrom(d, Taken') /\ InRank(d)
        /\ \A j \in Taken', k \in todo' : Better(j, k)
        /\ Len(d) + packet'.omitted = Cardinality(Taken')
        /\ todo' \subseteq Scored /\ Len(d) <= MaxSelected
        /\ packet'.bytes = Sums(SizesOf(d))[Len(d)] /\ packet'.bytes <= MaxPacket
    BY <1>1, <1>2, <1>5, <1>9, <2>2, <2>6, <2>7
  <2>10. /\ InRank(packet.chosen)' /\ ChosenFrom(packet.chosen, Taken)'
         /\ packet'.bytes = Sums(SizesOf(packet.chosen))'[Len(packet'.chosen)]
         /\ \A j \in Taken' \ {packet'.chosen[k] : k \in DOMAIN packet'.chosen} :
              \E m \in 0..Len(packet'.chosen) : LeftOut(packet.chosen, m, j)'
    BY <1>1, <2>8, <2>9, RanksKept DEF d, chosen
  <2>11. /\ SizesOK' /\ scores' \in [DOMAIN sizes' -> Nat] /\ todo' \subseteq Scored'
         /\ \A j \in Taken', k \in todo' : Better(j, k)'
    BY <1>1, <1>2, <1>5, <2>9, RanksKept
  <2>12. /\ Len(packet'.chosen) + packet'.omitted = Cardinality(Taken')
         /\ Len(packet'.chosen) <= MaxSelected /\ packet'.omitted \in Nat
         /\ packet'.bytes <= MaxPacket
    BY <2>9 DEF d
  <2> QED BY <1>1, <2>2, <2>10, <2>11, <2>12 DEF PacketOK
<1> QED BY <1>11, <1>12

LEMMA PacketStep ==
    ASSUME PacketOK, [ScanNext]_scanVars
    PROVE  PacketOK'
<1>1. CASE \E i \in todo : Consider(i)
  BY <1>1, ConsiderStep
<1>2. CASE TakeBatch \/ \E i \in todo : CoverWindow(i)
  <2>1. /\ stage # "packet" /\ stage' # "packet" /\ sizes' = sizes
        /\ scores' = scores /\ packet' = packet
    BY <1>2 DEF TakeBatch, CoverWindow
  <2> QED BY <2>1 DEF PacketOK, SizesOK
<1>3. CASE Answered
  <2>1. /\ stage = "batches" /\ stage' = "packet" /\ sizes' = sizes
        /\ scores' \in [DOMAIN sizes -> Grades] /\ packet' = packet
        /\ todo' = {i \in DOMAIN sizes : scores'[i] > 0}
    BY <1>3 DEF Answered
  <2>2. packet = NoPacket /\ SizesOK
    BY <2>1 DEF PacketOK
  <2>3. scores' \in [DOMAIN sizes -> Nat]
    BY <2>1, ScanAssumption
  <2>4. Scored' = todo' /\ Taken' = {}
    BY <2>1 DEF Scored, Taken
  <2> DEFINE c == packet'.chosen
  <2>5. /\ c = <<>> /\ packet'.omitted = 0 /\ packet'.bytes = 0 /\ Len(c) = 0
        /\ packet' = [chosen |-> packet'.chosen, omitted |-> packet'.omitted,
                      bytes |-> packet'.bytes]
    BY <2>1, <2>2 DEF NoPacket
  <2>6. ChosenFrom(c, Taken') /\ DOMAIN c = {}
    BY <2>5 DEF ChosenFrom
  <2>7. InRank(packet.chosen)' /\ ChosenFrom(packet.chosen, Taken)'
    BY <2>6 DEF InRank, ChosenFrom
  <2>8. Sums(SizesOf(packet.chosen))'[0] = 0
    <3>1. SizesOf(packet.chosen)' = SizesOf(<<>>)
      BY <2>5 DEF SizesOf
    <3>2. Sums(SizesOf(packet.chosen))' = Sums(SizesOf(<<>>))
      BY <3>1
    <3> QED BY <2>2, <3>2, NothingChosen
  <2>9. Len(c) + packet'.omitted = Cardinality(Taken')
    BY <2>4, <2>5, FS_EmptySet
  <2>10. MaxSelected \in Nat /\ MaxPacket \in Nat
    BY ScanAssumption
  <2>11. Len(c) <= MaxSelected /\ packet'.bytes <= MaxPacket /\ packet'.omitted \in Nat
    BY <2>5, <2>10
  <2>12. scores' \in [DOMAIN sizes' -> Nat] /\ SizesOK'
    BY <2>1, <2>2, <2>3 DEF SizesOK
  <2>13. packet'.bytes = Sums(SizesOf(packet.chosen))'[Len(packet'.chosen)]
    BY <2>5, <2>8
  <2> QED BY <2>1, <2>4, <2>5, <2>7, <2>9, <2>11, <2>12, <2>13 DEF PacketOK
<1>4. CASE UNCHANGED scanVars
  <2>1. UNCHANGED <<stage, todo, sizes, scores, packet>>
    BY <1>4 DEF scanVars
  <2>2. Taken' = Taken
    BY <2>1 DEF Taken, Scored
  <2> QED BY <2>1, <2>2, RanksKept DEF PacketOK
<1> QED BY <1>1, <1>2, <1>3, <1>4 DEF ScanNext

\* Those that are better than one that is omitted are the first of the chosen ones.
LEMMA PacketIs ==
    ASSUME PacketOK
    PROVE  PacketFair
<1> DEFINE c == packet.chosen
           held == Sums(SizesOf(c))
<1>1. CASE stage # "packet"
  <2>1. scores = <<>> /\ packet = NoPacket /\ SizesOK
    BY <1>1 DEF PacketOK
  <2>2. c = <<>> /\ packet.omitted = 0 /\ {i \in DOMAIN scores : scores[i] > 0} = {}
    BY <2>1 DEF NoPacket
  <2>3. Taken = {} /\ Taken = {i \in DOMAIN scores : scores[i] > 0} \ todo
    BY <2>2 DEF Taken, Scored
  <2>4. held[0] = 0 /\ Cardinality(Taken) = 0
    BY <2>1, <2>2, <2>3, NothingChosen, FS_EmptySet
  <2>5. MaxSelected \in Nat /\ MaxPacket \in Nat
    BY ScanAssumption
  <2>6. DOMAIN c = {} /\ Len(c) = 0
    BY <2>2
  <2> HIDE DEF c
  <2>7. /\ \A k, l \in DOMAIN c : k < l => Better(c[k], c[l])
        /\ Len(c) + packet.omitted = Cardinality(Taken)
        /\ Len(c) <= MaxSelected /\ held[Len(c)] <= MaxPacket
        /\ \A i \in Taken \ {c[k] : k \in DOMAIN c} : FALSE
    BY <2>2, <2>3, <2>4, <2>5, <2>6
  <2> QED BY <2>3, <2>7 DEF PacketFair, c
<1>2. CASE stage = "packet"
  <2>1. /\ SizesOK /\ ChosenFrom(c, Taken) /\ InRank(c)
        /\ Len(c) + packet.omitted = Cardinality(Taken) /\ Len(c) <= MaxSelected
        /\ packet.bytes = held[Len(c)] /\ packet.bytes <= MaxPacket
        /\ \A i \in Taken \ {c[k] : k \in DOMAIN c} : \E m \in 0..Len(c) : LeftOut(c, m, i)
    BY <1>2 DEF PacketOK
  <2> HIDE DEF c
  <2>2. Len(c) \in Nat /\ DOMAIN c = 1..Len(c)
    BY <2>1 DEF ChosenFrom
  <2>3. ASSUME NEW i \in Taken \ {c[k] : k \in DOMAIN c}
        PROVE  LET better == Cardinality({k \in DOMAIN c : Better(c[k], i)})
               IN better = MaxSelected \/ held[better] + sizes[i] > MaxPacket
    <3>1. PICK m \in 0..Len(c) : LeftOut(c, m, i)
      BY <2>1
    <3>2. {k \in DOMAIN c : Better(c[k], i)} = 1..m
      <4>1. \A k \in DOMAIN c : Better(c[k], i) <=> k <= m
        BY <3>1 DEF LeftOut
      <4>2. ASSUME NEW k PROVE k \in 1..m <=> k \in DOMAIN c /\ k <= m
        BY <2>2, <3>1
      <4> QED BY <4>1, <4>2
    <3>3. Cardinality(1..m) = m
      <4>1. m \in Nat /\ 1 \in Int /\ m \in Int
        BY <2>2, <3>1
      <4>2. Cardinality(1..m) = IF 1 > m THEN 0 ELSE m - 1 + 1
        BY <4>1, FS_Interval
      <4> QED BY <4>1, <4>2
    <3>4. m = MaxSelected \/ held[m] + sizes[i] > MaxPacket
      BY <3>1 DEF LeftOut
    <3> QED BY <3>2, <3>3, <3>4
  <2>4. Taken = {i \in DOMAIN scores : scores[i] > 0} \ todo
    BY DEF Taken, Scored
  <2> QED BY <2>1, <2>3, <2>4 DEF PacketFair, InRank, c
<1> QED BY <1>1, <1>2

\* However often windows overlap, touch or lie in one another, covered_bytes counts
\* each of their bytes once, and at any time those of the windows that were taken.
THEOREM BytesCountedOnce == ScanSpec => []CoverExact
<1>1. ScanSpec => []CoverOK
  BY CoverStarts, CoverStep, PTL DEF ScanSpec
<1>2. CoverOK => CoverExact
  BY CoverIs
<1> QED BY <1>1, <1>2, PTL

\* The batches of a scan take each candidate once and keep the budget, and batches
\* refuses the budget only when no way to cut the candidates would keep it.
THEOREM BudgetRefusedRightly == ScanSpec => []BatchesBest
<1>1. ScanSpec => []BatchOK
  BY BatchStarts, BatchStep, PTL DEF ScanSpec
<1>2. BatchOK => BatchesBest
  BY BatchesAre
<1> QED BY <1>1, <1>2, PTL

\* The packet has the best candidates that fit in their order, and counts the others.
THEOREM BestArePacked == ScanSpec => []PacketFair
<1>1. ScanSpec => []PacketOK
  BY PacketStarts, PacketStep, PTL DEF ScanSpec
<1>2. PacketOK => PacketFair
  BY PacketIs
<1> QED BY <1>1, <1>2, PTL

\* What covered_bytes, batches and packet compute from the hints of a document is exact.
THEOREM HintsAreExact == ScanSpec => []HintsExact
<1>1. CoverExact /\ BatchesBest /\ PacketFair => HintsExact
  BY DEF HintsExact
<1> QED BY <1>1, BytesCountedOnce, BudgetRefusedRightly, BestArePacked, PTL
===============================================================================

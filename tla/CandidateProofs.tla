--------------------------- MODULE CandidateProofs ---------------------------
(***************************************************************************)
(* What one search and a planned search deliver, for any corpus, query,    *)
(* views, rankings, judgments, limits and failures.                        *)
(*                                                                         *)
(* One search: ViewInv.  Until the judgment, AllJudged says that a search  *)
(* that still may claim its whole scope has every node of it among its     *)
(* candidates; after it, JudgedList ties the list to the judged            *)
(* candidates.  The limit and the last look only drop hits, and CutAndLook *)
(* says which.                                                             *)
(*                                                                         *)
(* A planned search: UnionInv, of which FinalOK carries the argument.      *)
(* From the moment the candidates have their order on, the hits are judged *)
(* candidates, each before those it beats, and each judged candidate has a *)
(* disposition that is true of it (Explained).  The steps that follow only *)
(* drop hits.                                                              *)
(***************************************************************************)
EXTENDS CandidateView, EvidenceUnion, FiniteSetTheorems, TLAPS

---------------------------------------------------------------------------
(***************************************************************************)
(* Lists and their orders.                                                 *)
(***************************************************************************)

\* The beginning of a sequence.
LEMMA TakeFacts ==
    ASSUME NEW T, NEW s \in Seq(T), NEW n \in Nat
    PROVE  /\ Take(s, n) \in Seq(T)
           /\ Len(Take(s, n)) <= n /\ Len(Take(s, n)) <= Len(s)
           /\ Len(Take(s, n)) < n => Len(Take(s, n)) = Len(s)
           /\ Len(Take(s, n)) < Len(s) => Len(Take(s, n)) = n
           /\ DOMAIN Take(s, n) = 1..Len(Take(s, n))
           /\ \A i \in DOMAIN s : i \in DOMAIN Take(s, n) <=> i <= n
           /\ \A i \in DOMAIN Take(s, n) : i \in DOMAIN s /\ Take(s, n)[i] = s[i]
<1> DEFINE m == IF n < Len(s) THEN n ELSE Len(s)
<1>1. /\ m \in Nat /\ m <= n /\ m <= Len(s) /\ (m < n => m = Len(s))
      /\ (m < Len(s) => m = n) /\ Len(s) \in Nat
  OBVIOUS
<1>2. Take(s, n) = SubSeq(s, 1, m)
  BY DEF Take
<1> HIDE DEF m
<1>3. /\ SubSeq(s, 1, m) \in Seq(T) /\ Len(SubSeq(s, 1, m)) = m
      /\ \A i \in 1..m : SubSeq(s, 1, m)[i] = s[i]
      /\ DOMAIN SubSeq(s, 1, m) = 1..m /\ DOMAIN s = 1..Len(s)
  BY <1>1
<1> DEFINE t == Take(s, n)
<1>4. /\ t \in Seq(T) /\ Len(t) = m /\ DOMAIN t = 1..m
      /\ \A i \in 1..m : t[i] = s[i]
  BY <1>2, <1>3
<1> HIDE DEF t
<1>5. \A i \in 1..m : i \in 1..Len(s)
  BY <1>1
<1>6. \A i \in 1..Len(s) : i \in 1..m <=> i <= n
  BY <1>1
<1>7. \A i \in DOMAIN s : i \in DOMAIN t <=> i <= n
  BY <1>3, <1>4, <1>6
<1>8. \A i \in DOMAIN t : i \in DOMAIN s /\ t[i] = s[i]
  BY <1>3, <1>4, <1>5
<1>9. /\ Len(t) <= n /\ Len(t) <= Len(s) /\ (Len(t) < n => Len(t) = Len(s))
      /\ (Len(t) < Len(s) => Len(t) = n) /\ DOMAIN t = 1..Len(t)
  BY <1>1, <1>4
<1> QED BY <1>4, <1>7, <1>8, <1>9 DEF t

\* A list of all elements of a set has each of them once.
LEMMA SeqsOnto ==
    ASSUME NEW S, IsFiniteSet(S), NEW s \in SetToSeqs(S)
    PROVE  /\ s \in Seq(S) /\ Len(s) = Cardinality(S) /\ Cardinality(S) \in Nat
           /\ DOMAIN s = 1..Len(s)
           /\ \A i, j \in DOMAIN s : s[i] = s[j] => i = j
           /\ \A x \in S : \E i \in DOMAIN s : s[i] = x
           /\ ToSet(s) = S
<1> DEFINE n == Cardinality(S)
<1>1. n \in Nat
  BY FS_CardinalityType
<1>2. /\ s \in [1..n -> S]
      /\ \A i, j \in 1..n : i # j => s[i] # s[j]
  BY DEF SetToSeqs
<1>3. s \in Injection(1..n, S)
  BY <1>2 DEF Injection, IsInjective
<1>4. IsFiniteSet(1..n) /\ Cardinality(1..n) = n
  BY <1>1, FS_Interval
<1>5. s \in Surjection(1..n, S)
  BY <1>3, <1>4, FS_Injection
<1>6. \A x \in S : \E i \in 1..n : s[i] = x
  BY <1>5 DEF Surjection
<1> QED BY <1>1, <1>2, <1>6 DEF ToSet

\* R is a strict total order of S; s is in that order.
Orders(R, S) ==
    /\ \A a, b \in S : a = b \/ <<a, b>> \in R \/ <<b, a>> \in R
    /\ \A a \in S : <<a, a>> \notin R
    /\ \A a, b, c \in S : <<a, b>> \in R /\ <<b, c>> \in R => <<a, c>> \in R

InOrder(s, R) == \A i, j \in DOMAIN s : i < j => <<s[i], s[j]>> \in R

\* A finite set has a list in any strict total order.
LEMMA SortExists ==
    ASSUME NEW S, IsFiniteSet(S), NEW R, Orders(R, S)
    PROVE  \E s \in SetToSeqs(S) : InOrder(s, R)
<1> DEFINE n == Cardinality(S)
           Below(a) == {b \in S : <<b, a>> \in R}
           rank == [a \in S |-> Cardinality(Below(a)) + 1]
<1>1. n \in Nat /\ IsFiniteSet(1..n) /\ Cardinality(1..n) = n
  BY FS_CardinalityType, FS_Interval
<1>2. ASSUME NEW a \in S
      PROVE  IsFiniteSet(Below(a)) /\ Cardinality(Below(a)) \in Nat /\ rank[a] \in 1..n
  <2>1. IsFiniteSet(S \ {a}) /\ Cardinality(S \ {a}) = n - 1
    BY FS_RemoveElement
  <2>2. Below(a) \in SUBSET (S \ {a})
    BY DEF Orders
  <2>3. IsFiniteSet(Below(a)) /\ Cardinality(Below(a)) <= Cardinality(S \ {a})
    BY <2>1, <2>2, FS_Subset, Zenon
  <2>4. Cardinality(Below(a)) \in Nat
    BY <2>3, FS_CardinalityType
  <2> QED BY <1>1, <2>1, <2>3, <2>4
<1>3. ASSUME NEW a \in S, NEW b \in S, <<a, b>> \in R
      PROVE  rank[a] < rank[b]
  <2>1. Below(a) \in SUBSET Below(b) /\ a \in Below(b) /\ a \notin Below(a)
    BY <1>3 DEF Orders
  <2>2. /\ Cardinality(Below(a)) <= Cardinality(Below(b))
        /\ Cardinality(Below(b)) # Cardinality(Below(a))
    BY <1>2, <2>1, FS_Subset, Zenon
  <2> QED BY <1>2, <2>2
<1> HIDE DEF rank, n
<1>4. rank \in [S -> 1..n]
  BY <1>2 DEF rank
<1>5. \A a, b \in S : rank[a] = rank[b] => a = b
  <2> SUFFICES ASSUME NEW a \in S, NEW b \in S, rank[a] = rank[b] PROVE a = b
    OBVIOUS
  <2>1. rank[a] \in Nat
    BY <1>1, <1>4
  <2>2. ~(rank[a] < rank[b]) /\ ~(rank[b] < rank[a])
    BY <2>1
  <2>3. <<a, b>> \notin R /\ <<b, a>> \notin R
    BY <1>3, <2>2
  <2> QED BY <2>3 DEF Orders
<1>6. rank \in Injection(S, 1..n)
  BY <1>4, <1>5 DEF Injection, IsInjective
<1>7. rank \in Surjection(S, 1..n)
  BY <1>1, <1>6, FS_Injection DEF n
<1>8. \A i \in 1..n : \E a \in S : rank[a] = i
  BY <1>7 DEF Surjection
<1> DEFINE s == [i \in 1..n |-> CHOOSE a \in S : rank[a] = i]
<1>9. \A i \in 1..n : s[i] \in S /\ rank[s[i]] = i
  BY <1>8
<1>10. s \in SetToSeqs(S) /\ DOMAIN s = 1..n
  BY <1>9 DEF SetToSeqs, n
<1>11. ASSUME NEW i \in 1..n, NEW j \in 1..n, i < j
       PROVE  <<s[i], s[j]>> \in R
  <2> HIDE DEF s
  <2>1. s[i] # s[j] /\ s[i] \in S /\ s[j] \in S
    BY <1>1, <1>9, <1>11
  <2>2. <<s[j], s[i]>> \notin R
    BY <1>1, <1>3, <1>9, <1>11, <2>1
  <2> QED BY <2>1, <2>2 DEF Orders
<1> HIDE DEF s
<1> QED BY <1>10, <1>11 DEF InOrder

\* Numbers have a list in their order.
LEMMA NumbersSorted ==
    ASSUME NEW S \in SUBSET Nat, IsFiniteSet(S)
    PROVE  \E s \in SetToSeqs(S) : \A i, j \in DOMAIN s : i < j => s[i] < s[j]
<1> DEFINE R == {p \in S \X S : p[1] < p[2]}
<1>1. \A a, b \in S : <<a, b>> \in R <=> a < b
  OBVIOUS
<1> HIDE DEF R
<1>2. \A a, b \in S : a = b \/ <<a, b>> \in R \/ <<b, a>> \in R
  <2> SUFFICES ASSUME NEW a \in S, NEW b \in S, a # b
               PROVE  <<a, b>> \in R \/ <<b, a>> \in R
    OBVIOUS
  <2>1. a < b \/ b < a
    OBVIOUS
  <2> QED BY <1>1, <2>1
<1>3. \A a \in S : <<a, a>> \notin R
  BY <1>1
<1>4. \A a, b, c \in S : <<a, b>> \in R /\ <<b, c>> \in R => <<a, c>> \in R
  BY <1>1
<1>5. Orders(R, S)
  BY <1>2, <1>3, <1>4 DEF Orders
<1>6. PICK s \in SetToSeqs(S) : InOrder(s, R)
  BY <1>5, SortExists
<1>7. s \in Seq(S)
  BY SeqsOnto
<1>8. \A i \in DOMAIN s : s[i] \in S
  BY <1>7
<1> QED BY <1>1, <1>6, <1>8 DEF InOrder

\* The chosen places of a sequence, in their order.
LEMMA KeepingFacts ==
    ASSUME NEW T, NEW s \in Seq(T), NEW places \in SUBSET DOMAIN s
    PROVE  /\ Keeping(s, places) \in Seq(T)
           /\ Len(Keeping(s, places)) <= Len(s)
           /\ \E f \in SetToSeqs(places) :
                /\ DOMAIN f = DOMAIN Keeping(s, places)
                /\ \A i, j \in DOMAIN f : i < j => f[i] < f[j]
                /\ \A i \in DOMAIN f : Keeping(s, places)[i] = s[f[i]]
<1> DEFINE Less(i, j) == i < j
           f == Sorted(places, Less)
<1>1. DOMAIN s = 1..Len(s) /\ Len(s) \in Nat
  OBVIOUS
<1>2. IsFiniteSet(places) /\ Cardinality(places) <= Len(s) /\ Cardinality(places) \in Nat
  <2>1. \A n \in Nat : IsFiniteSet(1..n) /\ Cardinality(1..n) = n
    BY FS_Interval
  <2>2. IsFiniteSet(1..Len(s)) /\ Cardinality(1..Len(s)) = Len(s)
    BY <1>1, <2>1
  <2> QED BY <1>1, <2>2, FS_Subset, FS_CardinalityType
<1>3. places \in SUBSET Nat
  BY <1>1
<1>4. \E g \in SetToSeqs(places) : \A i, j \in DOMAIN g : i < j => g[i] < g[j]
  BY <1>2, <1>3, NumbersSorted
<1>5. \E g \in SetToSeqs(places) : \A i, j \in DOMAIN g : i < j => Less(g[i], g[j])
  BY <1>4
<1>6. f \in SetToSeqs(places) /\ \A i, j \in DOMAIN f : i < j => f[i] < f[j]
  BY <1>5 DEF Sorted
<1>7. Keeping(s, places) = [k \in DOMAIN f |-> s[f[k]]]
  BY DEF Keeping
<1> HIDE DEF f
<1>8. /\ DOMAIN f = 1..Len(f) /\ Len(f) = Cardinality(places) /\ f \in Seq(places)
  BY <1>2, <1>6, SeqsOnto
<1>9. \A i \in DOMAIN f : f[i] \in places /\ s[f[i]] \in T
  BY <1>1, <1>8
<1>10. [k \in DOMAIN f |-> s[f[k]]] \in Seq(T) /\ Len([k \in DOMAIN f |-> s[f[k]]]) = Len(f)
  BY <1>2, <1>8, <1>9
<1> QED BY <1>2, <1>6, <1>7, <1>8, <1>10

\* The chosen places of a sequence: all of them, and nothing else.
LEMMA KeepingPlaces ==
    ASSUME NEW T, NEW s \in Seq(T), NEW places \in SUBSET DOMAIN s
    PROVE  \E f : /\ DOMAIN f = DOMAIN Keeping(s, places)
                  /\ \A i \in DOMAIN f : /\ f[i] \in places
                                         /\ Keeping(s, places)[i] = s[f[i]]
                  /\ \A i, j \in DOMAIN f : i < j => f[i] < f[j]
                  /\ \A p \in places : \E i \in DOMAIN f : f[i] = p
<1>1. PICK f \in SetToSeqs(places) :
        /\ DOMAIN f = DOMAIN Keeping(s, places)
        /\ \A i, j \in DOMAIN f : i < j => f[i] < f[j]
        /\ \A i \in DOMAIN f : Keeping(s, places)[i] = s[f[i]]
  BY KeepingFacts
<1>2. IsFiniteSet(places)
  <2>1. \A n \in Nat : IsFiniteSet(1..n)
    BY FS_Interval
  <2>2. IsFiniteSet(DOMAIN s)
    BY <2>1
  <2> QED BY <2>2, FS_Subset
<1>3. f \in Seq(places) /\ \A p \in places : \E i \in DOMAIN f : f[i] = p
  BY <1>2, SeqsOnto
<1>4. \A i \in DOMAIN f : f[i] \in places
  BY <1>3
<1> QED BY <1>1, <1>3, <1>4

\* A sequence without repetitions is as long as the set of its elements.
LEMMA DistinctCount ==
    ASSUME NEW T, NEW s \in Seq(T), \A i, j \in DOMAIN s : s[i] = s[j] => i = j
    PROVE  IsFiniteSet(ToSet(s)) /\ Cardinality(ToSet(s)) = Len(s)
<1>1. DOMAIN s = 1..Len(s) /\ Len(s) \in Nat
  OBVIOUS
<1>2. s \in Surjection(1..Len(s), ToSet(s)) /\ s \in Injection(1..Len(s), ToSet(s))
  BY <1>1 DEF Surjection, Injection, IsInjective, ToSet
<1>3. IsFiniteSet(1..Len(s)) /\ Cardinality(1..Len(s)) = Len(s)
  <2>1. \A n \in Nat : IsFiniteSet(1..n) /\ Cardinality(1..n) = n
    BY FS_Interval
  <2> QED BY <1>1, <2>1
<1> QED BY <1>2, <1>3, FS_Surjection

---------------------------------------------------------------------------
(***************************************************************************)
(* Nodes and the candidates of one search.                                 *)
(***************************************************************************)

Node      == Nat \X Nat
Candidate == [node : Node, anchor : BOOLEAN, score : Nat]

\* No node twice, in a set and in a sequence of candidates.
NodeOnce(S)  == \A g, h \in S : g.node = h.node => g = h
NodesOnce(s) == \A i, j \in DOMAIN s : s[i].node = s[j].node => i = j

LeavesOf(docs) == UNION {Leaves(docs[i]) : i \in DOMAIN docs}

\* Candidates of different nodes, counted by their nodes.
LEMMA NodeCount ==
    ASSUME NEW s \in Seq(Candidate), NodesOnce(s)
    PROVE  /\ NodesOf(s) \in SUBSET Node /\ IsFiniteSet(NodesOf(s))
           /\ Cardinality(NodesOf(s)) = Len(s)
           /\ ToSet(s) \in SUBSET Candidate /\ IsFiniteSet(ToSet(s))
           /\ NodeOnce(ToSet(s)) /\ Cardinality(ToSet(s)) = Len(s)
           /\ NodesOf(s) = {h.node : h \in ToSet(s)}
<1> DEFINE t == [i \in DOMAIN s |-> s[i].node]
<1>1. DOMAIN s = 1..Len(s) /\ Len(s) \in Nat /\ \A i \in DOMAIN s : s[i] \in Candidate
  OBVIOUS
<1>2. \A i \in DOMAIN s : s[i].node \in Node
  BY <1>1 DEF Candidate
<1>3. t \in Seq(Node) /\ Len(t) = Len(s) /\ DOMAIN t = DOMAIN s
  BY <1>1, <1>2
<1>4. ToSet(t) = NodesOf(s)
  BY DEF ToSet, NodesOf
<1>5. \A i, j \in DOMAIN t : t[i] = t[j] => i = j
  BY DEF NodesOnce
<1> HIDE DEF t
<1>6. IsFiniteSet(NodesOf(s)) /\ Cardinality(NodesOf(s)) = Len(s)
  BY <1>3, <1>4, <1>5, DistinctCount
<1>7. \A i, j \in DOMAIN s : s[i] = s[j] => i = j
  BY DEF NodesOnce
<1>8. IsFiniteSet(ToSet(s)) /\ Cardinality(ToSet(s)) = Len(s)
  BY <1>7, DistinctCount
<1>9. NodesOf(s) = {h.node : h \in ToSet(s)} /\ NodesOf(s) \in SUBSET Node
  BY <1>2 DEF NodesOf, ToSet
<1>10. ToSet(s) \in SUBSET Candidate /\ NodeOnce(ToSet(s))
  BY <1>1 DEF ToSet, NodeOnce, NodesOnce
<1> QED BY <1>6, <1>8, <1>9, <1>10

\* Before is a strict total order of nodes, and of the places of the rounds.
LEMMA BeforeFacts ==
    ASSUME NEW S \in SUBSET Node, IsFiniteSet(S)
    PROVE  /\ Sorted(S, Before) \in SetToSeqs(S)
           /\ \A i, j \in DOMAIN Sorted(S, Before) :
                i < j => Before(Sorted(S, Before)[i], Sorted(S, Before)[j])
<1> DEFINE R == {p \in S \X S : Before(p[1], p[2])}
<1>1. \A a, b \in S : <<a, b>> \in R <=> Before(a, b)
  OBVIOUS
<1>2. \A a \in S : a = <<a[1], a[2]>> /\ a[1] \in Nat /\ a[2] \in Nat
  BY DEF Node
<1> HIDE DEF R
<1>3. \A a, b \in S : a = b \/ <<a, b>> \in R \/ <<b, a>> \in R
  <2> SUFFICES ASSUME NEW a \in S, NEW b \in S, a # b PROVE Before(a, b) \/ Before(b, a)
    BY <1>1
  <2>1. a[1] # b[1] \/ a[2] # b[2]
    BY <1>2
  <2> QED BY <1>2, <2>1 DEF Before
<1>4. \A a \in S : <<a, a>> \notin R
  BY <1>1, <1>2 DEF Before
<1>5. \A a, b, c \in S : <<a, b>> \in R /\ <<b, c>> \in R => <<a, c>> \in R
  <2> SUFFICES ASSUME NEW a \in S, NEW b \in S, NEW c \in S, Before(a, b), Before(b, c)
               PROVE  Before(a, c)
    BY <1>1
  <2> QED BY <1>2 DEF Before
<1>6. Orders(R, S)
  BY <1>3, <1>4, <1>5 DEF Orders
<1>7. \E s \in SetToSeqs(S) : \A i, j \in DOMAIN s : i < j => Before(s[i], s[j])
  <2>1. PICK s \in SetToSeqs(S) : InOrder(s, R)
    BY <1>6, SortExists
  <2>2. s \in Seq(S)
    BY SeqsOnto
  <2>3. \A i \in DOMAIN s : s[i] \in S
    BY <2>2
  <2> QED BY <1>1, <2>1, <2>3 DEF InOrder
<1> QED BY <1>7 DEF Sorted

\* Candidates of different nodes have one order.
LEMMA ByScoreFacts ==
    ASSUME NEW S \in SUBSET Candidate, IsFiniteSet(S), NodeOnce(S)
    PROVE  /\ Sorted(S, ByScore) \in SetToSeqs(S)
           /\ \A i, j \in DOMAIN Sorted(S, ByScore) :
                i < j => ByScore(Sorted(S, ByScore)[i], Sorted(S, ByScore)[j])
<1> DEFINE R == {p \in S \X S : ByScore(p[1], p[2])}
<1>1. \A a, b \in S : <<a, b>> \in R <=> ByScore(a, b)
  OBVIOUS
<1>2. \A a \in S : /\ a.anchor \in BOOLEAN /\ a.score \in Nat
                   /\ a.node = <<a.node[1], a.node[2]>>
                   /\ a.node[1] \in Nat /\ a.node[2] \in Nat
  BY DEF Candidate, Node
<1> HIDE DEF R
<1>3. \A a, b \in S : a = b \/ <<a, b>> \in R \/ <<b, a>> \in R
  <2> SUFFICES ASSUME NEW a \in S, NEW b \in S, a # b
               PROVE  ByScore(a, b) \/ ByScore(b, a)
    BY <1>1
  <2>1. a.node # b.node
    BY DEF NodeOnce
  <2>2. a.node[1] # b.node[1] \/ a.node[2] # b.node[2]
    BY <1>2, <2>1
  <2>3. Before(a.node, b.node) \/ Before(b.node, a.node)
    BY <1>2, <2>2 DEF Before
  <2> QED BY <1>2, <2>3 DEF ByScore
<1>4. \A a \in S : <<a, a>> \notin R
  BY <1>1, <1>2 DEF ByScore, Before
<1>5. \A a, b, c \in S : <<a, b>> \in R /\ <<b, c>> \in R => <<a, c>> \in R
  <2> SUFFICES ASSUME NEW a \in S, NEW b \in S, NEW c \in S, ByScore(a, b), ByScore(b, c)
               PROVE  ByScore(a, c)
    BY <1>1
  <2>1. Before(a.node, b.node) /\ Before(b.node, c.node) => Before(a.node, c.node)
    BY <1>2 DEF Before
  <2> QED BY <1>2, <2>1 DEF ByScore
<1>6. Orders(R, S)
  BY <1>3, <1>4, <1>5 DEF Orders
<1>7. \E s \in SetToSeqs(S) : \A i, j \in DOMAIN s : i < j => ByScore(s[i], s[j])
  <2>1. PICK s \in SetToSeqs(S) : InOrder(s, R)
    BY <1>6, SortExists
  <2>2. s \in Seq(S)
    BY SeqsOnto
  <2>3. \A i \in DOMAIN s : s[i] \in S
    BY <2>2
  <2> QED BY <1>1, <2>1, <2>3 DEF InOrder
<1> QED BY <1>7 DEF Sorted

\* Part of a list of candidates, in its order.
LEMMA SubListFacts ==
    ASSUME NEW s \in Seq(Candidate), NodesOnce(s), NEW t \in Seq(Candidate), NEW f,
           \A i \in DOMAIN t : f[i] \in DOMAIN s /\ t[i] = s[f[i]],
           \A i, j \in DOMAIN t : i < j => f[i] < f[j]
    PROVE  /\ NodesOnce(t) /\ ToSet(t) \subseteq ToSet(s) /\ NodesOf(t) \subseteq NodesOf(s)
           /\ (\A i, j \in DOMAIN s : i < j => ByScore(s[i], s[j])) =>
                \A i, j \in DOMAIN t : i < j => ByScore(t[i], t[j])
<1>1. DOMAIN t = 1..Len(t) /\ DOMAIN s = 1..Len(s)
  OBVIOUS
<1>2. NodesOnce(t)
  <2> SUFFICES ASSUME NEW i \in DOMAIN t, NEW j \in DOMAIN t, t[i].node = t[j].node
               PROVE  i = j
    BY DEF NodesOnce
  <2>1. f[i] = f[j] /\ f[i] \in Nat
    BY <1>1 DEF NodesOnce
  <2>2. i < j \/ j < i \/ i = j
    BY <1>1
  <2> QED BY <2>1, <2>2
<1>3. ToSet(t) \subseteq ToSet(s) /\ NodesOf(t) \subseteq NodesOf(s)
  BY DEF ToSet, NodesOf
<1> QED BY <1>2, <1>3

\* What is left of a list of candidates without those of some documents.
LEMMA OutsideFacts ==
    ASSUME NEW s \in Seq(Candidate), NodesOnce(s), NEW docs
    PROVE  LET t == Outside(s, docs) IN
           /\ t \in Seq(Candidate) /\ Len(t) <= Len(s) /\ NodesOnce(t)
           /\ ToSet(t) = {h \in ToSet(s) : h.node[1] \notin docs}
           /\ NodesOf(t) \subseteq NodesOf(s)
           /\ (\A i, j \in DOMAIN s : i < j => ByScore(s[i], s[j])) =>
                \A i, j \in DOMAIN t : i < j => ByScore(t[i], t[j])
<1> DEFINE places == {i \in DOMAIN s : s[i].node[1] \notin docs}
           t == Outside(s, docs)
<1>1. t = Keeping(s, places)
  BY DEF Outside
<1>2. places \in SUBSET DOMAIN s
  OBVIOUS
<1>3. \A i \in DOMAIN s : i \in places <=> s[i].node[1] \notin docs
  OBVIOUS
<1> HIDE DEF places, t
<1>4. t \in Seq(Candidate) /\ Len(t) <= Len(s)
  BY <1>1, <1>2, KeepingFacts
<1>5. PICK f : /\ DOMAIN f = DOMAIN t
               /\ \A i \in DOMAIN f : f[i] \in places /\ t[i] = s[f[i]]
               /\ \A i, j \in DOMAIN f : i < j => f[i] < f[j]
               /\ \A p \in places : \E i \in DOMAIN f : f[i] = p
  BY <1>1, <1>2, KeepingPlaces
<1>6. \A i \in DOMAIN t : f[i] \in DOMAIN s /\ t[i] = s[f[i]]
  BY <1>2, <1>5
<1>7. /\ NodesOnce(t) /\ ToSet(t) \subseteq ToSet(s) /\ NodesOf(t) \subseteq NodesOf(s)
      /\ (\A i, j \in DOMAIN s : i < j => ByScore(s[i], s[j])) =>
           \A i, j \in DOMAIN t : i < j => ByScore(t[i], t[j])
  BY <1>4, <1>5, <1>6, SubListFacts
<1>8. \A h \in ToSet(t) : h.node[1] \notin docs
  BY <1>2, <1>3, <1>5 DEF ToSet
<1>9. \A h \in ToSet(s) : h.node[1] \notin docs => h \in ToSet(t)
  <2> SUFFICES ASSUME NEW p \in DOMAIN s, s[p].node[1] \notin docs PROVE s[p] \in ToSet(t)
    BY DEF ToSet
  <2>1. PICK i \in DOMAIN f : f[i] = p
    BY <1>3, <1>5
  <2> QED BY <1>5, <2>1 DEF ToSet
<1>10. ToSet(t) = {h \in ToSet(s) : h.node[1] \notin docs}
  BY <1>7, <1>8, <1>9
<1> QED BY <1>4, <1>7, <1>10 DEF t

---------------------------------------------------------------------------
(***************************************************************************)
(* The union of the two lanes.                                             *)
(***************************************************************************)

ScopeOK == scope \in Seq([leaves : Nat, parent : BOOLEAN])

\* There are finitely many nodes.
LEMMA ScopeFacts ==
    ASSUME ScopeOK
    PROVE  /\ IsFiniteSet(AllNodes) /\ AllNodes \in SUBSET Node
           /\ Docs \in SUBSET Nat /\ IsFiniteSet(Docs) /\ Cardinality(Docs) = Len(scope)
           /\ \A d \in Docs : /\ Leaves(d) \subseteq Nodes(d) /\ Nodes(d) \subseteq AllNodes
                              /\ scope[d].leaves \in Nat
           /\ \A n \in AllNodes : n[1] \in Docs
<1>1. Len(scope) \in Nat /\ Docs = DOMAIN scope /\ Docs \in SUBSET Nat
  BY DEF ScopeOK, Docs
<1>2. \A n \in Nat : IsFiniteSet(1..n) /\ Cardinality(1..n) = n
  BY FS_Interval
<1>3. \A d \in Docs : scope[d].leaves \in Nat /\ scope[d].parent \in BOOLEAN
  <2>1. ASSUME NEW T, scope \in Seq(T) PROVE \A d \in DOMAIN scope : scope[d] \in T
    BY <2>1
  <2>2. \A d \in Docs : scope[d] \in [leaves : Nat, parent : BOOLEAN]
    BY <1>1, <2>1 DEF ScopeOK
  <2> QED BY <2>2
<1>4. ASSUME NEW d \in Docs
      PROVE  /\ IsFiniteSet(Nodes(d)) /\ Nodes(d) \in SUBSET Node
             /\ \A n \in Nodes(d) : n[1] = d
  <2>1. IsFiniteSet(1..scope[d].leaves) /\ IsFiniteSet({d})
    BY <1>2, <1>3, FS_Singleton
  <2>2. IsFiniteSet(Leaves(d))
    BY <2>1, FS_Product DEF Leaves
  <2>3. IsFiniteSet({<<d, 0>>})
    BY FS_Singleton
  <2>4. IsFiniteSet(Leaves(d) \cup {<<d, 0>>})
    BY <2>2, <2>3, FS_Union
  <2>5. Nodes(d) \in SUBSET (Leaves(d) \cup {<<d, 0>>})
    BY DEF Nodes
  <2>6. d \in Nat
    BY <1>1
  <2>7. /\ Leaves(d) \cup {<<d, 0>>} \in SUBSET Node
        /\ \A n \in Leaves(d) \cup {<<d, 0>>} : n[1] = d
    BY <1>3, <2>6 DEF Leaves, Node
  <2> QED BY <2>4, <2>5, <2>7, FS_Subset
<1> DEFINE All == {Nodes(d) : d \in Docs}
           f == [d \in Docs |-> Nodes(d)]
<1>5. IsFiniteSet(Docs) /\ Cardinality(Docs) = Len(scope)
  BY <1>1, <1>2 DEF Docs
<1>6. f \in Surjection(Docs, All)
  BY DEF Surjection
<1>7. \A T \in All : IsFiniteSet(T)
  BY <1>4
<1>8. AllNodes = UNION All
  BY DEF AllNodes
<1> HIDE DEF All, f
<1>9. IsFiniteSet(All)
  BY <1>5, <1>6, FS_Surjection
<1>10. IsFiniteSet(AllNodes)
  BY <1>7, <1>8, <1>9, FS_UNION
<1>11. \A d \in Docs : Leaves(d) \subseteq Nodes(d) /\ Nodes(d) \subseteq AllNodes
  BY DEF Nodes, AllNodes
<1>12. \A n \in AllNodes : n \in Node /\ n[1] \in Docs
  BY <1>4 DEF AllNodes
<1> QED BY <1>1, <1>3, <1>5, <1>10, <1>11, <1>12

\* The rounds hold each leaf of the documents once, a leaf of an earlier round
\* before one of a later round.
LEMMA RoundsFacts ==
    ASSUME ScopeOK, NEW docs \in Seq(Docs), \A i, j \in DOMAIN docs : docs[i] = docs[j] => i = j
    PROVE  LET r == Rounds(docs) IN
           /\ r \in Seq(LeavesOf(docs))
           /\ \A n \in LeavesOf(docs) : \E j \in DOMAIN r : r[j] = n
           /\ \A i, j \in DOMAIN r : r[i] = r[j] => i = j
           /\ \A i, j \in DOMAIN r : i < j => r[i][2] <= r[j][2]
<1> DEFINE Round(i) == {<<k, i>> : k \in 1..scope[docs[i]].leaves}
           All == {Round(i) : i \in DOMAIN docs}
           places == UNION All
           order == Sorted(places, Before)
           r == Rounds(docs)
<1>1. /\ DOMAIN docs = 1..Len(docs) /\ Len(docs) \in Nat
      /\ \A i \in DOMAIN docs : docs[i] \in Docs /\ docs[i] \in Nat
                                /\ scope[docs[i]].leaves \in Nat
  BY ScopeFacts
<1>2. \A n \in Nat : IsFiniteSet(1..n)
  BY FS_Interval
<1>3. IsFiniteSet(places)
  <2>1. ASSUME NEW i \in DOMAIN docs PROVE IsFiniteSet(Round(i))
    <3>1. IsFiniteSet(1..scope[docs[i]].leaves) /\ IsFiniteSet({i})
      BY <1>1, <1>2, FS_Singleton
    <3>2. IsFiniteSet((1..scope[docs[i]].leaves) \X {i})
      BY <3>1, FS_Product
    <3>3. Round(i) = (1..scope[docs[i]].leaves) \X {i}
      OBVIOUS
    <3> QED BY <3>2, <3>3
  <2> DEFINE f == [i \in DOMAIN docs |-> Round(i)]
  <2>2. f \in Surjection(DOMAIN docs, All)
    <3> HIDE DEF Round
    <3> QED BY DEF Surjection
  <2>3. IsFiniteSet(DOMAIN docs)
    BY <1>1, <1>2
  <2> HIDE DEF f
  <2>4. IsFiniteSet(All)
    BY <2>2, <2>3, FS_Surjection
  <2>5. \A T \in All : IsFiniteSet(T)
    BY <2>1
  <2> QED BY <2>4, <2>5, FS_UNION
<1>4. \A p \in places : /\ p = <<p[1], p[2]>> /\ p[2] \in DOMAIN docs /\ p \in Node
                        /\ p[1] \in 1..scope[docs[p[2]]].leaves
  BY <1>1 DEF Node
<1>5. \A i \in DOMAIN docs : \A k \in 1..scope[docs[i]].leaves : <<k, i>> \in places
  OBVIOUS
<1>6. r = [j \in DOMAIN order |-> <<docs[order[j][2]], order[j][1]>>]
  BY DEF Rounds
<1> HIDE DEF places
<1>7. places \in SUBSET Node
  BY <1>4
<1>8. /\ order \in SetToSeqs(places)
      /\ \A i, j \in DOMAIN order : i < j => Before(order[i], order[j])
  BY <1>3, <1>7, BeforeFacts
<1> HIDE DEF order, r
<1>9. /\ DOMAIN order = 1..Len(order) /\ Len(order) \in Nat
      /\ \A j \in DOMAIN order : order[j] \in places
      /\ \A i, j \in DOMAIN order : order[i] = order[j] => i = j
      /\ \A p \in places : \E j \in DOMAIN order : order[j] = p
  <2>1. order \in Seq(places)
    BY <1>3, <1>8, SeqsOnto
  <2> QED BY <1>3, <1>8, <2>1, SeqsOnto
<1>10. \A p \in places : <<docs[p[2]], p[1]>> \in LeavesOf(docs)
  BY <1>4 DEF LeavesOf, Leaves
<1>11. r \in Seq(LeavesOf(docs)) /\ DOMAIN r = DOMAIN order
  <2>1. \A j \in DOMAIN order : <<docs[order[j][2]], order[j][1]>> \in LeavesOf(docs)
    BY <1>9, <1>10
  <2> QED BY <1>6, <1>9, <2>1
<1>12. ASSUME NEW n \in LeavesOf(docs) PROVE \E j \in DOMAIN r : r[j] = n
  <2>1. PICK i \in DOMAIN docs : n \in Leaves(docs[i])
    BY DEF LeavesOf
  <2>2. PICK k \in 1..scope[docs[i]].leaves : n = <<docs[i], k>>
    BY <2>1 DEF Leaves
  <2>3. PICK j \in DOMAIN order : order[j] = <<k, i>>
    BY <1>5, <1>9
  <2> QED BY <1>6, <1>11, <2>2, <2>3
<1>13. ASSUME NEW i \in DOMAIN r, NEW j \in DOMAIN r, r[i] = r[j] PROVE i = j
  <2>1. order[i] \in places /\ order[j] \in places
    BY <1>9, <1>11
  <2>2. docs[order[i][2]] = docs[order[j][2]] /\ order[i][1] = order[j][1]
    BY <1>6, <1>11, <1>13
  <2>3. order[i] = order[j]
    BY <1>4, <2>1, <2>2
  <2> QED BY <1>9, <1>11, <2>3
<1>14. ASSUME NEW i \in DOMAIN r, NEW j \in DOMAIN r, i < j PROVE r[i][2] <= r[j][2]
  <2>1. /\ Before(order[i], order[j]) /\ order[i] \in Node /\ order[j] \in Node
        /\ r[i][2] = order[i][1] /\ r[j][2] = order[j][1]
    BY <1>6, <1>7, <1>8, <1>9, <1>11, <1>14
  <2> QED BY <2>1 DEF Before, Node
<1> QED BY <1>11, <1>12, <1>13, <1>14 DEF r

\* So do the leaves that are new, of which none is there already.
LEMMA NewLeavesFacts ==
    ASSUME ScopeOK, NEW docs \in Seq(Docs), \A i, j \in DOMAIN docs : docs[i] = docs[j] => i = j,
           NEW there
    PROVE  LET t == NewLeaves(docs, there) IN
           /\ t \in Seq(LeavesOf(docs))
           /\ \A j \in DOMAIN t : t[j] \notin NodesOf(there)
           /\ \A n \in LeavesOf(docs) \ NodesOf(there) : \E j \in DOMAIN t : t[j] = n
           /\ \A i, j \in DOMAIN t : t[i] = t[j] => i = j
           /\ \A i, j \in DOMAIN t : i < j => t[i][2] <= t[j][2]
<1> DEFINE r == Rounds(docs)
           places == {j \in DOMAIN r : r[j] \notin NodesOf(there)}
           t == NewLeaves(docs, there)
<1>1. t = Keeping(r, places)
  BY DEF NewLeaves
<1>2. places \in SUBSET DOMAIN r /\ \A j \in DOMAIN r : j \in places <=> r[j] \notin NodesOf(there)
  OBVIOUS
<1> HIDE DEF r, places, t
<1>3. /\ r \in Seq(LeavesOf(docs)) /\ DOMAIN r \in SUBSET Nat
      /\ \A n \in LeavesOf(docs) : \E j \in DOMAIN r : r[j] = n
      /\ \A i, j \in DOMAIN r : r[i] = r[j] => i = j
      /\ \A i, j \in DOMAIN r : i < j => r[i][2] <= r[j][2]
  <2>1. r \in Seq(LeavesOf(docs))
    BY RoundsFacts DEF r
  <2>2. DOMAIN r \in SUBSET Nat
    BY <2>1
  <2> QED BY <2>1, <2>2, RoundsFacts DEF r
<1>4. t \in Seq(LeavesOf(docs)) /\ DOMAIN t \in SUBSET Nat
  BY <1>1, <1>2, <1>3, KeepingFacts
<1>5. PICK f : /\ DOMAIN f = DOMAIN t
               /\ \A i \in DOMAIN f : f[i] \in places /\ t[i] = r[f[i]]
               /\ \A i, j \in DOMAIN f : i < j => f[i] < f[j]
               /\ \A p \in places : \E i \in DOMAIN f : f[i] = p
  BY <1>1, <1>2, <1>3, KeepingPlaces
<1>6. \A i \in DOMAIN t : f[i] \in DOMAIN r /\ f[i] \in Nat
  BY <1>2, <1>3, <1>5
<1>7. \A j \in DOMAIN t : t[j] \notin NodesOf(there)
  BY <1>2, <1>5
<1>8. \A n \in LeavesOf(docs) \ NodesOf(there) : \E j \in DOMAIN t : t[j] = n
  BY <1>2, <1>3, <1>5
<1>9. ASSUME NEW i \in DOMAIN t, NEW j \in DOMAIN t, t[i] = t[j] PROVE i = j
  <2>1. f[i] = f[j]
    BY <1>3, <1>5, <1>6, <1>9
  <2>2. i < j \/ j < i \/ i = j
    BY <1>4
  <2> QED BY <1>5, <1>6, <2>1, <2>2
<1>10. \A i, j \in DOMAIN t : i < j => t[i][2] <= t[j][2]
  BY <1>3, <1>5, <1>6
<1> QED BY <1>4, <1>7, <1>8, <1>9, <1>10 DEF t

\* The beginning of a list of candidates.
LEMMA CutFacts ==
    ASSUME NEW s \in Seq(Candidate), NodesOnce(s), NEW n \in Nat
    PROVE  LET t == Take(s, n) IN
           /\ t \in Seq(Candidate) /\ Len(t) <= n /\ Len(t) <= Len(s) /\ NodesOnce(t)
           /\ ToSet(t) \subseteq ToSet(s) /\ NodesOf(t) \subseteq NodesOf(s)
           /\ (\A i, j \in DOMAIN s : i < j => ByScore(s[i], s[j])) =>
                \A i, j \in DOMAIN t : i < j => ByScore(t[i], t[j])
<1> DEFINE t == Take(s, n)
           f == [i \in DOMAIN t |-> i]
<1>1. /\ t \in Seq(Candidate) /\ Len(t) <= n /\ Len(t) <= Len(s)
      /\ \A i \in DOMAIN t : i \in DOMAIN s /\ t[i] = s[i]
  BY TakeFacts
<1>2. /\ \A i \in DOMAIN t : f[i] \in DOMAIN s /\ t[i] = s[f[i]]
      /\ \A i, j \in DOMAIN t : i < j => f[i] < f[j]
  BY <1>1
<1> HIDE DEF t, f
<1> QED BY <1>1, <1>2, SubListFacts DEF t

\* Half of the budget, rounded down.
LEMMA HalfFacts == MaxCandidates \div 2 \in Nat /\ MaxCandidates \div 2 <= MaxCandidates
  BY BatchAssumption

\* What Union puts together, before it is cut at the budget.
LEMMA JoinedFacts ==
    ASSUME ScopeOK, NEW docs \in Seq(Docs), \A i, j \in DOMAIN docs : docs[i] = docs[j] => i = j,
           NEW first \in Seq(Candidate), NodesOnce(first), NodesOf(first) \subseteq AllNodes
    PROVE  LET tree == NewLeaves(docs, first)
               all == first \o [j \in DOMAIN tree |->
                                  [node |-> tree[j], anchor |-> FALSE, score |-> 0]]
           IN
           /\ all \in Seq(Candidate) /\ NodesOnce(all) /\ NodesOf(all) \subseteq AllNodes
           /\ Len(all) = Len(first) + Len(tree)
           /\ \A i \in 1..Len(first) : all[i] = first[i]
           /\ \A j \in 1..Len(tree) : all[Len(first) + j].node = tree[j]
<1> DEFINE tree == NewLeaves(docs, first)
           w == [j \in DOMAIN tree |-> [node |-> tree[j], anchor |-> FALSE, score |-> 0]]
           all == first \o w
<1>1. \A n \in LeavesOf(docs) : n \in AllNodes /\ n \in Node
  <2>1. \A i \in DOMAIN docs : docs[i] \in Docs
    OBVIOUS
  <2> QED BY <2>1, ScopeFacts DEF LeavesOf
<1>2. /\ tree \in Seq(LeavesOf(docs))
      /\ \A j \in DOMAIN tree : tree[j] \notin NodesOf(first)
      /\ \A i, j \in DOMAIN tree : tree[i] = tree[j] => i = j
  BY NewLeavesFacts
<1> HIDE DEF tree
<1>3. /\ DOMAIN tree = 1..Len(tree) /\ Len(tree) \in Nat
      /\ \A j \in DOMAIN tree : tree[j] \in LeavesOf(docs)
  BY <1>2
<1>4. /\ w \in Seq(Candidate) /\ Len(w) = Len(tree) /\ DOMAIN w = DOMAIN tree
      /\ \A j \in DOMAIN tree : w[j].node = tree[j]
  <2>1. \A j \in DOMAIN tree :
            [node |-> tree[j], anchor |-> FALSE, score |-> 0] \in Candidate
    BY <1>1, <1>3 DEF Candidate
  <2> QED BY <1>3, <2>1
<1> HIDE DEF w
<1>5. DOMAIN first = 1..Len(first) /\ Len(first) \in Nat
  OBVIOUS
<1>6. /\ all \in Seq(Candidate) /\ Len(all) = Len(first) + Len(tree)
      /\ DOMAIN all = 1..(Len(first) + Len(tree))
      /\ \A i \in 1..Len(first) : all[i] = first[i]
      /\ \A j \in 1..Len(tree) : all[Len(first) + j] = w[j]
  <2>1. w \in Seq(Candidate) /\ Len(w) = Len(tree) /\ Len(tree) \in Nat
    BY <1>3, <1>4
  <2>2. all \in Seq(Candidate) /\ Len(all) = Len(first) + Len(w)
    BY <2>1
  <2>3. DOMAIN all = 1..(Len(first) + Len(w))
    BY <2>2
  <2>4. \A i \in 1..Len(first) : all[i] = first[i]
    BY <1>5, <2>1
  <2>5. \A j \in 1..Len(w) : all[Len(first) + j] = w[j]
    BY <1>5, <2>1
  <2> QED BY <2>1, <2>2, <2>3, <2>4, <2>5
<1> HIDE DEF all
<1>7. \A i \in DOMAIN all : i \notin DOMAIN first =>
        i - Len(first) \in DOMAIN tree /\ all[i].node = tree[i - Len(first)]
  <2> SUFFICES ASSUME NEW i \in DOMAIN all, i \notin DOMAIN first
               PROVE  /\ i - Len(first) \in DOMAIN tree
                      /\ all[i].node = tree[i - Len(first)]
    OBVIOUS
  <2>1. i - Len(first) \in 1..Len(tree) /\ Len(first) + (i - Len(first)) = i
    BY <1>3, <1>5, <1>6
  <2> QED BY <1>3, <1>4, <1>6, <2>1
<1>8. \A i \in DOMAIN all : i \in DOMAIN first => all[i].node \in NodesOf(first)
  BY <1>5, <1>6 DEF NodesOf
<1>9. NodesOf(all) \subseteq AllNodes
  <2> SUFFICES ASSUME NEW i \in DOMAIN all PROVE all[i].node \in AllNodes
    BY DEF NodesOf
  <2>1. CASE i \in DOMAIN first
    BY <1>8, <2>1
  <2>2. CASE i \notin DOMAIN first
    BY <1>1, <1>3, <1>7, <2>2
  <2> QED BY <2>1, <2>2
<1>10. NodesOnce(all)
  <2> SUFFICES ASSUME NEW i \in DOMAIN all, NEW j \in DOMAIN all, all[i].node = all[j].node
               PROVE  i = j
    BY DEF NodesOnce
  <2>1. CASE i \in DOMAIN first /\ j \in DOMAIN first
    BY <1>5, <1>6, <2>1 DEF NodesOnce
  <2>2. CASE i \in DOMAIN first /\ j \notin DOMAIN first
    BY <1>2, <1>7, <1>8, <2>2
  <2>3. CASE i \notin DOMAIN first /\ j \in DOMAIN first
    BY <1>2, <1>7, <1>8, <2>3
  <2>4. CASE i \notin DOMAIN first /\ j \notin DOMAIN first
    <3>1. i - Len(first) = j - Len(first)
      BY <1>2, <1>7, <2>4
    <3> QED BY <1>5, <1>6, <3>1
  <2> QED BY <2>1, <2>2, <2>3, <2>4
<1>11. \A j \in 1..Len(tree) : all[Len(first) + j].node = tree[j]
  BY <1>3, <1>4, <1>6
<1> QED BY <1>6, <1>9, <1>10, <1>11 DEF all, w, tree

\* The union keeps the budget, holds no node twice, and gives the tree lane its
\* half, round by round.
LEMMA UnionFacts ==
    ASSUME ScopeOK, NEW docs \in Seq(Docs), \A i, j \in DOMAIN docs : docs[i] = docs[j] => i = j,
           NEW lane \in Seq(Candidate), NodesOnce(lane), NodesOf(lane) \subseteq AllNodes
    PROVE  LET c == Union(lane, docs)
               nodes == NodesOf(c)
               lexical == NodesOf(Take(lane, MaxCandidates \div 2))
               leaves == LeavesOf(docs)
           IN
           /\ c \in Seq(Candidate) /\ NodesOnce(c) /\ nodes \subseteq AllNodes
           /\ Cardinality(nodes) = Len(c) /\ Len(c) <= MaxCandidates
           /\ \/ leaves \subseteq nodes
              \/ Cardinality((nodes \cap leaves) \ lexical)
                   >= MaxCandidates - MaxCandidates \div 2
           /\ \A n \in nodes \ lexical : \A m \in leaves : m[2] < n[2] => m \in nodes
<1> DEFINE half == MaxCandidates \div 2
           first == Take(lane, half)
           tree == NewLeaves(docs, first)
           all == first \o [j \in DOMAIN tree |->
                              [node |-> tree[j], anchor |-> FALSE, score |-> 0]]
           c == Union(lane, docs)
           leaves == LeavesOf(docs)
<1>1. c = Take(all, MaxCandidates)
  BY DEF Union
<1>2. half \in Nat /\ half <= MaxCandidates /\ MaxCandidates \in Nat
  BY HalfFacts, BatchAssumption
<1> HIDE DEF half, c
<1>3. /\ first \in Seq(Candidate) /\ Len(first) <= half /\ NodesOnce(first)
      /\ NodesOf(first) \subseteq AllNodes
  BY <1>2, CutFacts
<1> HIDE DEF first
<1>4. /\ tree \in Seq(leaves)
      /\ \A j \in DOMAIN tree : tree[j] \notin NodesOf(first)
      /\ \A n \in leaves \ NodesOf(first) : \E j \in DOMAIN tree : tree[j] = n
      /\ \A i, j \in DOMAIN tree : tree[i] = tree[j] => i = j
      /\ \A i, j \in DOMAIN tree : i < j => tree[i][2] <= tree[j][2]
  BY NewLeavesFacts
<1>5. /\ all \in Seq(Candidate) /\ NodesOnce(all) /\ NodesOf(all) \subseteq AllNodes
      /\ Len(all) = Len(first) + Len(tree)
      /\ \A i \in 1..Len(first) : all[i] = first[i]
      /\ \A j \in 1..Len(tree) : all[Len(first) + j].node = tree[j]
  BY <1>3, JoinedFacts
<1> HIDE DEF all, tree, leaves
<1>6. /\ c \in Seq(Candidate) /\ Len(c) <= MaxCandidates /\ NodesOnce(c)
      /\ NodesOf(c) \subseteq AllNodes
  BY <1>1, <1>2, <1>5, CutFacts
<1>7. /\ Len(c) < MaxCandidates => Len(c) = Len(all)
      /\ Len(c) < Len(all) => Len(c) = MaxCandidates
      /\ Len(c) <= Len(all)
      /\ \A i \in DOMAIN c : c[i] = all[i]
  <2>1. all \in Seq(Candidate) /\ MaxCandidates \in Nat
    BY <1>2, <1>5
  <2>2. /\ Len(c) <= MaxCandidates /\ Len(c) <= Len(all)
        /\ Len(c) < MaxCandidates => Len(c) = Len(all)
        /\ Len(c) < Len(all) => Len(c) = MaxCandidates
        /\ \A i \in DOMAIN c : i \in DOMAIN all /\ c[i] = all[i]
    BY <1>1, <2>1, TakeFacts
  <2> QED BY <2>2
<1>8. /\ DOMAIN c = 1..Len(c) /\ Len(c) \in Nat /\ DOMAIN tree = 1..Len(tree)
      /\ Len(tree) \in Nat /\ DOMAIN first = 1..Len(first) /\ Len(first) \in Nat
      /\ Len(all) \in Nat
  BY <1>3, <1>4, <1>5, <1>6
<1>9. Len(first) <= Len(c)
  <2>1. Len(first) <= MaxCandidates
    BY <1>2, <1>3, <1>8
  <2>2. Len(first) <= Len(all)
    BY <1>5, <1>8
  <2>3. Len(c) <= Len(all) /\ (Len(c) < Len(all) => Len(c) = MaxCandidates)
    BY <1>7, Zenon
  <2>4. Len(c) \in Nat /\ Len(first) \in Nat /\ Len(all) \in Nat /\ MaxCandidates \in Nat
    BY <1>2, <1>8, Zenon
  <2> QED BY <2>1, <2>2, <2>3, <2>4
<1>10. \A n \in NodesOf(first) : n \in NodesOf(c)
  <2>1. ASSUME NEW i \in DOMAIN first PROVE i \in DOMAIN c /\ c[i] = first[i]
    <3>1. i \in 1..Len(first) /\ i \in DOMAIN c
      BY <1>8, <1>9
    <3> QED BY <1>5, <1>7, <3>1
  <2> QED BY <2>1 DEF NodesOf
<1>11. ASSUME NEW j \in DOMAIN tree, Len(first) + j <= Len(c)
       PROVE  tree[j] \in NodesOf(c)
  <2>1. Len(first) + j \in DOMAIN c /\ j \in 1..Len(tree)
    BY <1>8, <1>11
  <2>2. c[Len(first) + j] = all[Len(first) + j]
    BY <1>7, <2>1
  <2>3. c[Len(first) + j].node = tree[j]
    BY <1>5, <2>1, <2>2
  <2> QED BY <2>1, <2>3 DEF NodesOf
<1>12. leaves \subseteq NodesOf(c)
         \/ Cardinality((NodesOf(c) \cap leaves) \ NodesOf(first)) >= MaxCandidates - half
  <2>1. CASE Len(c) = Len(all)
    <3> SUFFICES ASSUME NEW n \in leaves, n \notin NodesOf(first) PROVE n \in NodesOf(c)
      BY <1>10
    <3>1. PICK j \in DOMAIN tree : tree[j] = n
      BY <1>4
    <3>2. Len(first) + j <= Len(c)
      BY <1>5, <1>8, <2>1
    <3> QED BY <1>11, <3>1, <3>2
  <2>2. CASE Len(c) # Len(all)
    <3> DEFINE m == MaxCandidates - Len(first)
               X == (NodesOf(c) \cap leaves) \ NodesOf(first)
               g == [j \in 1..m |-> tree[j]]
    <3>1. Len(c) = MaxCandidates /\ Len(c) < Len(all)
      BY <1>7, <1>8, <2>2
    <3>2. m \in Nat /\ m >= MaxCandidates - half /\ m < Len(tree)
      BY <1>2, <1>3, <1>5, <1>8, <1>9, <3>1
    <3>3. \A j \in 1..m : j \in DOMAIN tree /\ Len(first) + j <= Len(c)
      BY <1>8, <3>1, <3>2
    <3> HIDE DEF m
    <3>4. \A j \in 1..m : tree[j] \in X
      BY <1>4, <1>11, <3>3
    <3>5. \A i, j \in 1..m : tree[i] = tree[j] => i = j
      BY <1>4, <3>3
    <3>6. IsFiniteSet(X) /\ Cardinality(X) \in Nat
      <4>1. IsFiniteSet(NodesOf(c))
        BY <1>6, NodeCount
      <4>2. X \in SUBSET NodesOf(c)
        OBVIOUS
      <4> QED BY <4>1, <4>2, FS_Subset, FS_CardinalityType
    <3> HIDE DEF X
    <3>7. g \in Injection(1..m, X)
      BY <3>4, <3>5 DEF Injection, IsInjective
    <3> HIDE DEF g
    <3>8. Cardinality(1..m) <= Cardinality(X) /\ Cardinality(1..m) = m
      BY <3>2, <3>6, <3>7, FS_Injection, FS_Interval
    <3>9. Cardinality(X) >= MaxCandidates - half
      BY <1>2, <3>2, <3>6, <3>8
    <3> QED BY <3>9 DEF X
  <2> QED BY <2>1, <2>2
<1>13. ASSUME NEW n \in NodesOf(c) \ NodesOf(first), NEW m \in leaves, m[2] < n[2]
       PROVE  m \in NodesOf(c)
  <2> SUFFICES ASSUME m \notin NodesOf(first) PROVE m \in NodesOf(c)
    BY <1>10
  <2>1. PICK i \in DOMAIN c : n = c[i].node
    BY DEF NodesOf
  <2>2. i \notin DOMAIN first
    BY <1>5, <1>7, <1>8, <2>1 DEF NodesOf
  <2>3. /\ i - Len(first) \in DOMAIN tree /\ Len(first) + (i - Len(first)) = i
        /\ i <= Len(c) /\ i - Len(first) \in 1..Len(tree)
    <3>1. i \in 1..Len(c) /\ Len(c) <= Len(first) + Len(tree)
      BY <1>5, <1>7, <1>8
    <3> QED BY <1>8, <2>2, <3>1
  <2>4. n = tree[i - Len(first)]
    <3>1. all[Len(first) + (i - Len(first))].node = tree[i - Len(first)]
      BY <1>5, <2>3
    <3> QED BY <1>7, <2>1, <2>3, <3>1
  <2>5. PICK j \in DOMAIN tree : tree[j] = m
    BY <1>4
  <2>6. m[2] \in Nat /\ n[2] \in Nat
    <3>1. \A x \in leaves : x \in Node
      <4>1. \A k \in DOMAIN docs : docs[k] \in Docs
        OBVIOUS
      <4> QED BY <4>1, ScopeFacts DEF leaves, LeavesOf
    <3>2. n \in leaves
      BY <1>4, <2>3, <2>4
    <3> QED BY <3>1, <3>2 DEF Node
  <2>7. ~ i - Len(first) < j
    BY <1>4, <1>13, <2>3, <2>4, <2>5, <2>6
  <2>8. i - Len(first) # j
    BY <1>13, <2>4, <2>5, <2>6
  <2>9. Len(first) + j <= Len(c)
    BY <1>8, <2>3, <2>7
  <2> QED BY <1>11, <2>5, <2>9
<1>14. Cardinality(NodesOf(c)) = Len(c)
  BY <1>6, NodeCount
<1> QED BY <1>6, <1>12, <1>13, <1>14 DEF c, first, half, leaves


---------------------------------------------------------------------------
(***************************************************************************)
(* The invariant of one search.                                            *)
(***************************************************************************)

\* The query matches nodes of the scope, none twice.
ViewInputs ==
    /\ ScopeOK /\ mode \in {"lexical", "hybrid", "semantic"}
    /\ matches \in Seq(Candidate) /\ NodesOnce(matches) /\ NodesOf(matches) \subseteq AllNodes

ViewTypes ==
    /\ pc \in {"collecting", "routing", "routed", "scoring", "finishing", "done", "failed"}
    /\ routed \in SUBSET Docs /\ selected \in Seq(Docs) /\ scored \in SUBSET Candidate
    /\ coverage \in [truncated : BOOLEAN, complete : BOOLEAN, stale : SUBSET Docs,
                     reranked : Nat, filtered : Nat]

\* So do the hits, whichever lane they come from.
ListOK == hits \in Seq(Candidate) /\ NodesOnce(hits) /\ NodesOf(hits) \subseteq AllNodes

\* Until the routing reply, only the lexical lane has run.
LaneOK == pc \in {"routing", "routed"} => hits = FreshMatches /\ mode # "lexical"

RouteOK == pc = "routed" => (coverage.complete => routed = Docs)

\* A report that is about to claim the whole scope.
Whole == Len(scope) <= TopRanked /\ ~coverage.truncated /\ coverage.complete

\* Then each node of the scope is among the candidates.
AllJudged ==
    /\ pc = "scoring" /\ Whole => AllNodes \subseteq NodesOf(hits)
    /\ pc = "finishing" /\ mode # "lexical" /\ Whole =>
         AllNodes \subseteq {h.node : h \in scored}

\* The judged candidates and what the floor leaves of them, in their order.
JudgedList ==
    pc = "finishing" /\ mode # "lexical" =>
        /\ IsFiniteSet(scored) /\ NodeOnce(scored)
        /\ ToSet(hits) = {h \in scored : Eligible(h)}
        /\ \A i, j \in DOMAIN hits : i < j => ByScore(hits[i], hits[j])
        /\ coverage.reranked = Cardinality(scored)
        /\ coverage.filtered = Cardinality(scored) - Len(hits)

ViewInv ==
    /\ ViewInputs /\ ViewTypes /\ ListOK /\ LaneOK /\ RouteOK /\ AllJudged /\ JudgedList
    /\ TreeLaneShare /\ CandidatesAccountedFor /\ ExhaustiveWhenClaimed


LEMMA ViewStarts == ViewInit => ViewInv
<1> SUFFICES ASSUME ViewInit PROVE ViewInv
  OBVIOUS
<1>1. ScopeOK
  BY ViewAssumption DEF ViewInit, ScopeOK
<1>2. PICK nodes \in SUBSET AllNodes : matches \in Rankings(nodes)
  BY DEF ViewInit
<1>3. nodes \in SUBSET Node /\ IsFiniteSet(nodes)
  <2>1. AllNodes \in SUBSET Node /\ IsFiniteSet(AllNodes)
    BY <1>1, ScopeFacts
  <2> QED BY <2>1, FS_Subset
<1>4. \E order \in SetToSeqs(nodes) :
        /\ DOMAIN matches = DOMAIN order
        /\ \A i \in DOMAIN order : /\ matches[i] \in Candidate
                                   /\ matches[i].node = order[i]
  <2> DEFINE inOrder == Sorted(nodes, Before)
             oneWord(anchors) ==
               [i \in DOMAIN inOrder |->
                  [node |-> inOrder[i], anchor |-> inOrder[i] \in anchors, score |-> 0]]
  <2>1. \A order \in SetToSeqs(nodes) : \A i \in DOMAIN order : order[i] \in Node
    <3> SUFFICES ASSUME NEW order \in SetToSeqs(nodes) PROVE \A i \in DOMAIN order : order[i] \in Node
      OBVIOUS
    <3>1. order \in Seq(nodes)
      BY <1>3, SeqsOnto
    <3> QED BY <1>3, <3>1
  <2>2. inOrder \in SetToSeqs(nodes)
    BY <1>3, BeforeFacts
  <2> HIDE DEF inOrder
  <2>3. ASSUME NEW anchors \in SUBSET nodes, matches = oneWord(anchors)
        PROVE  /\ DOMAIN matches = DOMAIN inOrder
               /\ \A i \in DOMAIN inOrder : /\ matches[i] \in Candidate
                                            /\ matches[i].node = inOrder[i]
    <3>1. \A i \in DOMAIN inOrder : inOrder[i] \in Node /\ (inOrder[i] \in anchors) \in BOOLEAN
      BY <2>1, <2>2
    <3>2. DOMAIN matches = DOMAIN inOrder
      BY <2>3
    <3>3. \A i \in DOMAIN inOrder : matches[i] =
            [node |-> inOrder[i], anchor |-> inOrder[i] \in anchors, score |-> 0]
      BY <2>3
    <3>4. ASSUME NEW i \in DOMAIN inOrder
          PROVE  matches[i] \in Candidate /\ matches[i].node = inOrder[i]
      <4> DEFINE b == inOrder[i] \in anchors
      <4>1. b \in BOOLEAN /\ inOrder[i] \in Node
        BY <3>1
      <4>2. matches[i] = [node |-> inOrder[i], anchor |-> b, score |-> 0]
        BY <3>3
      <4> HIDE DEF b
      <4> QED BY <4>1, <4>2 DEF Candidate
    <3> QED BY <3>2, <3>4
  <2>4. ASSUME NEW order \in SetToSeqs(nodes),
               matches = [i \in DOMAIN order |->
                            [node |-> order[i], anchor |-> FALSE, score |-> 0]]
        PROVE  /\ DOMAIN matches = DOMAIN order
               /\ \A i \in DOMAIN order : /\ matches[i] \in Candidate
                                          /\ matches[i].node = order[i]
    BY <2>1, <2>4 DEF Candidate
  <2>5. \/ \E anchors \in SUBSET nodes : matches = oneWord(anchors)
        \/ \E order \in SetToSeqs(nodes) :
             matches = [i \in DOMAIN order |->
                          [node |-> order[i], anchor |-> FALSE, score |-> 0]]
    BY <1>2 DEF Rankings, inOrder
  <2> QED BY <2>2, <2>3, <2>4, <2>5
<1>5. PICK order \in SetToSeqs(nodes) :
        /\ DOMAIN matches = DOMAIN order
        /\ \A i \in DOMAIN order : /\ matches[i] \in Candidate
                                   /\ matches[i].node = order[i]
  BY <1>4
<1>6. /\ DOMAIN order = 1..Len(order) /\ Len(order) \in Nat
      /\ \A i \in DOMAIN order : order[i] \in nodes
      /\ \A i, j \in DOMAIN order : order[i] = order[j] => i = j
  <2>1. order \in Seq(nodes)
    BY <1>3, SeqsOnto
  <2> QED BY <1>3, <2>1, SeqsOnto
<1>7. matches \in Seq(Candidate)
  <2>1. matches = [i \in 1..Len(order) |-> matches[i]]
    <3>1. \E anchors \in SUBSET nodes : matches =
              [i \in DOMAIN Sorted(nodes, Before) |->
                 [node |-> Sorted(nodes, Before)[i],
                  anchor |-> Sorted(nodes, Before)[i] \in anchors, score |-> 0]]
            \/ \E o \in SetToSeqs(nodes) :
                 matches = [i \in DOMAIN o |->
                              [node |-> o[i], anchor |-> FALSE, score |-> 0]]
      BY <1>2 DEF Rankings
    <3>2. matches = [i \in DOMAIN matches |-> matches[i]]
      BY <3>1
    <3> QED BY <1>5, <1>6, <3>2
  <2> QED BY <1>5, <1>6, <2>1
<1>8. NodesOnce(matches) /\ NodesOf(matches) \subseteq AllNodes
  BY <1>5, <1>6 DEF NodesOnce, NodesOf
<1>9. ViewInputs
  BY <1>1, <1>7, <1>8 DEF ViewInputs, ViewInit
<1>10. ListOK
  BY DEF ViewInit, ListOK, NodesOnce, NodesOf
<1>11. ViewTypes
  BY DEF ViewInit, ViewTypes, NothingCovered
<1> QED BY <1>9, <1>10, <1>11
  DEF ViewInit, ViewInv, LaneOK, RouteOK, AllJudged, JudgedList, TreeLaneShare,
      CandidatesAccountedFor, ExhaustiveWhenClaimed

\* A step changes neither the scope nor the question.
LEMMA InputsKept ==
    ASSUME UNCHANGED inputs
    PROVE  /\ scope' = scope /\ mode' = mode /\ matches' = matches /\ gone' = gone
           /\ Docs' = Docs /\ AllNodes' = AllNodes /\ FreshMatches' = FreshMatches
           /\ ViewInputs => ViewInputs'
<1>1. scope' = scope /\ mode' = mode /\ matches' = matches /\ gone' = gone
  BY DEF inputs
<1>2. Docs' = Docs /\ \A d : Nodes(d)' = Nodes(d)
  BY <1>1 DEF Docs, Nodes, Leaves
<1>3. AllNodes' = AllNodes
  BY <1>1, <1>2 DEF AllNodes, Nodes, Leaves
<1>4. FreshMatches' = FreshMatches
  BY <1>1 DEF FreshMatches
<1>5. ViewInputs => ViewInputs'
  BY <1>1, <1>3 DEF ViewInputs, ScopeOK
<1> QED BY <1>1, <1>2, <1>3, <1>4, <1>5

LEMMA FreshOK ==
    ASSUME ViewInputs
    PROVE  /\ FreshMatches \in Seq(Candidate) /\ NodesOnce(FreshMatches)
           /\ NodesOf(FreshMatches) \subseteq AllNodes
<1>1. matches \in Seq(Candidate) /\ NodesOnce(matches) /\ NodesOf(matches) \subseteq AllNodes
  BY DEF ViewInputs
<1> DEFINE t == Outside(matches, gone)
<1>2. t \in Seq(Candidate) /\ NodesOnce(t) /\ NodesOf(t) \subseteq NodesOf(matches)
  BY <1>1, OutsideFacts
<1> HIDE DEF t
<1>3. NodesOf(t) \subseteq AllNodes
  BY <1>1, <1>2
<1> QED BY <1>2, <1>3 DEF t, FreshMatches

\* The fields of the report.
LEMMA CoverageFields ==
    ASSUME ViewTypes
    PROVE  /\ DOMAIN coverage = {"truncated", "complete", "stale", "reranked", "filtered"}
           /\ coverage.truncated \in BOOLEAN /\ coverage.complete \in BOOLEAN
           /\ coverage.stale \in SUBSET Docs
           /\ coverage.reranked \in Nat /\ coverage.filtered \in Nat
  BY DEF ViewTypes

LEMMA CollectStep ==
    ASSUME ViewInv, Collect PROVE ViewInv'
<1>1. /\ scope' = scope /\ mode' = mode /\ matches' = matches /\ gone' = gone
      /\ Docs' = Docs /\ AllNodes' = AllNodes /\ FreshMatches' = FreshMatches
      /\ ViewInputs'
  BY InputsKept DEF Collect, ViewInv
<1>2. hits' = FreshMatches /\ pc' = (IF mode = "lexical" THEN "finishing" ELSE "routing")
  BY DEF Collect
<1>3. ListOK'
  BY <1>1, <1>2, FreshOK DEF ViewInv, ListOK
<1>4. coverage' \in [truncated : BOOLEAN, complete : BOOLEAN, stale : SUBSET Docs,
                     reranked : Nat, filtered : Nat]
  <2>1. \A n \in NodesOf(matches) : n[1] \in Docs
    BY ScopeFacts DEF ViewInv, ViewInputs
  <2>2. {n[1] : n \in NodesOf(matches)} \cap gone \in SUBSET Docs
    BY <2>1
  <2>3. ViewTypes
    BY DEF ViewInv
  <2> QED BY <2>2, <2>3 DEF ViewTypes, Collect
<1>5. ViewTypes'
  BY <1>1, <1>2, <1>4 DEF ViewTypes, ViewInv, Collect
<1>6. LaneOK'
  BY <1>1, <1>2 DEF LaneOK
<1> QED BY <1>1, <1>2, <1>3, <1>5, <1>6
  DEF ViewInv, RouteOK, AllJudged, JudgedList, TreeLaneShare, CandidatesAccountedFor,
      ExhaustiveWhenClaimed


LEMMA RouteStep ==
    ASSUME ViewInv, Route PROVE ViewInv'
<1> DEFINE prefix == 1..(IF RoutingDocs < Len(scope) THEN RoutingDocs ELSE Len(scope))
           shown == prefix \ gone
<1>1. /\ pc = "routing" /\ routed' = shown /\ UNCHANGED <<inputs, selected, scored>>
      /\ shown # {} => /\ hits' = hits /\ pc' = "routed"
                       /\ coverage' = [coverage EXCEPT !.complete = (shown = Docs),
                                                       !.stale = @ \cup (prefix \cap gone)]
      /\ shown = {} => /\ hits' = Take(hits, MaxCandidates) /\ pc' = "scoring"
                       /\ coverage' = [coverage EXCEPT
                              !.complete = (shown = Docs),
                              !.stale = @ \cup (prefix \cap gone),
                              !.truncated = @ \/ Len(hits) > MaxCandidates]
  BY DEF Route
<1>2. prefix \in SUBSET Docs
  BY ViewAssumption DEF ViewInv, ViewInputs, ScopeOK, Docs
<1>3. shown \in SUBSET Docs
  BY <1>2
<1> HIDE DEF prefix, shown
<1>4. /\ scope' = scope /\ mode' = mode /\ matches' = matches /\ gone' = gone
      /\ Docs' = Docs /\ AllNodes' = AllNodes /\ FreshMatches' = FreshMatches
      /\ ViewInputs'
  BY <1>1, InputsKept DEF ViewInv
<1>5. hits = FreshMatches /\ mode # "lexical"
  BY <1>1 DEF ViewInv, LaneOK
<1>6. /\ DOMAIN coverage = {"truncated", "complete", "stale", "reranked", "filtered"}
      /\ coverage.truncated \in BOOLEAN /\ coverage.complete \in BOOLEAN
      /\ coverage.stale \in SUBSET Docs
      /\ coverage.reranked \in Nat /\ coverage.filtered \in Nat
  BY CoverageFields DEF ViewInv
<1>7. coverage.stale \cup (prefix \cap gone) \in SUBSET Docs
  BY <1>2, <1>6
<1>8. ListOK
  BY DEF ViewInv
<1>9. /\ (shown = Docs) \in BOOLEAN
      /\ (coverage.truncated \/ Len(hits) > MaxCandidates) \in BOOLEAN
  OBVIOUS
<1>10. ViewTypes
  BY DEF ViewInv
<1>11. CASE shown # {}
  <2>1. coverage' \in [truncated : BOOLEAN, complete : BOOLEAN, stale : SUBSET Docs,
                       reranked : Nat, filtered : Nat]
    BY <1>1, <1>7, <1>9, <1>10, <1>11 DEF ViewTypes
  <2>2. ViewTypes'
    BY <1>1, <1>3, <1>4, <1>10, <1>11, <2>1 DEF ViewTypes
  <2>3. ListOK' /\ LaneOK'
    BY <1>1, <1>4, <1>5, <1>8, <1>11 DEF ListOK, LaneOK
  <2>4. coverage'.complete = (shown = Docs)
    BY <1>1, <1>6, <1>11
  <2>5. RouteOK'
    BY <1>1, <1>4, <2>4 DEF RouteOK
  <2> QED BY <1>1, <1>4, <1>11, <2>2, <2>3, <2>5
    DEF ViewInv, AllJudged, JudgedList, TreeLaneShare, CandidatesAccountedFor,
        ExhaustiveWhenClaimed
<1>12. CASE shown = {}
  <2>1. coverage' \in [truncated : BOOLEAN, complete : BOOLEAN, stale : SUBSET Docs,
                       reranked : Nat, filtered : Nat]
    BY <1>1, <1>7, <1>9, <1>10, <1>12 DEF ViewTypes
  <2>2. ViewTypes'
    BY <1>1, <1>3, <1>4, <1>10, <1>12, <2>1 DEF ViewTypes
  <2>3. /\ Take(hits, MaxCandidates) \in Seq(Candidate)
        /\ NodesOnce(Take(hits, MaxCandidates))
        /\ NodesOf(Take(hits, MaxCandidates)) \subseteq NodesOf(hits)
    BY <1>8, CutFacts, BatchAssumption DEF ListOK
  <2>4. ListOK'
    BY <1>1, <1>4, <1>8, <1>12, <2>3 DEF ListOK
  <2>5. coverage'.complete = (shown = Docs)
    BY <1>1, <1>6, <1>12
  <2>6. coverage'.complete => AllNodes = {}
    BY <1>12, <2>5 DEF AllNodes
  <2>7. AllJudged'
    BY <1>1, <1>4, <1>12, <2>6 DEF AllJudged, Whole
  <2>8. TreeLaneShare'
    BY <1>1, <1>12 DEF TreeLaneShare
  <2> QED BY <1>1, <1>4, <1>12, <2>2, <2>4, <2>7, <2>8
    DEF ViewInv, LaneOK, RouteOK, JudgedList, CandidatesAccountedFor, ExhaustiveWhenClaimed
<1> QED BY <1>11, <1>12

\* A ranking of some documents has each of them once; it is cut at TopRanked.
LEMMA BestFacts ==
    ASSUME NEW docs \in SUBSET Docs, IsFiniteSet(docs), NEW ranking \in SetToSeqs(docs)
    PROVE  LET best == Take(ranking, TopRanked) IN
           /\ best \in Seq(Docs)
           /\ \A i, j \in DOMAIN best : best[i] = best[j] => i = j
           /\ Cardinality(docs) <= TopRanked => \A d \in docs : \E i \in DOMAIN best : best[i] = d
<1> DEFINE best == Take(ranking, TopRanked)
<1>1. /\ ranking \in Seq(docs) /\ Len(ranking) = Cardinality(docs)
      /\ Cardinality(docs) \in Nat /\ DOMAIN ranking = 1..Len(ranking)
      /\ \A i, j \in DOMAIN ranking : ranking[i] = ranking[j] => i = j
      /\ \A d \in docs : \E i \in DOMAIN ranking : ranking[i] = d
  BY SeqsOnto
<1>2. TopRanked \in Nat
  BY ViewAssumption
<1>3. /\ best \in Seq(docs)
      /\ \A i \in DOMAIN ranking : i \in DOMAIN best <=> i <= TopRanked
      /\ \A i \in DOMAIN best : i \in DOMAIN ranking /\ best[i] = ranking[i]
  BY <1>1, <1>2, TakeFacts
<1> HIDE DEF best
<1>4. best \in Seq(Docs)
  BY <1>3
<1>5. \A i, j \in DOMAIN best : best[i] = best[j] => i = j
  BY <1>1, <1>3
<1>6. ASSUME Cardinality(docs) <= TopRanked, NEW d \in docs
      PROVE  \E i \in DOMAIN best : best[i] = d
  <2>1. PICK i \in DOMAIN ranking : ranking[i] = d
    BY <1>1
  <2>2. i <= TopRanked
    BY <1>1, <1>2, <1>6
  <2> QED BY <1>3, <2>1, <2>2
<1> QED BY <1>4, <1>5, <1>6 DEF best

LEMMA RoutingReplyStep ==
    ASSUME ViewInv, RoutingReply PROVE ViewInv'
<1>1. /\ pc = "routed" /\ pc' = "scoring" /\ UNCHANGED <<inputs, routed, scored>>
  BY DEF RoutingReply
<1>2. PICK ranking \in SetToSeqs(routed) :
        /\ selected' = Take(ranking, TopRanked)
        /\ hits' = Union(hits, Take(ranking, TopRanked))
        /\ coverage' = [coverage EXCEPT !.truncated =
             @ \/ OmitsNodes(Take(ranking, TopRanked), Union(hits, Take(ranking, TopRanked)))]
  BY DEF RoutingReply
<1> DEFINE best == Take(ranking, TopRanked)
           c == Union(hits, best)
           omits == OmitsNodes(best, c)
<1>3. selected' = best /\ hits' = c /\ coverage' = [coverage EXCEPT !.truncated = @ \/ omits]
  BY <1>2
<1>4. ScopeOK /\ ViewTypes /\ ListOK /\ RouteOK /\ LaneOK /\ ViewInputs
  BY DEF ViewInv, ViewInputs
<1>5. /\ scope' = scope /\ mode' = mode /\ matches' = matches /\ gone' = gone
      /\ Docs' = Docs /\ AllNodes' = AllNodes /\ FreshMatches' = FreshMatches
      /\ ViewInputs'
  BY <1>1, <1>4, InputsKept
<1>6. routed \in SUBSET Docs /\ IsFiniteSet(routed)
  BY <1>4, ScopeFacts, FS_Subset DEF ViewTypes
<1>7. /\ best \in Seq(Docs)
      /\ \A i, j \in DOMAIN best : best[i] = best[j] => i = j
      /\ Cardinality(routed) <= TopRanked =>
           \A d \in routed : \E i \in DOMAIN best : best[i] = d
  BY <1>6, BestFacts
<1> HIDE DEF best
<1>8. /\ c \in Seq(Candidate) /\ NodesOnce(c) /\ NodesOf(c) \subseteq AllNodes
      /\ Cardinality(NodesOf(c)) = Len(c) /\ Len(c) <= MaxCandidates
      /\ \/ LeavesOf(best) \subseteq NodesOf(c)
         \/ Cardinality((NodesOf(c) \cap LeavesOf(best))
                          \ NodesOf(Take(hits, MaxCandidates \div 2)))
              >= MaxCandidates - MaxCandidates \div 2
      /\ \A n \in NodesOf(c) \ NodesOf(Take(hits, MaxCandidates \div 2)) :
           \A m \in LeavesOf(best) : m[2] < n[2] => m \in NodesOf(c)
  <2>1. hits \in Seq(Candidate) /\ NodesOnce(hits) /\ NodesOf(hits) \subseteq AllNodes
    BY <1>4 DEF ListOK
  <2> QED BY <1>4, <1>7, <2>1, UnionFacts
<1> HIDE DEF c
<1>9. ListOK'
  BY <1>3, <1>5, <1>8 DEF ListOK
<1>10. omits \in BOOLEAN
  BY DEF OmitsNodes
<1>11. ASSUME ~omits, Len(scope) <= TopRanked, coverage.complete
       PROVE  AllNodes \subseteq NodesOf(c)
  <2>1. routed = Docs
    BY <1>1, <1>4, <1>11 DEF RouteOK
  <2>2. \A d \in Docs : \E i \in DOMAIN best : best[i] = d
    <3>1. Cardinality(routed) = Len(scope)
      BY <1>4, <2>1, ScopeFacts
    <3> QED BY <1>7, <1>11, <2>1, <3>1
  <2>3. \A i \in DOMAIN best : best[i] \in Docs
    BY <1>7
  <2>4. UNION {Nodes(best[i]) : i \in DOMAIN best} = AllNodes
    BY <2>2, <2>3 DEF AllNodes
  <2>5. ~ Cardinality(AllNodes) > Len(c)
    BY <1>11, <2>4 DEF omits, OmitsNodes
  <2>6. IsFiniteSet(AllNodes) /\ Cardinality(AllNodes) \in Nat
    BY <1>4, ScopeFacts, FS_CardinalityType
  <2>7. Cardinality(NodesOf(c)) <= Cardinality(AllNodes)
          /\ (Cardinality(AllNodes) = Cardinality(NodesOf(c)) => AllNodes = NodesOf(c))
    <3>1. NodesOf(c) \in SUBSET AllNodes
      BY <1>8
    <3> QED BY <2>6, <3>1, FS_Subset
  <2>8. Len(c) \in Nat
    BY <1>8
  <2> QED BY <1>8, <2>5, <2>6, <2>7, <2>8
<1> HIDE DEF omits
<1>12. /\ DOMAIN coverage = {"truncated", "complete", "stale", "reranked", "filtered"}
       /\ coverage.truncated \in BOOLEAN /\ coverage.complete \in BOOLEAN
       /\ coverage.stale \in SUBSET Docs
       /\ coverage.reranked \in Nat /\ coverage.filtered \in Nat
  BY <1>4, CoverageFields
<1>13. /\ coverage' \in [truncated : BOOLEAN, complete : BOOLEAN, stale : SUBSET Docs,
                         reranked : Nat, filtered : Nat]
       /\ coverage'.complete = coverage.complete
       /\ coverage'.truncated = (coverage.truncated \/ omits)
  <2>1. (coverage.truncated \/ omits) \in BOOLEAN
    OBVIOUS
  <2> QED BY <1>3, <1>4, <1>12, <2>1 DEF ViewTypes
<1>14. ViewTypes'
  BY <1>1, <1>3, <1>4, <1>5, <1>7, <1>13 DEF ViewTypes
<1>15. AllJudged'
  BY <1>1, <1>3, <1>5, <1>11, <1>13 DEF AllJudged, Whole
<1>16. TreeLaneShare'
  <2>1. UNION {Leaves(selected[i]) : i \in DOMAIN selected}' = LeavesOf(best)
    BY <1>3, <1>5 DEF LeavesOf, Leaves
  <2>2. hits = FreshMatches
    BY <1>1, <1>4 DEF LaneOK
  <2>3. NodesOf(Take(FreshMatches, MaxCandidates \div 2))' =
          NodesOf(Take(hits, MaxCandidates \div 2))
    BY <1>5, <2>2
  <2>4. NodesOf(hits)' = NodesOf(c) /\ Len(hits)' = Len(c)
    BY <1>3
  <2> QED BY <1>8, <2>1, <2>3, <2>4 DEF TreeLaneShare
<1> QED BY <1>1, <1>5, <1>9, <1>14, <1>15, <1>16
  DEF ViewInv, LaneOK, RouteOK, JudgedList, CandidatesAccountedFor, ExhaustiveWhenClaimed


\* A score for each candidate changes neither their nodes nor their number.
LEMMA JudgmentFacts ==
    ASSUME NEW s \in Seq(Candidate), NodesOnce(s), NEW score \in [DOMAIN s -> Scores]
    PROVE  LET J == {[s[i] EXCEPT !.score = score[i]] : i \in DOMAIN s} IN
           /\ J \in SUBSET Candidate /\ IsFiniteSet(J) /\ NodeOnce(J)
           /\ Cardinality(J) = Len(s) /\ {h.node : h \in J} = NodesOf(s)
<1> DEFINE t == [i \in DOMAIN s |-> [s[i] EXCEPT !.score = score[i]]]
           J == {[s[i] EXCEPT !.score = score[i]] : i \in DOMAIN s}
<1>1. \A i \in DOMAIN s : s[i] \in Candidate /\ score[i] \in Nat
  <2>1. \A i \in DOMAIN s : s[i] \in Candidate
    OBVIOUS
  <2>2. \A i \in DOMAIN s : score[i] \in Scores
    OBVIOUS
  <2> QED BY <2>1, <2>2, BatchAssumption
<1>2. \A i \in DOMAIN s : /\ [s[i] EXCEPT !.score = score[i]] \in Candidate
                          /\ [s[i] EXCEPT !.score = score[i]].node = s[i].node
  BY <1>1 DEF Candidate
<1>3. t \in Seq(Candidate) /\ Len(t) = Len(s) /\ DOMAIN t = DOMAIN s
  BY <1>2
<1>4. \A i \in DOMAIN s : t[i].node = s[i].node
  BY <1>2
<1>5. ToSet(t) = J
  BY DEF ToSet
<1> HIDE DEF t, J
<1>6. NodesOnce(t) /\ NodesOf(t) = NodesOf(s)
  BY <1>3, <1>4 DEF NodesOnce, NodesOf
<1>7. /\ ToSet(t) \in SUBSET Candidate /\ IsFiniteSet(ToSet(t)) /\ NodeOnce(ToSet(t))
      /\ Cardinality(ToSet(t)) = Len(t) /\ NodesOf(t) = {h.node : h \in ToSet(t)}
  BY <1>3, <1>6, NodeCount
<1> QED BY <1>3, <1>5, <1>6, <1>7 DEF J

LEMMA RerankStep ==
    ASSUME ViewInv, Rerank PROVE ViewInv'
<1>1. pc = "scoring" /\ pc' = "finishing" /\ UNCHANGED <<inputs, routed, selected>>
  BY DEF Rerank
<1>2. PICK score \in [DOMAIN hits -> Scores] :
        LET J == {[hits[i] EXCEPT !.score = score[i]] : i \in DOMAIN hits}
            left == {h \in J : Eligible(h)} IN
        /\ scored' = J
        /\ hits' = Sorted(left, ByScore)
        /\ coverage' = [coverage EXCEPT !.reranked = Len(hits),
                                        !.filtered = Len(hits) - Cardinality(left)]
  BY DEF Rerank
<1> DEFINE J == {[hits[i] EXCEPT !.score = score[i]] : i \in DOMAIN hits}
           left == {h \in J : Eligible(h)}
<1>3. /\ scored' = J /\ hits' = Sorted(left, ByScore)
      /\ coverage' = [coverage EXCEPT !.reranked = Len(hits),
                                      !.filtered = Len(hits) - Cardinality(left)]
  BY <1>2
<1>4. hits \in Seq(Candidate) /\ NodesOnce(hits) /\ NodesOf(hits) \subseteq AllNodes
      /\ Len(hits) \in Nat
  BY DEF ViewInv, ListOK
<1>5. /\ J \in SUBSET Candidate /\ IsFiniteSet(J) /\ NodeOnce(J)
      /\ Cardinality(J) = Len(hits) /\ {h.node : h \in J} = NodesOf(hits)
  BY <1>4, JudgmentFacts
<1>6. left \in SUBSET J /\ \A h \in J : h \in left <=> Eligible(h)
  OBVIOUS
<1> HIDE DEF J, left
<1>7. /\ left \in SUBSET Candidate /\ IsFiniteSet(left) /\ NodeOnce(left)
      /\ Cardinality(left) <= Cardinality(J) /\ Cardinality(left) \in Nat
  BY <1>5, <1>6, FS_Subset, FS_CardinalityType DEF NodeOnce
<1>8. /\ hits' \in SetToSeqs(left)
      /\ \A i, j \in DOMAIN hits' : i < j => ByScore(hits'[i], hits'[j])
  BY <1>3, <1>7, ByScoreFacts
<1>9. /\ hits' \in Seq(left) /\ Len(hits') = Cardinality(left) /\ ToSet(hits') = left
      /\ \A i, j \in DOMAIN hits' : hits'[i] = hits'[j] => i = j
  BY <1>7, <1>8, SeqsOnto
<1>10. /\ scope' = scope /\ mode' = mode /\ matches' = matches /\ gone' = gone
       /\ Docs' = Docs /\ AllNodes' = AllNodes /\ FreshMatches' = FreshMatches
       /\ ViewInputs'
  BY <1>1, InputsKept DEF ViewInv
<1>11. \A i \in DOMAIN hits' : hits'[i] \in left /\ hits'[i] \in J /\ hits'[i] \in Candidate
  BY <1>6, <1>7, <1>9
<1>12. ListOK'
  <2>1. hits' \in Seq(Candidate)
    BY <1>7, <1>9
  <2>2. NodesOnce(hits')
    BY <1>9, <1>11, <1>7 DEF NodesOnce, NodeOnce
  <2>3. NodesOf(hits') \subseteq AllNodes
    BY <1>4, <1>5, <1>11 DEF NodesOf
  <2> QED BY <1>10, <2>1, <2>2, <2>3 DEF ListOK
<1>13. /\ DOMAIN coverage = {"truncated", "complete", "stale", "reranked", "filtered"}
       /\ coverage.truncated \in BOOLEAN /\ coverage.complete \in BOOLEAN
       /\ coverage.stale \in SUBSET Docs
       /\ coverage.reranked \in Nat /\ coverage.filtered \in Nat
  BY CoverageFields DEF ViewInv
<1>14. Len(hits) - Cardinality(left) \in Nat
  BY <1>4, <1>5, <1>7
<1>15. /\ coverage' \in [truncated : BOOLEAN, complete : BOOLEAN, stale : SUBSET Docs,
                         reranked : Nat, filtered : Nat]
       /\ coverage'.complete = coverage.complete
       /\ coverage'.truncated = coverage.truncated
       /\ coverage'.reranked = Len(hits)
       /\ coverage'.filtered = Len(hits) - Cardinality(left)
  <2>1. ViewTypes
    BY DEF ViewInv
  <2> QED BY <1>3, <1>4, <1>13, <1>14, <2>1 DEF ViewTypes
<1>16. ViewTypes'
  BY <1>1, <1>3, <1>5, <1>10, <1>15 DEF ViewTypes, ViewInv
<1>17. AllJudged'
  BY <1>1, <1>3, <1>5, <1>10, <1>15 DEF AllJudged, Whole, ViewInv
<1>18. JudgedList'
  <2>1. left = {h \in J : Eligible(h)}
    BY <1>6
  <2>2. /\ IsFiniteSet(scored') /\ NodeOnce(scored')
        /\ ToSet(hits') = {h \in scored' : Eligible(h)}
        /\ coverage'.reranked = Cardinality(scored')
        /\ coverage'.filtered = Cardinality(scored') - Len(hits')
    BY <1>3, <1>5, <1>9, <1>15, <2>1
  <2> QED BY <1>8, <2>2 DEF JudgedList
<1> QED BY <1>1, <1>10, <1>12, <1>16, <1>17, <1>18
  DEF ViewInv, LaneOK, RouteOK, TreeLaneShare, CandidatesAccountedFor, ExhaustiveWhenClaimed

LEMMA CallFailsStep ==
    ASSUME ViewInv, CallFails PROVE ViewInv'
<1>1. /\ pc' = "failed" /\ hits' = hits /\ routed' = routed /\ selected' = selected
      /\ scored' = scored /\ coverage' = coverage /\ UNCHANGED inputs
  BY DEF CallFails
<1>2. /\ scope' = scope /\ mode' = mode /\ matches' = matches /\ gone' = gone
      /\ Docs' = Docs /\ AllNodes' = AllNodes /\ FreshMatches' = FreshMatches
      /\ ViewInputs'
  BY <1>1, InputsKept DEF ViewInv
<1>3. ViewTypes'
  BY <1>1, <1>2 DEF ViewTypes, ViewInv
<1>4. ListOK'
  BY <1>1, <1>2 DEF ListOK, ViewInv
<1> QED BY <1>1, <1>2, <1>3, <1>4
  DEF ViewInv, LaneOK, RouteOK, AllJudged, JudgedList, TreeLaneShare,
      CandidatesAccountedFor, ExhaustiveWhenClaimed

\* What the limit and the last look leave of the judged list: every judged candidate
\* that may be reported and is not there lies behind the limit or in a lost document.
LEMMA CutAndLook ==
    ASSUME NEW s \in Seq(Candidate), NodesOnce(s),
           \A i, j \in DOMAIN s : i < j => ByScore(s[i], s[j]), NEW missing
    PROVE  LET first == Take(s, Limit)
               t == Outside(first, missing)
           IN
           /\ t \in Seq(Candidate) /\ NodesOnce(t) /\ Len(t) <= Limit
           /\ NodesOf(t) \subseteq NodesOf(s) /\ ToSet(t) \subseteq ToSet(s)
           /\ \A i, j \in DOMAIN t : i < j => ByScore(t[i], t[j])
           /\ \A h \in ToSet(s) : \/ h.node \in NodesOf(t)
                                  \/ h.node[1] \in missing
                                  \/ /\ Len(s) > Limit
                                     /\ \A i \in DOMAIN t : ByScore(t[i], h)
<1> DEFINE first == Take(s, Limit)
           t == Outside(first, missing)
<1>1. Limit \in Nat
  BY BatchAssumption
<1>2. /\ first \in Seq(Candidate) /\ Len(first) <= Limit /\ NodesOnce(first)
      /\ ToSet(first) \subseteq ToSet(s) /\ NodesOf(first) \subseteq NodesOf(s)
      /\ \A i, j \in DOMAIN first : i < j => ByScore(first[i], first[j])
  BY <1>1, CutFacts
<1>3. /\ \A i \in DOMAIN s : i \in DOMAIN first <=> i <= Limit
      /\ \A i \in DOMAIN first : i \in DOMAIN s /\ first[i] = s[i]
      /\ Len(first) \in Nat
  BY <1>1, TakeFacts
<1> HIDE DEF first
<1>4. /\ t \in Seq(Candidate) /\ Len(t) <= Len(first) /\ NodesOnce(t)
      /\ ToSet(t) = {h \in ToSet(first) : h.node[1] \notin missing}
      /\ NodesOf(t) \subseteq NodesOf(first)
      /\ \A i, j \in DOMAIN t : i < j => ByScore(t[i], t[j])
  BY <1>2, OutsideFacts
<1> HIDE DEF t
<1>5. Len(t) <= Limit
  BY <1>1, <1>2, <1>3, <1>4
<1>6. ASSUME NEW h \in ToSet(s), h.node \notin NodesOf(t), h.node[1] \notin missing
      PROVE  Len(s) > Limit /\ \A i \in DOMAIN t : ByScore(t[i], h)
  <2>1. PICK p \in DOMAIN s : h = s[p]
    BY DEF ToSet
  <2>2. p \notin DOMAIN first
    <3> SUFFICES ASSUME p \in DOMAIN first PROVE FALSE
      OBVIOUS
    <3>1. h \in ToSet(first)
      BY <1>3, <2>1 DEF ToSet
    <3>2. h \in ToSet(t)
      BY <1>4, <1>6, <3>1
    <3> QED BY <1>6, <3>2 DEF ToSet, NodesOf
  <2>3. /\ p > Limit /\ p \in Nat /\ Len(s) > Limit
        /\ \A q \in DOMAIN s : q \in Nat
    BY <1>1, <1>3, <2>1, <2>2
  <2>4. ASSUME NEW i \in DOMAIN t PROVE ByScore(t[i], h)
    <3>1. t[i] \in ToSet(first)
      BY <1>4 DEF ToSet
    <3>2. PICK q \in DOMAIN first : t[i] = first[q]
      BY <3>1 DEF ToSet
    <3>3. q \in DOMAIN s /\ t[i] = s[q] /\ q <= Limit
      BY <1>3, <3>2
    <3>4. q < p
      BY <1>1, <2>3, <3>3
    <3> QED BY <2>1, <3>3, <3>4
  <2> QED BY <2>3, <2>4
<1> QED BY <1>2, <1>4, <1>5, <1>6 DEF t, first


LEMMA FinishStep ==
    ASSUME ViewInv, Finish PROVE ViewInv'
<1>1. pc = "finishing" /\ pc' = "done" /\ UNCHANGED <<inputs, routed, selected, scored>>
  BY DEF Finish
<1>2. PICK missing \in SUBSET {n[1] : n \in NodesOf(Take(hits, Limit))} :
        /\ hits' = Outside(Take(hits, Limit), missing)
        /\ coverage' = [coverage EXCEPT !.truncated = @ \/ Len(hits) > Limit,
                                        !.stale = @ \cup missing]
  BY DEF Finish
<1>3. hits \in Seq(Candidate) /\ NodesOnce(hits) /\ NodesOf(hits) \subseteq AllNodes
      /\ Len(hits) \in Nat /\ Limit \in Nat
  BY BatchAssumption DEF ViewInv, ListOK
<1>4. /\ scope' = scope /\ mode' = mode /\ matches' = matches /\ gone' = gone
      /\ Docs' = Docs /\ AllNodes' = AllNodes /\ FreshMatches' = FreshMatches
      /\ ViewInputs' /\ scored' = scored /\ routed' = routed /\ selected' = selected
  BY <1>1, InputsKept DEF ViewInv
<1> DEFINE first == Take(hits, Limit)
<1>5. first \in Seq(Candidate) /\ NodesOnce(first) /\ NodesOf(first) \subseteq NodesOf(hits)
  BY <1>3, CutFacts
<1>6. missing \in SUBSET Docs
  <2>1. \A n \in NodesOf(first) : n[1] \in Docs
    BY <1>3, <1>5, ScopeFacts DEF ViewInv, ViewInputs
  <2> QED BY <1>2, <2>1
<1>7. hits' = Outside(first, missing)
  BY <1>2
<1> HIDE DEF first
<1>8. ListOK'
  <2>1. /\ hits' \in Seq(Candidate) /\ NodesOnce(hits') /\ NodesOf(hits') \subseteq NodesOf(first)
    BY <1>5, <1>7, OutsideFacts
  <2> QED BY <1>3, <1>4, <1>5, <2>1 DEF ListOK
<1>9. /\ DOMAIN coverage = {"truncated", "complete", "stale", "reranked", "filtered"}
      /\ coverage.truncated \in BOOLEAN /\ coverage.complete \in BOOLEAN
      /\ coverage.stale \in SUBSET Docs
      /\ coverage.reranked \in Nat /\ coverage.filtered \in Nat
  BY CoverageFields DEF ViewInv
<1>10. /\ coverage' \in [truncated : BOOLEAN, complete : BOOLEAN, stale : SUBSET Docs,
                         reranked : Nat, filtered : Nat]
       /\ coverage'.complete = coverage.complete
       /\ coverage'.truncated = (coverage.truncated \/ Len(hits) > Limit)
       /\ coverage'.stale = coverage.stale \cup missing
       /\ coverage'.reranked = coverage.reranked
       /\ coverage'.filtered = coverage.filtered
  <2>1. ViewTypes
    BY DEF ViewInv
  <2>2. /\ (coverage.truncated \/ Len(hits) > Limit) \in BOOLEAN
        /\ coverage.stale \cup missing \in SUBSET Docs
    BY <1>6, <1>9
  <2> QED BY <1>2, <1>9, <2>1, <2>2 DEF ViewTypes
<1>11. ViewTypes'
  BY <1>1, <1>4, <1>10 DEF ViewTypes, ViewInv
<1>12. ASSUME mode # "lexical" PROVE CandidatesAccountedFor' /\ ExhaustiveWhenClaimed'
  <2>1. /\ IsFiniteSet(scored) /\ NodeOnce(scored)
        /\ ToSet(hits) = {h \in scored : Eligible(h)}
        /\ \A i, j \in DOMAIN hits : i < j => ByScore(hits[i], hits[j])
        /\ coverage.reranked = Cardinality(scored)
        /\ coverage.filtered = Cardinality(scored) - Len(hits)
    BY <1>1, <1>12 DEF ViewInv, JudgedList
  <2>2. scored \in SUBSET Candidate
    BY DEF ViewInv, ViewTypes
  <2>3. /\ hits' \in Seq(Candidate) /\ Len(hits') <= Limit
        /\ ToSet(hits') \subseteq ToSet(hits)
        /\ \A i, j \in DOMAIN hits' : i < j => ByScore(hits'[i], hits'[j])
        /\ \A h \in ToSet(hits) : \/ h.node \in NodesOf(hits')
                                  \/ h.node[1] \in missing
                                  \/ /\ Len(hits) > Limit
                                     /\ \A i \in DOMAIN hits' : ByScore(hits'[i], h)
    BY <1>3, <1>7, <2>1, CutAndLook DEF first
  <2>4. \A h : h \in ToSet(hits) <=> h \in scored /\ Eligible(h)
    BY <2>1
  <2> DEFINE unreported == {h \in scored : h.node \notin NodesOf(hits')}
             stale == {h \in unreported : h.node[1] \in coverage'.stale}
  <2>5. \A h \in unreported : h \in scored /\ h.node \notin NodesOf(hits')
    OBVIOUS
  <2>6. \A h \in unreported \ stale : h.node[1] \notin missing
    BY <1>10
  <2>7. /\ Cardinality(ToSet(hits)) = Len(hits) /\ IsFiniteSet(ToSet(hits))
        /\ Cardinality(scored) \in Nat
        /\ IsFiniteSet(scored \ ToSet(hits))
        /\ Cardinality(scored \ ToSet(hits)) = Cardinality(scored) - Len(hits)
    <3>1. Cardinality(ToSet(hits)) = Len(hits) /\ IsFiniteSet(ToSet(hits))
      BY <1>3, NodeCount
    <3>2. scored \cap ToSet(hits) = ToSet(hits)
      BY <2>4
    <3>3. /\ IsFiniteSet(scored \ ToSet(hits))
          /\ Cardinality(scored \ ToSet(hits)) =
               Cardinality(scored) - Cardinality(scored \cap ToSet(hits))
      BY <2>1, FS_Difference
    <3> QED BY <2>1, <3>1, <3>2, <3>3, FS_CardinalityType
  <2>8. IsFiniteSet(unreported)
    BY <2>1, FS_Subset
  <2>9. ASSUME ~coverage'.truncated PROVE Cardinality(unreported \ stale) <= coverage'.filtered
    <3>1. ~ Len(hits) > Limit
      BY <1>10, <2>9
    <3>2. unreported \ stale \in SUBSET (scored \ ToSet(hits))
      BY <2>3, <2>5, <2>6, <3>1
    <3>3. Cardinality(unreported \ stale) <= Cardinality(scored \ ToSet(hits))
      BY <2>7, <3>2, FS_Subset
    <3> QED BY <1>10, <2>1, <2>7, <3>3
  <2>10. coverage'.filtered <= Cardinality(unreported)
    <3>1. \A h \in scored \ ToSet(hits) : h.node \notin NodesOf(hits')
      <4> SUFFICES ASSUME NEW h \in scored \ ToSet(hits), NEW i \in DOMAIN hits',
                          h.node = hits'[i].node
                   PROVE  FALSE
        BY DEF NodesOf
      <4>1. hits'[i] \in ToSet(hits)
        BY <2>3 DEF ToSet
      <4>2. hits'[i] \in scored
        BY <2>4, <4>1
      <4> QED BY <2>1, <4>1, <4>2 DEF NodeOnce
    <3>2. scored \ ToSet(hits) \in SUBSET unreported
      BY <3>1
    <3>3. Cardinality(scored \ ToSet(hits)) <= Cardinality(unreported)
      BY <2>8, <3>2, FS_Subset
    <3> QED BY <1>10, <2>1, <2>7, <3>3
  <2>11. ASSUME NEW h \in unreported \ stale, Eligible(h)
         PROVE  coverage'.truncated /\ \A i \in DOMAIN hits' :
                    \/ hits'[i].anchor /\ ~h.anchor
                    \/ hits'[i].anchor = h.anchor /\ hits'[i].score >= h.score
    <3>1. h \in ToSet(hits) /\ h \in Candidate
      BY <2>2, <2>4, <2>5, <2>11
    <3>2. Len(hits) > Limit /\ \A i \in DOMAIN hits' : ByScore(hits'[i], h)
      BY <2>3, <2>5, <2>6, <3>1
    <3>3. \A i \in DOMAIN hits' : hits'[i] \in Candidate
      BY <2>3
    <3>4. coverage'.truncated
      BY <1>10, <3>2
    <3>5. ASSUME NEW i \in DOMAIN hits'
          PROVE  \/ hits'[i].anchor /\ ~h.anchor
                 \/ hits'[i].anchor = h.anchor /\ hits'[i].score >= h.score
      <4>1. ByScore(hits'[i], h) /\ hits'[i].score \in Nat /\ h.score \in Nat
        BY <3>1, <3>2, <3>3 DEF Candidate
      <4> QED BY <4>1 DEF ByScore
    <3> QED BY <3>4, <3>5
  <2>12. \A i, j \in DOMAIN hits' : i < j /\ hits'[j].anchor => hits'[i].anchor
    BY <2>3 DEF ByScore
  <2>13. \A h \in ToSet(hits') : Eligible(h)
    BY <2>3, <2>4
  <2>14. CandidatesAccountedFor'
    <3>1. coverage'.reranked = Cardinality(scored)
      BY <1>10, <2>1
    <3>2. coverage'.truncated \/ Cardinality(unreported \ stale) <= coverage'.filtered
      BY <2>9
    <3>3. \A h \in unreported \ stale :
              \/ ~Eligible(h)
              \/ coverage'.truncated /\ \A i \in DOMAIN hits' :
                    \/ hits'[i].anchor /\ ~h.anchor
                    \/ hits'[i].anchor = h.anchor /\ hits'[i].score >= h.score
      BY <2>11
    <3> QED BY <1>4, <2>3, <2>10, <2>12, <2>13, <3>1, <3>2, <3>3
      DEF CandidatesAccountedFor
  <2>15. ExhaustiveWhenClaimed'
    <3> SUFFICES ASSUME Len(scope) <= TopRanked, ~coverage'.truncated, coverage'.complete,
                        NEW n \in AllNodes
                 PROVE  \/ n \in NodesOf(hits')
                        \/ n[1] \in coverage'.stale
                        \/ \E h \in scored : h.node = n /\ h.score < MinScore
      BY <1>4 DEF ExhaustiveWhenClaimed
    <3>1. Whole /\ ~ Len(hits) > Limit
      BY <1>10 DEF Whole
    <3>2. PICK h \in scored : h.node = n
      BY <1>1, <1>12, <3>1 DEF ViewInv, AllJudged
    <3>3. CASE Eligible(h)
      BY <1>10, <2>3, <2>4, <3>1, <3>2, <3>3
    <3>4. CASE ~Eligible(h)
      <4>1. h.score \in Nat /\ MinScore \in Nat
        BY <2>2, BatchAssumption DEF Candidate
      <4> QED BY <3>2, <3>4, <4>1 DEF Eligible
    <3> QED BY <3>3, <3>4
  <2> QED BY <2>14, <2>15
<1>13. ASSUME mode = "lexical" PROVE CandidatesAccountedFor' /\ ExhaustiveWhenClaimed'
  BY <1>4, <1>13 DEF CandidatesAccountedFor, ExhaustiveWhenClaimed
<1> QED BY <1>1, <1>4, <1>8, <1>11, <1>12, <1>13
  DEF ViewInv, LaneOK, RouteOK, AllJudged, JudgedList, TreeLaneShare

LEMMA ViewStep == ViewInv /\ [ViewNext]_viewVars => ViewInv'
<1> SUFFICES ASSUME ViewInv, [ViewNext]_viewVars PROVE ViewInv'
  OBVIOUS
<1>1. CASE Collect
  BY <1>1, CollectStep
<1>2. CASE Route
  BY <1>2, RouteStep
<1>3. CASE RoutingReply
  BY <1>3, RoutingReplyStep
<1>4. CASE Rerank
  BY <1>4, RerankStep
<1>5. CASE CallFails
  BY <1>5, CallFailsStep
<1>6. CASE Finish
  BY <1>6, FinishStep
<1>7. CASE UNCHANGED viewVars
  <2>1. /\ pc' = pc /\ hits' = hits /\ routed' = routed /\ selected' = selected
        /\ scored' = scored /\ coverage' = coverage /\ UNCHANGED inputs
    BY <1>7 DEF viewVars, inputs
  <2>2. /\ scope' = scope /\ mode' = mode /\ matches' = matches /\ gone' = gone
        /\ Docs' = Docs /\ AllNodes' = AllNodes /\ FreshMatches' = FreshMatches
        /\ ViewInputs'
    BY <2>1, InputsKept DEF ViewInv
  <2>3. ViewTypes' /\ ListOK' /\ LaneOK' /\ RouteOK'
    BY <2>1, <2>2 DEF ViewInv, ViewTypes, ListOK, LaneOK, RouteOK
  <2>4. AllJudged' /\ JudgedList'
    BY <2>1, <2>2 DEF ViewInv, AllJudged, JudgedList, Whole
  <2>5. TreeLaneShare'
    BY <2>1, <2>2 DEF ViewInv, TreeLaneShare, Leaves
  <2>6. CandidatesAccountedFor' /\ ExhaustiveWhenClaimed'
    BY <2>1, <2>2 DEF ViewInv, CandidatesAccountedFor, ExhaustiveWhenClaimed
  <2> QED BY <2>2, <2>3, <2>4, <2>5, <2>6 DEF ViewInv
<1> QED BY <1>1, <1>2, <1>3, <1>4, <1>5, <1>6, <1>7 DEF ViewNext

LEMMA ViewInvariant == ViewSpec => []ViewInv
<1>1. ViewInit => ViewInv
  BY ViewStarts
<1>2. ViewInv /\ [ViewNext]_viewVars => ViewInv'
  BY ViewStep
<1> QED BY <1>1, <1>2, PTL DEF ViewSpec

\* The two lanes are joined without a node twice and within the budget, the tree lane
\* gets its half of it, fairly to the documents it opened, and every judged candidate
\* is reported, filtered, in a stale document or behind an announced limit: for any
\* scope, query, ranking, scores, budget and limit of collect_candidate_view,
\* score_candidates and finish_candidate_batch.
THEOREM NothingLost == ViewSpec => []CandidatesKept
<1>1. ViewInv => CandidatesKept
  BY DEF ViewInv, CandidatesKept
<1> QED BY <1>1, ViewInvariant, PTL

\* A report that is complete and not truncated stands for its whole scope, as long as
\* the routing reply could open all documents of it.
THEOREM ClaimIsTrue == ViewSpec => []ExhaustiveWhenClaimed
<1>1. ViewInv => ExhaustiveWhenClaimed
  BY DEF ViewInv
<1> QED BY <1>1, ViewInvariant, PTL


---------------------------------------------------------------------------
(***************************************************************************)
(* Spans and hits of a planned search.                                     *)
(***************************************************************************)

Window == [span : Spans, anchor : BOOLEAN]
Hit    == [span : Spans, anchor : BOOLEAN, score : Nat, role : Nat]

\* No span twice, in a set and in a sequence of hits.
OneEach(S)  == \A g, h \in S : g.span = h.span => g = h
NoRepeat(s) == \A i, j \in DOMAIN s : s[i].span = s[j].span => i = j

\* Hits of different spans have one order.
LEMMA RankedFacts ==
    ASSUME NEW S \in SUBSET Hit, IsFiniteSet(S), OneEach(S)
    PROVE  /\ Sorted(S, Ranks) \in SetToSeqs(S)
           /\ \A i, j \in DOMAIN Sorted(S, Ranks) :
                i < j => Ranks(Sorted(S, Ranks)[i], Sorted(S, Ranks)[j])
<1> DEFINE R == {p \in S \X S : Ranks(p[1], p[2])}
<1>1. \A a, b \in S : <<a, b>> \in R <=> Ranks(a, b)
  OBVIOUS
<1>2. \A a \in S : /\ a.anchor \in BOOLEAN /\ a.score \in Nat /\ a.role \in Nat
                   /\ a.span \in Nat
  BY UnionAssumption DEF Hit
<1> HIDE DEF R
<1>3. \A a, b \in S : a = b \/ <<a, b>> \in R \/ <<b, a>> \in R
  <2> SUFFICES ASSUME NEW a \in S, NEW b \in S, a # b PROVE Ranks(a, b) \/ Ranks(b, a)
    BY <1>1
  <2>1. a.span # b.span
    BY DEF OneEach
  <2> QED BY <1>2, <2>1 DEF Ranks
<1>4. \A a \in S : <<a, a>> \notin R
  BY <1>1, <1>2 DEF Ranks
<1>5. \A a, b, c \in S : <<a, b>> \in R /\ <<b, c>> \in R => <<a, c>> \in R
  <2> SUFFICES ASSUME NEW a \in S, NEW b \in S, NEW c \in S, Ranks(a, b), Ranks(b, c)
               PROVE  Ranks(a, c)
    BY <1>1
  <2> QED BY <1>2 DEF Ranks
<1>6. Orders(R, S)
  BY <1>3, <1>4, <1>5 DEF Orders
<1>7. \E s \in SetToSeqs(S) : \A i, j \in DOMAIN s : i < j => Ranks(s[i], s[j])
  <2>1. PICK s \in SetToSeqs(S) : InOrder(s, R)
    BY <1>6, SortExists
  <2>2. s \in Seq(S)
    BY SeqsOnto
  <2>3. \A i \in DOMAIN s : s[i] \in S
    BY <2>2
  <2> QED BY <1>1, <2>1, <2>3 DEF InOrder
<1> QED BY <1>7 DEF Sorted

\* A set of hits without a span twice is as large as the set of its spans.
LEMMA SpanCount ==
    ASSUME NEW S \in SUBSET Hit, OneEach(S)
    PROVE  /\ IsFiniteSet(S) /\ Cardinality(S) \in Nat
           /\ Cardinality({h.span : h \in S}) = Cardinality(S)
<1> DEFINE T == {h.span : h \in S}
           f == [h \in S |-> h.span]
<1>1. T \in SUBSET Spans
  BY DEF Hit
<1>2. IsFiniteSet(T)
  BY <1>1, UnionAssumption, FS_Subset
<1>3. f \in Injection(S, T) /\ f \in Surjection(S, T)
  BY DEF Injection, IsInjective, Surjection, OneEach
<1> HIDE DEF T, f
<1>4. IsFiniteSet(S) /\ Cardinality(S) = Cardinality(T)
  BY <1>2, <1>3, FS_Injection
<1> QED BY <1>4, FS_CardinalityType DEF T

\* So is a sequence.
LEMMA SpansCount ==
    ASSUME NEW s \in Seq(Hit), NoRepeat(s)
    PROVE  /\ SpansOf(s) \in SUBSET Spans /\ IsFiniteSet(SpansOf(s))
           /\ Cardinality(SpansOf(s)) = Len(s)
           /\ ToSet(s) \in SUBSET Hit /\ IsFiniteSet(ToSet(s)) /\ OneEach(ToSet(s))
           /\ Cardinality(ToSet(s)) = Len(s)
           /\ SpansOf(s) = {h.span : h \in ToSet(s)}
<1>1. DOMAIN s = 1..Len(s) /\ Len(s) \in Nat /\ \A i \in DOMAIN s : s[i] \in Hit
  OBVIOUS
<1>2. ToSet(s) \in SUBSET Hit /\ OneEach(ToSet(s))
  BY <1>1 DEF ToSet, OneEach, NoRepeat
<1>3. SpansOf(s) = {h.span : h \in ToSet(s)}
  BY DEF SpansOf, ToSet
<1>4. SpansOf(s) \in SUBSET Spans
  BY <1>1 DEF SpansOf, Hit
<1>5. s \in Surjection(1..Len(s), ToSet(s)) /\ s \in Injection(1..Len(s), ToSet(s))
  BY <1>1 DEF Surjection, Injection, IsInjective, ToSet, NoRepeat
<1>6. IsFiniteSet(1..Len(s)) /\ Cardinality(1..Len(s)) = Len(s)
  <2>1. \A n \in Nat : IsFiniteSet(1..n) /\ Cardinality(1..n) = n
    BY FS_Interval
  <2> QED BY <1>1, <2>1
<1>7. IsFiniteSet(ToSet(s)) /\ Cardinality(ToSet(s)) = Len(s)
  BY <1>5, <1>6, FS_Surjection
<1> QED BY <1>2, <1>3, <1>4, <1>7, SpanCount, UnionAssumption, FS_Subset
---------------------------------------------------------------------------
(***************************************************************************)
(* The union of the views.                                                 *)
(***************************************************************************)

InputOK ==
    /\ views \in [1..Views -> Seq(Window)]
    /\ \A v \in 1..Views : Len(views[v]) <= MaxWindows
    /\ policy \in {"relevance", "roles"}

\* Where spans stand in the views.
LEMMA PlaceFacts ==
    ASSUME InputOK
    PROVE  /\ Found \in SUBSET Spans /\ IsFiniteSet(Found)
           /\ \A s : Places(s) \in SUBSET (Nat \X Nat)
           /\ \A s \in Found : Places(s) # {}
           /\ \A s, t, p : p \in Places(s) /\ p \in Places(t) => s = t
           /\ \A v \in 1..Views : SpansOf(views[v]) \in SUBSET Found
           /\ \A s : Places(s) # {} => s \in Found
<1>1. \A v \in 1..Views : \A k \in DOMAIN views[v] :
         /\ k \in 1..MaxWindows /\ k <= Len(views[v]) /\ views[v][k].span \in Spans
  <2> SUFFICES ASSUME NEW v \in 1..Views, NEW k \in DOMAIN views[v]
               PROVE  /\ k \in 1..MaxWindows /\ k <= Len(views[v])
                      /\ views[v][k].span \in Spans
    OBVIOUS
  <2>1. views[v] \in Seq(Window) /\ Len(views[v]) <= MaxWindows
    BY DEF InputOK
  <2>2. k \in 1..Len(views[v]) /\ Len(views[v]) \in Nat /\ views[v][k] \in Window
    BY <2>1
  <2> QED BY <2>1, <2>2, UnionAssumption DEF Window
<1>2. \A v \in 1..Views : \A k \in 1..MaxWindows :
         k <= Len(views[v]) => k \in DOMAIN views[v]
  <2> SUFFICES ASSUME NEW v \in 1..Views, NEW k \in 1..MaxWindows, k <= Len(views[v])
               PROVE  k \in DOMAIN views[v]
    OBVIOUS
  <2>1. views[v] \in Seq(Window)
    BY DEF InputOK
  <2>2. DOMAIN views[v] = 1..Len(views[v]) /\ Len(views[v]) \in Nat
    BY <2>1
  <2> QED BY <2>2, UnionAssumption
<1>3. Found \in SUBSET Spans
  BY <1>1 DEF Found, SpansOf
<1>4. IsFiniteSet(Found)
  BY <1>3, UnionAssumption, FS_Subset
<1>5. ASSUME NEW s \in Found PROVE Places(s) # {}
  <2>1. PICK v \in 1..Views : \E k \in DOMAIN views[v] : views[v][k].span = s
    BY <1>5 DEF Found, SpansOf
  <2>2. PICK k \in DOMAIN views[v] : views[v][k].span = s
    BY <2>1
  <2>3. <<k, v>> \in Places(s)
    BY <1>1, <2>1, <2>2 DEF Places
  <2> QED BY <2>3
<1>6. \A s : Places(s) # {} => s \in Found
  BY <1>2 DEF Places, Found, SpansOf
<1>7. \A s : Places(s) \in SUBSET (Nat \X Nat)
  BY UnionAssumption DEF Places
<1> QED BY <1>3, <1>4, <1>5, <1>6, <1>7 DEF Places, Found

\* A span that is found has a first place.
LEMMA FirstPlaceFacts ==
    ASSUME InputOK, NEW s, Places(s) # {}
    PROVE  /\ FirstPlace(s) \in Places(s)
           /\ \A q \in Places(s) : FirstPlace(s) = q \/ ComesFirst(FirstPlace(s), q)
<1> DEFINE P == Places(s)
           R == {r \in P \X P : ComesFirst(r[1], r[2])}
<1>1. P \in SUBSET (Nat \X Nat)
  BY PlaceFacts
<1>2. IsFiniteSet(P)
  <2>1. IsFiniteSet(1..MaxWindows) /\ IsFiniteSet(1..Views)
    BY UnionAssumption, FS_Interval
  <2>2. IsFiniteSet((1..MaxWindows) \X (1..Views))
    BY <2>1, FS_Product
  <2> QED BY <2>2, FS_Subset DEF Places
<1>3. \A p, q \in P : <<p, q>> \in R <=> ComesFirst(p, q)
  OBVIOUS
<1>4. \A p \in P : p = <<p[1], p[2]>> /\ p[1] \in Nat /\ p[2] \in Nat
  BY <1>1
<1> HIDE DEF P, R
<1>5. \A p, q \in P : p = q \/ <<p, q>> \in R \/ <<q, p>> \in R
  <2> SUFFICES ASSUME NEW p \in P, NEW q \in P, p # q
               PROVE  ComesFirst(p, q) \/ ComesFirst(q, p)
    BY <1>3
  <2>1. p[1] # q[1] \/ p[2] # q[2]
    BY <1>4
  <2> QED BY <1>4, <2>1 DEF ComesFirst
<1>6. \A p \in P : <<p, p>> \notin R
  BY <1>3, <1>4 DEF ComesFirst
<1>7. \A p, q, r \in P : <<p, q>> \in R /\ <<q, r>> \in R => <<p, r>> \in R
  <2> SUFFICES ASSUME NEW p \in P, NEW q \in P, NEW r \in P,
                      ComesFirst(p, q), ComesFirst(q, r)
               PROVE  ComesFirst(p, r)
    BY <1>3
  <2> QED BY <1>4 DEF ComesFirst
<1>8. Orders(R, P)
  BY <1>5, <1>6, <1>7 DEF Orders
<1>9. PICK g \in SetToSeqs(P) : InOrder(g, R)
  BY <1>2, <1>8, SortExists
<1>10. /\ DOMAIN g = 1..Len(g) /\ Len(g) \in Nat /\ \A i \in DOMAIN g : g[i] \in P
       /\ \A p \in P : \E i \in DOMAIN g : g[i] = p
  <2>1. g \in Seq(P)
    BY <1>2, SeqsOnto
  <2> QED BY <1>2, <2>1, SeqsOnto
<1>11. 1 \in DOMAIN g
  BY <1>10 DEF P
<1>12. \A q \in P : g[1] = q \/ ComesFirst(g[1], q)
  <2> SUFFICES ASSUME NEW q \in P PROVE g[1] = q \/ ComesFirst(g[1], q)
    OBVIOUS
  <2>1. PICK i \in DOMAIN g : g[i] = q
    BY <1>10
  <2>2. i = 1 \/ 1 < i
    BY <1>10
  <2>3. 1 < i => <<g[1], g[i]>> \in R
    BY <1>9, <1>11 DEF InOrder
  <2> QED BY <1>3, <1>10, <1>11, <2>1, <2>2, <2>3
<1>13. \E p \in P : \A q \in P : p = q \/ ComesFirst(p, q)
  BY <1>10, <1>11, <1>12
<1> QED BY <1>13 DEF FirstPlace, P

\* The spans that the union takes come before those it leaves out.
LEMMA SelectedFacts ==
    ASSUME InputOK
    PROVE  /\ Selected \in Seq(Spans) /\ Len(Selected) \in Nat
           /\ DOMAIN Selected = 1..Len(Selected)
           /\ Cardinality(Found) \in Nat /\ Len(Selected) <= Cardinality(Found)
           /\ Len(Selected) <= MaxCandidates
           /\ \A i, j \in DOMAIN Selected : Selected[i] = Selected[j] => i = j
           /\ ToSet(Selected) \in SUBSET Found
           /\ Len(Selected) < Cardinality(Found) => Len(Selected) = MaxCandidates
           /\ Len(Selected) = Cardinality(Found) => ToSet(Selected) = Found
           /\ \A s \in Found \ ToSet(Selected) : \A t \in ToSet(Selected) :
                ComesFirst(FirstPlace(t), FirstPlace(s))
<1> DEFINE Earlier(s, t) == ComesFirst(FirstPlace(s), FirstPlace(t))
           R == {r \in Found \X Found : Earlier(r[1], r[2])}
           all == Sorted(Found, Earlier)
<1>1. Found \in SUBSET Spans /\ IsFiniteSet(Found)
  BY PlaceFacts
<1>2. \A s \in Found : /\ FirstPlace(s) \in Places(s)
                       /\ FirstPlace(s) \in Nat \X Nat
  BY PlaceFacts, FirstPlaceFacts
<1>3. \A s, t \in Found : s # t => FirstPlace(s) # FirstPlace(t)
  BY <1>2, PlaceFacts
<1>4. \A s \in Found : /\ FirstPlace(s) = <<FirstPlace(s)[1], FirstPlace(s)[2]>>
                       /\ FirstPlace(s)[1] \in Nat /\ FirstPlace(s)[2] \in Nat
  BY <1>2
<1>5. \A s, t \in Found : <<s, t>> \in R <=> ComesFirst(FirstPlace(s), FirstPlace(t))
  OBVIOUS
<1>6. Orders(R, Found)
  <2> HIDE DEF R
  <2>1. ASSUME NEW s \in Found, NEW t \in Found, s # t
        PROVE  <<s, t>> \in R \/ <<t, s>> \in R
    <3>1. \/ FirstPlace(s)[1] # FirstPlace(t)[1]
          \/ FirstPlace(s)[2] # FirstPlace(t)[2]
      BY <1>3, <1>4, <2>1
    <3> QED BY <1>4, <1>5, <3>1 DEF ComesFirst
  <2>2. ASSUME NEW s \in Found PROVE <<s, s>> \notin R
    BY <1>4, <1>5 DEF ComesFirst
  <2>3. ASSUME NEW s \in Found, NEW t \in Found, NEW u \in Found,
               <<s, t>> \in R, <<t, u>> \in R
        PROVE  <<s, u>> \in R
    <3>1. /\ ComesFirst(FirstPlace(s), FirstPlace(t))
          /\ ComesFirst(FirstPlace(t), FirstPlace(u))
      BY <1>5, <2>3
    <3>2. ComesFirst(FirstPlace(s), FirstPlace(u))
      BY <1>4, <3>1 DEF ComesFirst
    <3> QED BY <1>5, <3>2
  <2> QED BY <2>1, <2>2, <2>3 DEF Orders
<1>7. \E g \in SetToSeqs(Found) :
        \A i, j \in DOMAIN g : i < j => ComesFirst(FirstPlace(g[i]), FirstPlace(g[j]))
  <2> HIDE DEF R
  <2>1. PICK g \in SetToSeqs(Found) : InOrder(g, R)
    BY <1>1, <1>6, SortExists
  <2>2. g \in Seq(Found)
    BY <1>1, SeqsOnto
  <2>3. \A i \in DOMAIN g : g[i] \in Found
    BY <2>2
  <2> QED BY <1>5, <2>1, <2>3 DEF InOrder
<1>8. /\ all \in SetToSeqs(Found)
      /\ \A i, j \in DOMAIN all :
           i < j => ComesFirst(FirstPlace(all[i]), FirstPlace(all[j]))
  BY <1>7 DEF Sorted
<1>9. Selected = Take(all, MaxCandidates)
  BY DEF Selected
<1> HIDE DEF all, R, Earlier
<1>10. /\ all \in Seq(Found) /\ Len(all) = Cardinality(Found) /\ Cardinality(Found) \in Nat
       /\ DOMAIN all = 1..Len(all)
       /\ \A i, j \in DOMAIN all : all[i] = all[j] => i = j
       /\ \A s \in Found : \E i \in DOMAIN all : all[i] = s
       /\ ToSet(all) = Found
  BY <1>1, <1>8, SeqsOnto
<1>11. /\ Selected \in Seq(Found)
       /\ Len(Selected) <= MaxCandidates /\ Len(Selected) <= Len(all)
       /\ Len(Selected) < MaxCandidates => Len(Selected) = Len(all)
       /\ Len(Selected) < Len(all) => Len(Selected) = MaxCandidates
       /\ DOMAIN Selected = 1..Len(Selected)
       /\ \A i \in DOMAIN all : i \in DOMAIN Selected <=> i <= MaxCandidates
       /\ \A i \in DOMAIN Selected : i \in DOMAIN all /\ Selected[i] = all[i]
  <2>1. MaxCandidates \in Nat
    BY BatchAssumption
  <2> QED BY <1>9, <1>10, <2>1, TakeFacts
<1>12. Selected \in Seq(Spans)
  BY <1>1, <1>11
<1>13. Len(Selected) = Cardinality(Found) => ToSet(Selected) = Found
  BY <1>10, <1>11 DEF ToSet
<1>14. ASSUME NEW s \in Found \ ToSet(Selected), NEW t \in ToSet(Selected)
       PROVE  ComesFirst(FirstPlace(t), FirstPlace(s))
  <2>1. PICK i \in DOMAIN all : all[i] = s
    BY <1>10
  <2>2. PICK j \in DOMAIN Selected : Selected[j] = t
    BY DEF ToSet
  <2>3. j \in DOMAIN all /\ all[j] = t /\ j <= MaxCandidates
    BY <1>11, <2>2
  <2>4. ~(i <= MaxCandidates)
    BY <1>11, <2>1 DEF ToSet
  <2>5. j < i
    BY <1>10, <2>1, <2>3, <2>4, BatchAssumption
  <2> QED BY <1>8, <2>1, <2>3, <2>5
<1>15. ToSet(Selected) \in SUBSET Found
  BY <1>11 DEF ToSet
<1>16. Len(Selected) \in Nat
  BY <1>11
<1> QED BY <1>10, <1>11, <1>12, <1>13, <1>14, <1>15, <1>16
---------------------------------------------------------------------------
(***************************************************************************)
(* The invariant.                                                          *)
(***************************************************************************)

\* The counters of the report are numbers.
CoverageOK ==
    coverage \in [unique : Int, union : Int, omitted : Int, truncated : BOOLEAN,
                  reranked : Int, filtered : Int, retained : Int,
                  views : Seq([collected : Int, union : Int, omitted : Int])]

\* Only the original question gives an anchor, and nobody takes it away.
HitsOK ==
    /\ hits \in Seq(Hit) /\ NoRepeat(hits)
    /\ \A h \in ToSet(hits) : h.anchor = Anchored(h.span)

JudgedOK ==
    /\ judged \in SUBSET Hit /\ OneEach(judged)
    /\ \A h \in judged : h.anchor = Anchored(h.span)

\* Nothing is issued before the end, and the ledger's state follows the report.
HostOK ==
    /\ issued = IF pc \in {"issued", "done"} THEN SpansOf(hits) ELSE {}
    /\ pc \notin {"packed", "failed"} => kept = found
    /\ pc = "failed" => \A s \in Spans :
          kept[s] \notin {"judged_awaiting_selection", "awaiting_delivery", "delivered"}
    /\ policy = "relevance" => found = Unassessed

\* Before the candidates are in their order.
DraftOK ==
    /\ pc = "merged" => UnionSound
    /\ pc \in {"merging", "merged"} => found = Unassessed
    /\ pc \in {"asked", "replied"} /\ policy = "roles" =>
          \A s \in Spans : found[s] # "none" <=> s \in SpansOf(hits)
    /\ pc = "replied" => judged = ToSet(hits) /\ coverage.reranked = Len(hits)

\* What the disposition of a judged candidate says of it.
Explained(h, d) ==
    \/ /\ d = IF pc \in {"ordered", "checked"} THEN "awaiting_delivery" ELSE "delivered"
       /\ h.span \in SpansOf(hits)
       /\ pc = "ordered" => h.span \in SpansOf(Take(hits, Limit))
    \/ /\ d = "eligible_below_result_limit"
       /\ Cardinality({g \in judged : Eligible(g) /\ Beats(g, h)}) > Limit
       /\ h.span \notin SpansOf(IF pc = "ordered" THEN Take(hits, Limit) ELSE hits)
    \/ /\ d = "excluded_relevance_floor"
       /\ ~Eligible(h) /\ h.span \notin SpansOf(hits)
    \/ /\ d = "stale_before_delivery" /\ pc # "ordered"
       /\ SourceOf[h.span] \in lost /\ h.span \notin SpansOf(hits)
    \/ /\ d = "selected_removed_by_envelope" /\ pc \notin {"ordered", "checked"}
       /\ hits # <<>> /\ h.span \notin SpansOf(hits)
       /\ \A g \in ToSet(hits) : Beats(g, h)

FinalOK ==
    pc \in {"ordered", "checked", "packed", "issued", "done"} =>
        /\ ToSet(hits) \subseteq {h \in judged : Eligible(h)}
        /\ \A i, j \in DOMAIN hits : i < j => Beats(hits[i], hits[j])
        /\ pc # "ordered" =>
              /\ Len(hits) <= Limit
              /\ \A h \in ToSet(hits) : SourceOf[h.span] \notin lost
        /\ policy = "roles" =>
              /\ \A s \in Spans : found[s] # "none" <=> \E h \in judged : h.span = s
              /\ \A h \in judged : Explained(h, found[h.span])
              /\ coverage.reranked = Cardinality({s \in Spans : found[s] # "none"})
              /\ coverage.filtered =
                    Cardinality({s \in Spans : found[s] = "excluded_relevance_floor"})

UnionInv == InputOK /\ CoverageOK /\ HitsOK /\ JudgedOK /\ HostOK /\ DraftOK /\ FinalOK

\* The inputs have their types, and nothing is found yet.
LEMMA InitInv == Init => UnionInv
<1> SUFFICES ASSUME Init PROVE UnionInv
  OBVIOUS
<1>1. InputOK
  <2>1. \A v \in 1..Views : views[v] \in Seq(Window) /\ Len(views[v]) <= MaxWindows
    <3> SUFFICES ASSUME NEW v \in 1..Views
                 PROVE  views[v] \in Seq(Window) /\ Len(views[v]) <= MaxWindows
      OBVIOUS
    <3>1. views[v] \in WindowsOf(v)
      BY DEF Init
    <3>2. PICK m \in 0..MaxWindows :
            views[v] \in [1..m -> [span : Spans, anchor : IF v = 1 THEN BOOLEAN ELSE {FALSE}]]
      BY <3>1 DEF WindowsOf, BoundedSeq, SeqOf
    <3>3. m \in Nat /\ m <= MaxWindows
      BY <3>2, UnionAssumption
    <3>4. [span : Spans, anchor : IF v = 1 THEN BOOLEAN ELSE {FALSE}] \subseteq Window
      BY DEF Window
    <3>5. views[v] \in [1..m -> Window]
      BY <3>2, <3>4
    <3> QED BY <3>3, <3>5
  <2>2. views \in [1..Views -> UNION {WindowsOf(v) : v \in 1..Views}]
    BY DEF Init
  <2>3. views \in [1..Views -> Seq(Window)]
    BY <2>1, <2>2
  <2> QED BY <2>1, <2>3 DEF Init, InputOK
<1>2. CoverageOK
  BY DEF Init, CoverageOK, NoCoverage
<1>3. HitsOK /\ JudgedOK
  BY DEF Init, HitsOK, JudgedOK, NoRepeat, OneEach, ToSet
<1>4. HostOK /\ DraftOK /\ FinalOK
  BY DEF Init, HostOK, DraftOK, FinalOK
<1> QED BY <1>1, <1>2, <1>3, <1>4 DEF UnionInv

\* The union is fair, and what the cap leaves out is counted.
LEMMA MergeStep ==
    ASSUME UnionInv, Merge PROVE UnionInv'
<1> DEFINE sel == Selected
<1>1. /\ sel \in Seq(Spans) /\ Len(sel) \in Nat /\ DOMAIN sel = 1..Len(sel)
      /\ Cardinality(Found) \in Nat /\ Len(sel) <= Cardinality(Found)
      /\ Len(sel) <= MaxCandidates
      /\ \A i, j \in DOMAIN sel : sel[i] = sel[j] => i = j
      /\ ToSet(sel) \in SUBSET Found
      /\ Len(sel) < Cardinality(Found) => Len(sel) = MaxCandidates
      /\ Len(sel) = Cardinality(Found) => ToSet(sel) = Found
      /\ \A s \in Found \ ToSet(sel) : \A t \in ToSet(sel) :
           ComesFirst(FirstPlace(t), FirstPlace(s))
  BY SelectedFacts DEF UnionInv
<1>2. /\ hits' = [i \in DOMAIN sel |->
                    [span |-> sel[i], anchor |-> Anchored(sel[i]), score |-> 0, role |-> 0]]
      /\ coverage' = [coverage EXCEPT
                        !.unique = Cardinality(Found),
                        !.union = Len(sel),
                        !.omitted = Cardinality(Found) - Len(sel),
                        !.truncated = Cardinality(Found) > Len(sel),
                        !.views = [v \in 1..Views |-> ViewCoverage(v, sel)]]
      /\ pc = "merging" /\ pc' = "merged"
      /\ UNCHANGED <<views, policy, found, kept, issued, judged, lost>>
  BY DEF Merge
<1> HIDE DEF sel
<1>3. InputOK /\ InputOK'
  BY <1>2 DEF InputOK, UnionInv
<1>4. \A s : Anchored(s)' = Anchored(s)
  BY <1>2 DEF Anchored
<1>5. \A s : Anchored(s) \in BOOLEAN
  BY DEF Anchored
<1>6. /\ hits' \in Seq(Hit) /\ Len(hits') = Len(sel) /\ DOMAIN hits' = DOMAIN sel
      /\ \A i \in DOMAIN sel : /\ hits'[i].span = sel[i]
                               /\ hits'[i].anchor = Anchored(sel[i])
  <2>1. \A i \in 1..Len(sel) : sel[i] \in Spans
    BY <1>1
  <2>2. \A i \in 1..Len(sel) :
          [span |-> sel[i], anchor |-> Anchored(sel[i]), score |-> 0, role |-> 0] \in Hit
    BY <1>5, <2>1 DEF Hit
  <2>3. hits' \in [1..Len(sel) -> Hit]
    BY <1>1, <1>2, <2>2
  <2>4. hits' \in Seq(Hit) /\ Len(hits') = Len(sel)
    BY <1>1, <2>3
  <2> QED BY <1>1, <1>2, <2>4
<1>7. HitsOK'
  BY <1>1, <1>4, <1>6 DEF HitsOK, NoRepeat, ToSet
<1>8. JudgedOK'
  BY <1>2, <1>4 DEF UnionInv, JudgedOK
<1>9. SpansOf(hits') = ToSet(sel)
  BY <1>6 DEF SpansOf, ToSet
<1>10. \A v \in 1..Views : \* the coverage of a view
         /\ SpansOf(views[v]) \in SUBSET Found
         /\ IsFiniteSet(SpansOf(views[v])) /\ Cardinality(SpansOf(views[v])) \in Nat
         /\ Cardinality(SpansOf(views[v])) <= Len(views[v]) /\ Len(views[v]) \in Nat
         /\ Cardinality(SpansOf(views[v]) \cap ToSet(sel)) \in Nat
         /\ Cardinality(SpansOf(views[v]) \ ToSet(sel)) =
              Cardinality(SpansOf(views[v])) - Cardinality(SpansOf(views[v]) \cap ToSet(sel))
  <2> SUFFICES ASSUME NEW v \in 1..Views
               PROVE  /\ SpansOf(views[v]) \in SUBSET Found
                      /\ IsFiniteSet(SpansOf(views[v]))
                      /\ Cardinality(SpansOf(views[v])) \in Nat
                      /\ Cardinality(SpansOf(views[v])) <= Len(views[v])
                      /\ Len(views[v]) \in Nat
                      /\ Cardinality(SpansOf(views[v]) \cap ToSet(sel)) \in Nat
                      /\ Cardinality(SpansOf(views[v]) \ ToSet(sel)) =
                           Cardinality(SpansOf(views[v]))
                             - Cardinality(SpansOf(views[v]) \cap ToSet(sel))
    OBVIOUS
  <2> DEFINE S == SpansOf(views[v])
  <2>1. S \in SUBSET Found /\ IsFiniteSet(Found)
    BY <1>3, PlaceFacts
  <2>2. IsFiniteSet(S) /\ Cardinality(S) \in Nat
    BY <2>1, FS_Subset, FS_CardinalityType
  <2>3. DOMAIN views[v] = 1..Len(views[v]) /\ Len(views[v]) \in Nat
    BY <1>3 DEF InputOK
  <2>4. Cardinality(S) <= Len(views[v])
    <3> DEFINE f == [k \in 1..Len(views[v]) |-> views[v][k].span]
    <3>1. f \in Surjection(1..Len(views[v]), S)
      BY <2>3 DEF Surjection, SpansOf
    <3>2. \A n \in Nat : IsFiniteSet(1..n) /\ Cardinality(1..n) = n
      BY FS_Interval
    <3>3. IsFiniteSet(1..Len(views[v])) /\ Cardinality(1..Len(views[v])) = Len(views[v])
      BY <2>3, <3>2
    <3> HIDE DEF S, f
    <3> QED BY <3>1, <3>3, FS_Surjection
  <2> HIDE DEF S
  <2>5. /\ Cardinality(S \cap ToSet(sel)) \in Nat
        /\ Cardinality(S \ ToSet(sel)) = Cardinality(S) - Cardinality(S \cap ToSet(sel))
    BY <2>2, FS_Intersection, FS_Difference, FS_CardinalityType
  <2> QED BY <2>1, <2>2, <2>3, <2>4, <2>5 DEF S
<1>11. CoverageOK'
  <2>1. ASSUME NEW v \in 1..Views
        PROVE  ViewCoverage(v, sel) \in [collected : Int, union : Int, omitted : Int]
    <3>1. /\ Len(views[v]) \in Nat
          /\ Cardinality(SpansOf(views[v]) \cap ToSet(sel)) \in Nat
          /\ Cardinality(SpansOf(views[v])) \in Nat
      BY <1>10
    <3>2. /\ Len(views[v]) \in Int
          /\ Cardinality(SpansOf(views[v]) \cap ToSet(sel)) \in Int
          /\ Cardinality(SpansOf(views[v]))
                - Cardinality(SpansOf(views[v]) \cap ToSet(sel)) \in Int
      BY <3>1
    <3> QED BY <3>2 DEF ViewCoverage
  <2>2. [v \in 1..Views |-> ViewCoverage(v, sel)]
          \in Seq([collected : Int, union : Int, omitted : Int])
    <3>1. Views \in Nat
      BY UnionAssumption
    <3> HIDE DEF ViewCoverage
    <3> QED BY <2>1, <3>1
  <2> DEFINE counts == [v \in 1..Views |-> ViewCoverage(v, sel)]
  <2>3. counts \in Seq([collected : Int, union : Int, omitted : Int])
    BY <2>2
  <2>4. /\ Cardinality(Found) \in Int /\ Len(sel) \in Int
        /\ Cardinality(Found) - Len(sel) \in Int
        /\ (Cardinality(Found) > Len(sel)) \in BOOLEAN
    BY <1>1
  <2>5. coverage' = [coverage EXCEPT
                       !.unique = Cardinality(Found),
                       !.union = Len(sel),
                       !.omitted = Cardinality(Found) - Len(sel),
                       !.truncated = Cardinality(Found) > Len(sel),
                       !.views = counts]
    BY <1>2
  <2> HIDE DEF counts
  <2> QED BY <2>3, <2>4, <2>5 DEF UnionInv, CoverageOK
<1>12. UnionFair'
  <2>1. \A s : Places(s)' = Places(s)
    BY <1>2 DEF Places
  <2>2. Found' = Found
    BY <1>2 DEF Found, SpansOf
  <2>3. ASSUME NEW s \in Found \ ToSet(sel), NEW h \in ToSet(hits'), NEW p \in Places(s)
        PROVE  \E q \in Places(h.span) : q[1] <= p[1]
    <3>1. h.span \in ToSet(sel)
      BY <1>6 DEF ToSet
    <3>2. ComesFirst(FirstPlace(h.span), FirstPlace(s))
      BY <1>1, <2>3, <3>1
    <3>3. h.span \in Found /\ s \in Found
      BY <1>1, <2>3, <3>1
    <3>4. Places(h.span) # {} /\ Places(s) # {}
      BY <1>3, <3>3, PlaceFacts
    <3>5. FirstPlace(h.span) \in Places(h.span) /\ FirstPlace(s) \in Places(s)
          /\ (FirstPlace(s) = p \/ ComesFirst(FirstPlace(s), p))
      BY <1>3, <2>3, <3>4, FirstPlaceFacts
    <3>6. FirstPlace(h.span) \in Nat \X Nat /\ FirstPlace(s) \in Nat \X Nat /\ p \in Nat \X Nat
      BY <1>3, <2>3, <3>5, PlaceFacts
    <3>7. FirstPlace(h.span)[1] <= p[1]
      BY <3>2, <3>5, <3>6 DEF ComesFirst
    <3> QED BY <3>5, <3>7
  <2> QED BY <1>9, <2>1, <2>2, <2>3 DEF UnionFair
<1>13. OmissionsAreCap'
  <2>1. /\ coverage'.unique = Cardinality(Found) /\ coverage'.union = Len(sel)
        /\ coverage'.omitted = Cardinality(Found) - Len(sel)
        /\ coverage'.truncated <=> Cardinality(Found) > Len(sel)
        /\ coverage'.views = [v \in 1..Views |-> ViewCoverage(v, sel)]
    BY <1>2 DEF UnionInv, CoverageOK
  <2>2. /\ coverage'.union = Len(hits')
        /\ coverage'.omitted > 0 => coverage'.truncated /\ Len(hits') = MaxCandidates
        /\ coverage'.unique = coverage'.union + coverage'.omitted
    <3>1. Len(sel) < Cardinality(Found) => Len(sel) = MaxCandidates
      BY <1>1
    <3>2. Cardinality(Found) - Len(sel) > 0 => Cardinality(Found) > Len(sel)
      BY <1>1
    <3>3. Cardinality(Found) = Len(sel) + (Cardinality(Found) - Len(sel))
      BY <1>1
    <3>4. Cardinality(Found) > Len(sel) => Len(sel) < Cardinality(Found)
      BY <1>1
    <3> QED BY <1>6, <2>1, <3>1, <3>2, <3>3, <3>4
  <2>3. ASSUME NEW v \in 1..Views
        PROVE  /\ coverage'.views[v].omitted > 0 => coverage'.truncated
               /\ coverage'.views[v].union + coverage'.views[v].omitted
                     <= coverage'.views[v].collected
               /\ coverage'.views[v].omitted = Cardinality(SpansOf(views[v]) \ ToSet(sel))
    <3>1. coverage'.views[v] = ViewCoverage(v, sel)
      BY <2>1, <2>3
    <3>2. /\ coverage'.views[v].collected = Len(views[v])
          /\ coverage'.views[v].union = Cardinality(SpansOf(views[v]) \cap ToSet(sel))
          /\ coverage'.views[v].omitted = Cardinality(SpansOf(views[v]))
                - Cardinality(SpansOf(views[v]) \cap ToSet(sel))
      BY <3>1 DEF ViewCoverage
    <3>3. ~coverage'.truncated => SpansOf(views[v]) \ ToSet(sel) = {}
      <4>1. ~coverage'.truncated => Len(sel) = Cardinality(Found)
        BY <1>1, <2>1
      <4>2. SpansOf(views[v]) \in SUBSET Found
        BY <1>10
      <4> QED BY <1>1, <4>1, <4>2
    <3>4. ~coverage'.truncated => Cardinality(SpansOf(views[v]) \ ToSet(sel)) = 0
      BY <3>3, FS_EmptySet
    <3> QED BY <1>10, <3>2, <3>4
  <2>4. \A v \in 1..Views :
          LET c == coverage'.views[v] IN
          /\ c.omitted > 0 => coverage'.truncated
          /\ c.union + c.omitted <= c.collected
          /\ c.omitted = Cardinality(SpansOf(views'[v]) \ SpansOf(hits'))
    BY <1>2, <1>9, <2>3
  <2> QED BY <2>2, <2>4 DEF OmissionsAreCap
<1>14. HostOK' /\ DraftOK' /\ FinalOK'
  BY <1>2, <1>12, <1>13 DEF UnionInv, HostOK, DraftOK, FinalOK, UnionSound, Unassessed
<1> QED BY <1>3, <1>7, <1>8, <1>11, <1>14 DEF UnionInv

\* What the steps after the union do not touch.
LEMMA Frame ==
    ASSUME UnionInv, UNCHANGED <<views, policy>>
    PROVE  /\ InputOK' /\ (\A s : Anchored(s)' = Anchored(s))
           /\ (coverage' = coverage => CoverageOK')
           /\ (hits' = hits => HitsOK')
           /\ (judged' = judged => JudgedOK')
<1>1. InputOK'
  BY DEF UnionInv, InputOK
<1>2. \A s : Anchored(s)' = Anchored(s)
  BY DEF Anchored
<1>3. coverage' = coverage => CoverageOK'
  BY DEF UnionInv, CoverageOK
<1>4. hits' = hits => HitsOK'
  BY <1>2 DEF UnionInv, HitsOK, NoRepeat
<1>5. judged' = judged => JudgedOK'
  BY <1>2 DEF UnionInv, JudgedOK
<1> QED BY <1>1, <1>2, <1>3, <1>4, <1>5

\* The candidates wait for a judgment.
LEMMA AskStep ==
    ASSUME UnionInv, Ask PROVE UnionInv'
<1>1. /\ InputOK' /\ CoverageOK' /\ HitsOK' /\ JudgedOK'
  BY Frame DEF Ask
<1>2. HostOK'
  BY DEF Ask, Assess, UnionInv, HostOK
<1>3. DraftOK' /\ FinalOK'
  BY DEF Ask, Assess, DraftOK, FinalOK
<1> QED BY <1>1, <1>2, <1>3 DEF UnionInv

\* The judgment leaves spans and anchors alone.
LEMMA ReplyStep ==
    ASSUME UnionInv, Reply PROVE UnionInv'
<1>1. PICK score \in [DOMAIN hits -> Scores],
           role \in [DOMAIN hits -> IF policy = "roles" THEN Roles ELSE {0}] :
        hits' = [i \in DOMAIN hits |->
                   [hits[i] EXCEPT !.score = score[i], !.role = role[i]]]
  BY DEF Reply
<1>2. hits \in Seq(Hit) /\ DOMAIN hits = 1..Len(hits) /\ Len(hits) \in Nat
  BY DEF UnionInv, HitsOK
<1>3. ASSUME NEW i \in DOMAIN hits
      PROVE  /\ hits'[i] \in Hit
             /\ hits'[i].span = hits[i].span /\ hits'[i].anchor = hits[i].anchor
  <2>1. hits[i] \in Hit
    BY <1>2
  <2>2. score[i] \in Nat /\ role[i] \in Nat
    <3>1. score[i] \in Scores
      OBVIOUS
    <3>2. role[i] \in (IF policy = "roles" THEN Roles ELSE {0})
      OBVIOUS
    <3>3. role[i] \in Roles \/ role[i] = 0
      BY <3>2
    <3>4. \A x : (x \in Scores => x \in Nat) /\ (x \in Roles => x \in Nat)
      BY UnionAssumption, BatchAssumption
    <3> QED BY <3>1, <3>3, <3>4
  <2>3. hits'[i] = [hits[i] EXCEPT !.score = score[i], !.role = role[i]]
    BY <1>1
  <2> QED BY <2>1, <2>2, <2>3 DEF Hit
<1>4. DOMAIN hits' = DOMAIN hits
  BY <1>1
<1>5. hits' \in [1..Len(hits) -> Hit]
  BY <1>1, <1>2, <1>3
<1>6. hits' \in Seq(Hit) /\ Len(hits') = Len(hits)
  BY <1>2, <1>5
<1>7. InputOK' /\ \A s : Anchored(s)' = Anchored(s)
  BY Frame DEF Reply
<1>8. HitsOK'
  <2>1. NoRepeat(hits')
    BY <1>3, <1>4 DEF UnionInv, HitsOK, NoRepeat
  <2>2. \A i \in DOMAIN hits' : hits'[i].anchor = Anchored(hits'[i].span)
    BY <1>3, <1>4 DEF UnionInv, HitsOK, ToSet
  <2>3. \A h \in ToSet(hits') : h.anchor = Anchored(h.span)
    BY <2>2 DEF ToSet
  <2> QED BY <1>6, <1>7, <2>1, <2>3 DEF HitsOK
<1>9. SpansOf(hits') = SpansOf(hits)
  BY <1>3, <1>4 DEF SpansOf
<1>10. judged' = ToSet(hits')
  BY DEF Reply
<1>11. JudgedOK'
  <2>1. ToSet(hits') \in SUBSET Hit /\ OneEach(ToSet(hits'))
    BY <1>8, SpansCount DEF HitsOK
  <2> QED BY <1>8, <1>10, <2>1 DEF JudgedOK, HitsOK
<1>12. coverage' = [coverage EXCEPT !.reranked = Len(hits)]
  BY DEF Reply
<1>13. CoverageOK' /\ coverage'.reranked = Len(hits')
  <2>1. coverage' = [coverage EXCEPT !.reranked = Len(hits)] /\ Len(hits) \in Int
    BY <1>2, <1>12
  <2> QED BY <1>6, <2>1 DEF UnionInv, CoverageOK
<1>14. HostOK'
  BY DEF Reply, Assess, UnionInv, HostOK
<1>15. DraftOK' /\ FinalOK'
  <2>1. pc = "asked" /\ pc' = "replied" /\ policy' = policy
    BY DEF Reply
  <2>2. policy = "roles" => \A s \in Spans : found'[s] # "none" <=> found[s] # "none"
    BY DEF Reply, Assess
  <2> QED BY <1>9, <1>10, <1>13, <2>1, <2>2 DEF UnionInv, DraftOK, FinalOK
<1> QED BY <1>7, <1>8, <1>11, <1>13, <1>14, <1>15 DEF UnionInv

\* Stricter than Beats.
LEMMA RanksBeat ==
    ASSUME NEW g \in Hit, NEW h \in Hit
    PROVE  (Ranks(g, h) => Beats(g, h)) /\ Beats(h, h)
<1>1. /\ g.anchor \in BOOLEAN /\ g.score \in Nat /\ g.role \in Nat /\ g.span \in Nat
      /\ h.anchor \in BOOLEAN /\ h.score \in Nat /\ h.role \in Nat /\ h.span \in Nat
  BY UnionAssumption DEF Hit
<1> QED BY <1>1 DEF Ranks, Beats

\* The spans of two counted sets, one within the other.
LEMMA CountRest ==
    ASSUME NEW s \in Seq(Hit), NEW t \in Seq(Hit), NoRepeat(s), NoRepeat(t),
           SpansOf(t) \subseteq SpansOf(s)
    PROVE  Cardinality(SpansOf(s) \ SpansOf(t)) = Len(s) - Len(t)
<1>1. /\ IsFiniteSet(SpansOf(s)) /\ Cardinality(SpansOf(s)) = Len(s)
      /\ Cardinality(SpansOf(t)) = Len(t)
  BY SpansCount
<1>2. SpansOf(s) \cap SpansOf(t) = SpansOf(t)
  OBVIOUS
<1>3. Cardinality(SpansOf(s) \ SpansOf(t)) =
        Cardinality(SpansOf(s)) - Cardinality(SpansOf(s) \cap SpansOf(t))
  BY <1>1, FS_Difference
<1> QED BY <1>1, <1>2, <1>3

\* The order of the eligible candidates, and the reason why the others have no
\* place among them.
LEMMA OrderStep ==
    ASSUME UnionInv, Order PROVE UnionInv'
<1> DEFINE E == {h \in ToSet(hits) : Eligible(h)}
           ordered == Sorted(E, Ranks)
           above == SpansOf(Take(ordered, Limit))
<1>1. hits \in Seq(Hit) /\ NoRepeat(hits) /\ Len(hits) \in Nat
  BY DEF UnionInv, HitsOK
<1>2. /\ SpansOf(hits) \in SUBSET Spans /\ Cardinality(SpansOf(hits)) = Len(hits)
      /\ ToSet(hits) \in SUBSET Hit /\ IsFiniteSet(ToSet(hits)) /\ OneEach(ToSet(hits))
      /\ SpansOf(hits) = {h.span : h \in ToSet(hits)}
  BY <1>1, SpansCount
<1>3. judged = ToSet(hits) /\ coverage.reranked = Len(hits)
  BY DEF UnionInv, DraftOK, Order
<1>4. E \in SUBSET Hit /\ E \subseteq ToSet(hits) /\ OneEach(E)
  BY <1>2 DEF OneEach
<1>5. IsFiniteSet(E)
  BY <1>2, FS_Subset
<1>6. /\ ordered \in SetToSeqs(E)
      /\ \A i, j \in DOMAIN ordered : i < j => Ranks(ordered[i], ordered[j])
  BY <1>4, <1>5, RankedFacts
<1>7. /\ hits' = ordered
      /\ policy = "roles" =>
           found' = [s \in Spans |->
                       IF found[s] = "none" THEN "none"
                       ELSE IF s \notin SpansOf(ordered) THEN "excluded_relevance_floor"
                       ELSE IF s \in above THEN "awaiting_delivery"
                       ELSE "eligible_below_result_limit"]
      /\ policy # "roles" => found' = found
      /\ kept' = found'
      /\ coverage' = [coverage EXCEPT
                        !.filtered = Len(hits) - Len(ordered),
                        !.retained = Cardinality({h \in judged :
                                         h.anchor /\ h.score < MinScore})]
      /\ pc = "replied" /\ pc' = "ordered"
      /\ UNCHANGED <<views, policy, issued, judged, lost>>
  BY DEF Order, Assess
<1> HIDE DEF ordered, E
<1>8. /\ ordered \in Seq(E) /\ DOMAIN ordered = 1..Len(ordered) /\ Len(ordered) \in Nat
      /\ \A i, j \in DOMAIN ordered : ordered[i] = ordered[j] => i = j
      /\ ToSet(ordered) = E
  <2>1. Len(ordered) = Cardinality(E) /\ Cardinality(E) \in Nat
    BY <1>5, <1>6, SeqsOnto
  <2> QED BY <1>5, <1>6, <2>1, SeqsOnto
<1>9. \A i \in DOMAIN ordered : ordered[i] \in E
  BY <1>8
<1>10. ordered \in Seq(Hit)
  BY <1>4, <1>8
<1>11. NoRepeat(ordered)
  BY <1>4, <1>8, <1>9 DEF NoRepeat, OneEach
<1>12. SpansOf(ordered) = {h.span : h \in E}
  BY <1>8, <1>10, <1>11, SpansCount
<1>13. SpansOf(ordered) \subseteq SpansOf(hits)
  BY <1>2, <1>4, <1>12
<1>14. InputOK' /\ (\A s : Anchored(s)' = Anchored(s)) /\ JudgedOK'
  BY <1>7, Frame
<1>15. HitsOK'
  <2>1. \A h \in ToSet(ordered) : h.anchor = Anchored(h.span)
    BY <1>4, <1>8 DEF UnionInv, HitsOK
  <2> QED BY <1>7, <1>10, <1>11, <1>14, <2>1 DEF HitsOK
<1>16. /\ CoverageOK'
       /\ coverage'.filtered = Len(hits) - Len(ordered)
       /\ coverage'.reranked = Len(hits)
  <2> DEFINE r == Cardinality({h \in judged : h.anchor /\ h.score < MinScore})
             n == Len(hits) - Len(ordered)
  <2>1. r \in Int
    <3>1. IsFiniteSet({h \in judged : h.anchor /\ h.score < MinScore})
      BY <1>2, <1>3, FS_Subset
    <3> QED BY <3>1, FS_CardinalityType
  <2>2. n \in Int
    BY <1>1, <1>8
  <2>3. coverage' = [coverage EXCEPT !.filtered = n, !.retained = r]
    BY <1>7
  <2> HIDE DEF n, r
  <2>4. CoverageOK' /\ coverage'.filtered = n /\ coverage'.reranked = coverage.reranked
    BY <2>1, <2>2, <2>3 DEF UnionInv, CoverageOK
  <2> QED BY <1>3, <2>4 DEF n
<1>17. HostOK' /\ DraftOK'
  BY <1>7 DEF UnionInv, HostOK, DraftOK
<1>18. ASSUME policy = "roles" \* what each candidate is told
       PROVE  /\ \A s \in Spans : found'[s] # "none" <=> s \in SpansOf(hits)
              /\ \A s \in Spans : found'[s] = "excluded_relevance_floor" <=>
                    s \in SpansOf(hits) \ SpansOf(ordered)
              /\ \A s \in above : s \in SpansOf(hits) => found'[s] = "awaiting_delivery"
              /\ \A s \in SpansOf(ordered) \ above :
                    s \in SpansOf(hits) => found'[s] = "eligible_below_result_limit"
  <2>1. \A s \in Spans : found[s] # "none" <=> s \in SpansOf(hits)
    BY <1>7, <1>18 DEF UnionInv, DraftOK
  <2>2. above \subseteq SpansOf(ordered)
    <3>1. Limit \in Nat
      BY BatchAssumption
    <3>2. \A i \in DOMAIN Take(ordered, Limit) :
             i \in DOMAIN ordered /\ Take(ordered, Limit)[i] = ordered[i]
      BY <1>10, <3>1, TakeFacts
    <3> QED BY <3>2 DEF SpansOf
  <2> QED BY <1>2, <1>7, <1>18, <2>1, <2>2
<1>19. ASSUME policy = "roles", NEW h \in judged PROVE Explained(h, found[h.span])'
  <2>1. h \in ToSet(hits) /\ h.span \in SpansOf(hits) /\ h.span \in Spans /\ h \in Hit
    BY <1>2, <1>3
  <2>2. CASE h.span \notin SpansOf(ordered)
    <3>1. ~Eligible(h)
      BY <1>12, <2>1, <2>2 DEF E
    <3>2. found'[h.span] = "excluded_relevance_floor"
      BY <1>18, <1>19, <2>1, <2>2
    <3> QED BY <1>7, <2>2, <3>1, <3>2 DEF Explained
  <2>3. CASE h.span \in SpansOf(ordered) /\ h.span \in above
    <3>1. found'[h.span] = "awaiting_delivery"
      BY <1>18, <1>19, <2>1, <2>3
    <3> QED BY <1>7, <2>3, <3>1 DEF Explained
  <2>4. CASE h.span \in SpansOf(ordered) /\ h.span \notin above
    <3> DEFINE Q == {g \in judged : Eligible(g) /\ Beats(g, h)}
    <3>1. PICK i \in DOMAIN ordered : ordered[i] = h
      <4>1. PICK i \in DOMAIN ordered : ordered[i].span = h.span
        BY <2>4 DEF SpansOf
      <4>2. ordered[i] \in ToSet(hits)
        BY <1>4, <1>9
      <4> QED BY <1>2, <2>1, <4>1, <4>2 DEF OneEach
    <3>2. ~(i <= Limit) /\ i \in Nat
      <4>1. Limit \in Nat
        BY BatchAssumption
      <4>2. i <= Limit => i \in DOMAIN Take(ordered, Limit)
                          /\ Take(ordered, Limit)[i] = ordered[i]
        BY <1>10, <4>1, TakeFacts
      <4> QED BY <1>8, <2>4, <3>1, <4>2 DEF SpansOf
    <3>3. \A k \in 1..i : /\ k \in DOMAIN ordered /\ ordered[k] \in Q
                          /\ ordered[k] \in Hit
      <4> SUFFICES ASSUME NEW k \in 1..i
                   PROVE  k \in DOMAIN ordered /\ ordered[k] \in Q /\ ordered[k] \in Hit
        OBVIOUS
      <4>1. k \in DOMAIN ordered
        BY <1>8, <3>1
      <4>2. ordered[k] \in E /\ ordered[k] \in Hit
        BY <1>4, <1>9, <4>1
      <4>3. Beats(ordered[k], h)
        <5>1. k < i \/ k = i
          BY <3>2
        <5>2. k < i => Ranks(ordered[k], h)
          BY <1>6, <3>1, <4>1
        <5> QED BY <2>1, <3>1, <4>2, <5>1, <5>2, RanksBeat
      <4> QED BY <1>3, <4>1, <4>2, <4>3 DEF E
    <3>4. IsFiniteSet(Q) /\ Cardinality(Q) \in Nat
      BY <1>2, <1>3, FS_Subset, FS_CardinalityType
    <3> DEFINE f == [k \in 1..i |-> ordered[k]]
    <3> HIDE DEF Q
    <3>5. f \in Injection(1..i, Q)
      BY <1>8, <3>3 DEF Injection, IsInjective
    <3>6. Cardinality(1..i) = i
      BY <3>2, FS_Interval
    <3> HIDE DEF f
    <3>7. Cardinality(Q) > Limit
      <4>1. Cardinality(1..i) <= Cardinality(Q)
        BY <3>4, <3>5, FS_Injection
      <4> QED BY <3>2, <3>4, <3>6, <4>1, BatchAssumption
    <3>8. found'[h.span] = "eligible_below_result_limit"
      BY <1>18, <1>19, <2>1, <2>4
    <3> QED BY <1>7, <2>4, <3>7, <3>8 DEF Explained, Q
  <2> QED BY <2>2, <2>3, <2>4
<1>20. \A i, j \in DOMAIN ordered : i < j => Beats(ordered[i], ordered[j])
  BY <1>4, <1>6, <1>9, RanksBeat
<1>21. ASSUME policy = "roles"
       PROVE  /\ \A s \in Spans : found'[s] # "none" <=> \E h \in judged : h.span = s
              /\ coverage'.reranked = Cardinality({s \in Spans : found'[s] # "none"})
              /\ coverage'.filtered =
                   Cardinality({s \in Spans : found'[s] = "excluded_relevance_floor"})
  <2>1. {s \in Spans : found'[s] # "none"} = SpansOf(hits)
    BY <1>2, <1>18, <1>21
  <2>2. {s \in Spans : found'[s] = "excluded_relevance_floor"} = SpansOf(hits) \ SpansOf(ordered)
    BY <1>2, <1>18, <1>21
  <2>3. Cardinality(SpansOf(hits) \ SpansOf(ordered)) = Len(hits) - Len(ordered)
    BY <1>1, <1>10, <1>11, <1>13, CountRest
  <2>4. \A s \in Spans : found'[s] # "none" <=> \E h \in judged : h.span = s
    BY <1>2, <1>3, <1>18, <1>21
  <2> QED BY <1>2, <1>16, <2>1, <2>2, <2>3, <2>4
<1>22. FinalOK'
  <2>1. ToSet(hits') \subseteq {h \in judged' : Eligible(h)}
    BY <1>3, <1>4, <1>7, <1>8 DEF E
  <2>2. \A h \in judged' : policy' = "roles" => Explained(h, found[h.span])'
    BY <1>7, <1>19
  <2>3. pc' = "ordered" /\ hits' = ordered /\ judged' = judged /\ policy' = policy
    BY <1>7
  <2> QED BY <1>20, <1>21, <2>1, <2>2, <2>3 DEF FinalOK
<1> QED BY <1>14, <1>15, <1>16, <1>17, <1>22 DEF UnionInv

\* A part of the hits in their order keeps what holds of all of them.
LEMMA PartFacts ==
    ASSUME NEW s \in Seq(Hit), NoRepeat(s), NEW t \in Seq(Hit), NEW f,
           \A i \in DOMAIN t : f[i] \in DOMAIN s /\ t[i] = s[f[i]],
           \A i, j \in DOMAIN t : i < j => f[i] < f[j]
    PROVE  /\ NoRepeat(t) /\ ToSet(t) \subseteq ToSet(s)
           /\ (\A i, j \in DOMAIN s : i < j => Beats(s[i], s[j])) =>
                \A i, j \in DOMAIN t : i < j => Beats(t[i], t[j])
<1>1. DOMAIN t = 1..Len(t) /\ DOMAIN s = 1..Len(s)
  OBVIOUS
<1>2. NoRepeat(t)
  <2> SUFFICES ASSUME NEW i \in DOMAIN t, NEW j \in DOMAIN t, t[i].span = t[j].span
               PROVE  i = j
    BY DEF NoRepeat
  <2>1. f[i] = f[j] /\ f[i] \in Nat
    BY <1>1 DEF NoRepeat
  <2>2. i < j \/ j < i \/ i = j
    BY <1>1
  <2> QED BY <2>1, <2>2
<1>3. ToSet(t) \subseteq ToSet(s)
  BY DEF ToSet
<1> QED BY <1>2, <1>3

\* The limit comes first, then the sources that are gone.
LEMMA RecheckStep ==
    ASSUME UnionInv, Recheck PROVE UnionInv'
<1> DEFINE first == Take(hits, Limit)
<1>1. PICK dropped \in SUBSET {SourceOf[s] : s \in SpansOf(first)} :
        lost' = dropped /\ hits' = FreshHits(dropped)
  BY DEF Recheck
<1> DEFINE places == {i \in DOMAIN first : SourceOf[first[i].span] \notin dropped}
<1>2. hits \in Seq(Hit) /\ NoRepeat(hits) /\ Len(hits) \in Nat /\ Limit \in Nat
  BY BatchAssumption DEF UnionInv, HitsOK
<1>3. /\ first \in Seq(Hit) /\ Len(first) <= Limit
      /\ DOMAIN first = 1..Len(first)
      /\ \A i \in DOMAIN first : i \in DOMAIN hits /\ first[i] = hits[i]
  BY <1>2, TakeFacts
<1>4. hits' = Keeping(first, places)
  BY <1>1 DEF FreshHits
<1> HIDE DEF first
<1>5. /\ hits' \in Seq(Hit) /\ Len(hits') <= Len(first)
      /\ \E f \in SetToSeqs(places) :
           /\ DOMAIN f = DOMAIN hits'
           /\ \A i, j \in DOMAIN f : i < j => f[i] < f[j]
           /\ \A i \in DOMAIN f : hits'[i] = first[f[i]]
  <2>1. places \in SUBSET DOMAIN first
    OBVIOUS
  <2> HIDE DEF places
  <2> QED BY <1>3, <1>4, <2>1, KeepingFacts
<1>6. PICK f \in SetToSeqs(places) :
        /\ DOMAIN f = DOMAIN hits'
        /\ \A i, j \in DOMAIN f : i < j => f[i] < f[j]
        /\ \A i \in DOMAIN f : hits'[i] = first[f[i]]
  BY <1>5
<1>7. IsFiniteSet(places)
  <2>1. \A n \in Nat : IsFiniteSet(1..n)
    BY FS_Interval
  <2>2. IsFiniteSet(1..Len(first))
    BY <1>3, <2>1
  <2> QED BY <1>3, <2>2, FS_Subset
<1>8. /\ \A i \in DOMAIN f : f[i] \in places
      /\ \A x \in places : \E i \in DOMAIN f : f[i] = x
  <2> HIDE DEF places
  <2>1. f \in Seq(places)
    BY <1>6, <1>7, SeqsOnto
  <2> QED BY <1>6, <1>7, <2>1, SeqsOnto
<1>9. \A i \in DOMAIN hits' : /\ f[i] \in DOMAIN hits /\ hits'[i] = hits[f[i]]
                              /\ SourceOf[hits'[i].span] \notin dropped
  BY <1>3, <1>6, <1>8
<1>10. /\ NoRepeat(hits') /\ ToSet(hits') \subseteq ToSet(hits)
       /\ (\A i, j \in DOMAIN hits : i < j => Beats(hits[i], hits[j])) =>
            \A i, j \in DOMAIN hits' : i < j => Beats(hits'[i], hits'[j])
  BY <1>2, <1>5, <1>6, <1>9, PartFacts
<1>11. \A s : s \in SpansOf(hits') <=> s \in SpansOf(first) /\ SourceOf[s] \notin dropped
  <2>1. \A s \in SpansOf(hits') : s \in SpansOf(first) /\ SourceOf[s] \notin dropped
    BY <1>6, <1>8 DEF SpansOf
  <2>2. ASSUME NEW s \in SpansOf(first), SourceOf[s] \notin dropped
        PROVE  s \in SpansOf(hits')
    <3>1. PICK k \in DOMAIN first : first[k].span = s
      BY DEF SpansOf
    <3>2. k \in places
      BY <2>2, <3>1
    <3>3. PICK i \in DOMAIN f : f[i] = k
      BY <1>8, <3>2
    <3> QED BY <1>6, <3>1, <3>3 DEF SpansOf
  <2> QED BY <2>1, <2>2
<1>12. SpansOf(first) \subseteq SpansOf(hits)
  BY <1>3 DEF SpansOf
<1>13. /\ pc = "ordered" /\ pc' = "checked"
       /\ policy = "roles" =>
            found' = [s \in Spans |->
                        IF found[s] = "awaiting_delivery" /\ s \notin SpansOf(hits')
                        THEN "stale_before_delivery" ELSE found[s]]
       /\ policy # "roles" => found' = found
       /\ kept' = found'
       /\ coverage' = [coverage EXCEPT !.truncated = @ \/ Len(hits) > Limit]
       /\ UNCHANGED <<views, policy, issued, judged>>
  BY DEF Recheck, Assess
<1>14. InputOK' /\ (\A s : Anchored(s)' = Anchored(s)) /\ JudgedOK'
  BY <1>13, Frame
<1>15. CoverageOK' /\ coverage'.reranked = coverage.reranked
       /\ coverage'.filtered = coverage.filtered
  <2>1. (coverage.truncated \/ Len(hits) > Limit) \in BOOLEAN
    OBVIOUS
  <2> QED BY <1>13, <2>1 DEF UnionInv, CoverageOK
<1>16. HitsOK'
  <2>1. \A h \in ToSet(hits') : h.anchor = Anchored(h.span)
    BY <1>10 DEF UnionInv, HitsOK
  <2> QED BY <1>5, <1>10, <1>14, <2>1 DEF HitsOK
<1>17. HostOK' /\ DraftOK'
  BY <1>13 DEF UnionInv, HostOK, DraftOK
<1>18. FinalOK
  BY DEF UnionInv
<1>19. ASSUME policy = "roles", NEW h \in judged PROVE Explained(h, found[h.span])'
  <2>1. Explained(h, found[h.span])
    BY <1>13, <1>18, <1>19 DEF FinalOK
  <2>2. h.span \in Spans
    BY DEF UnionInv, JudgedOK, Hit
  <2>3. found'[h.span] = IF found[h.span] = "awaiting_delivery" /\ h.span \notin SpansOf(hits')
                         THEN "stale_before_delivery" ELSE found[h.span]
    BY <1>13, <1>19, <2>2
  <2>4. CASE found[h.span] = "awaiting_delivery"
    <3>1. h.span \in SpansOf(first)
      BY <1>13, <2>1, <2>4 DEF Explained, first
    <3>2. h.span \notin SpansOf(hits') => SourceOf[h.span] \in dropped
      BY <1>11, <3>1
    <3> QED BY <1>1, <1>13, <2>3, <2>4, <3>2 DEF Explained
  <2>5. CASE found[h.span] # "awaiting_delivery"
    <3>1. h.span \notin SpansOf(hits')
      BY <1>11, <1>12, <1>13, <2>1, <2>5 DEF Explained, first
    <3> QED BY <1>13, <2>1, <2>3, <2>5, <3>1 DEF Explained
  <2> QED BY <2>4, <2>5
<1>20. ASSUME policy = "roles"
       PROVE  /\ \A s \in Spans : found'[s] # "none" <=> found[s] # "none"
              /\ \A s \in Spans : found'[s] = "excluded_relevance_floor" <=>
                                  found[s] = "excluded_relevance_floor"
  BY <1>13, <1>20
<1>21. FinalOK'
  <2>1. policy = "roles" =>
          /\ {s \in Spans : found'[s] # "none"} = {s \in Spans : found[s] # "none"}
          /\ {s \in Spans : found'[s] = "excluded_relevance_floor"} =
               {s \in Spans : found[s] = "excluded_relevance_floor"}
    BY <1>20
  <2>2. ToSet(hits') \subseteq {h \in judged' : Eligible(h)}
    BY <1>10, <1>13, <1>18 DEF FinalOK
  <2>3. \A i, j \in DOMAIN hits' : i < j => Beats(hits'[i], hits'[j])
    BY <1>10, <1>13, <1>18 DEF FinalOK
  <2>4. Len(hits') <= Limit
    BY <1>2, <1>3, <1>5
  <2>5. \A h \in ToSet(hits') : SourceOf[h.span] \notin lost'
    BY <1>1, <1>9 DEF ToSet
  <2>6. policy' = "roles" => \A h \in judged' : Explained(h, found[h.span])'
    BY <1>13, <1>19
  <2>7. policy' = "roles" =>
          /\ \A s \in Spans : found'[s] # "none" <=> \E h \in judged' : h.span = s
          /\ coverage'.reranked = Cardinality({s \in Spans : found'[s] # "none"})
          /\ coverage'.filtered =
               Cardinality({s \in Spans : found'[s] = "excluded_relevance_floor"})
    BY <1>13, <1>15, <1>18, <1>20, <2>1 DEF FinalOK
  <2> QED BY <2>2, <2>3, <2>4, <2>5, <2>6, <2>7 DEF FinalOK
<1> QED BY <1>14, <1>15, <1>16, <1>17, <1>21 DEF UnionInv

\* Trailing hits go, and those that stay beat them.
LEMMA PackStep ==
    ASSUME UnionInv, Pack PROVE UnionInv'
<1>1. PICK n \in 0..Len(hits) : (n = 0 => hits = <<>>) /\ hits' = Take(hits, n)
  BY DEF Pack
<1>2. /\ hits \in Seq(Hit) /\ NoRepeat(hits) /\ Len(hits) \in Nat /\ n \in Nat
      /\ n <= Len(hits) /\ DOMAIN hits = 1..Len(hits)
  BY DEF UnionInv, HitsOK
<1>3. /\ hits' \in Seq(Hit) /\ Len(hits') <= Len(hits) /\ DOMAIN hits' = 1..Len(hits')
      /\ \A i \in DOMAIN hits : i \in DOMAIN hits' <=> i <= n
      /\ \A i \in DOMAIN hits' : i \in DOMAIN hits /\ hits'[i] = hits[i]
  BY <1>1, <1>2, TakeFacts
<1>4. /\ NoRepeat(hits') /\ ToSet(hits') \subseteq ToSet(hits)
      /\ (\A i, j \in DOMAIN hits : i < j => Beats(hits[i], hits[j])) =>
           \A i, j \in DOMAIN hits' : i < j => Beats(hits'[i], hits'[j])
  <2> DEFINE f == [i \in DOMAIN hits' |-> i]
  <2>1. \A i \in DOMAIN hits' : f[i] \in DOMAIN hits /\ hits'[i] = hits[f[i]]
    BY <1>3
  <2>2. \A i, j \in DOMAIN hits' : i < j => f[i] < f[j]
    OBVIOUS
  <2> HIDE DEF f
  <2> QED BY <1>2, <1>3, <2>1, <2>2, PartFacts
<1>5. /\ pc = "checked" /\ pc' = "packed"
      /\ policy = "roles" =>
           found' = [s \in Spans |->
                       IF found[s] # "awaiting_delivery" THEN found[s]
                       ELSE IF s \in SpansOf(hits') THEN "delivered"
                       ELSE "selected_removed_by_envelope"]
      /\ policy # "roles" => found' = found
      /\ UNCHANGED <<views, policy, coverage, kept, issued, judged, lost>>
  BY DEF Pack, Assess
<1>6. /\ InputOK' /\ (\A s : Anchored(s)' = Anchored(s)) /\ JudgedOK' /\ CoverageOK'
  BY <1>5, Frame
<1>7. HitsOK'
  <2>1. \A h \in ToSet(hits') : h.anchor = Anchored(h.span)
    BY <1>4 DEF UnionInv, HitsOK
  <2> QED BY <1>3, <1>4, <1>6, <2>1 DEF HitsOK
<1>8. HostOK' /\ DraftOK'
  BY <1>5 DEF UnionInv, HostOK, DraftOK
<1>9. FinalOK
  BY DEF UnionInv
<1>10. SpansOf(hits') \subseteq SpansOf(hits)
  BY <1>3 DEF SpansOf
<1>11. ASSUME policy = "roles", NEW h \in judged PROVE Explained(h, found[h.span])'
  <2>1. Explained(h, found[h.span])
    BY <1>5, <1>9, <1>11 DEF FinalOK
  <2>2. h.span \in Spans
    BY DEF UnionInv, JudgedOK, Hit
  <2>3. found'[h.span] = IF found[h.span] # "awaiting_delivery" THEN found[h.span]
                         ELSE IF h.span \in SpansOf(hits') THEN "delivered"
                         ELSE "selected_removed_by_envelope"
    BY <1>5, <1>11, <2>2
  <2>4. CASE found[h.span] = "awaiting_delivery" /\ h.span \in SpansOf(hits')
    BY <1>5, <2>3, <2>4 DEF Explained
  <2>5. CASE found[h.span] = "awaiting_delivery" /\ h.span \notin SpansOf(hits')
    <3>1. PICK i \in DOMAIN hits : hits[i].span = h.span
      BY <1>5, <2>1, <2>5 DEF Explained, SpansOf
    <3>2. hits[i] = h
      <4>1. hits[i] \in judged
        BY <1>5, <1>9 DEF FinalOK, ToSet
      <4> QED BY <3>1, <4>1 DEF UnionInv, JudgedOK, OneEach
    <3>3. n # 0 /\ 1 \in DOMAIN hits
      BY <1>1, <1>2, <3>1
    <3>4. 1 \in DOMAIN hits' /\ hits' # <<>>
      BY <1>2, <1>3, <3>3
    <3>5. i \notin DOMAIN hits'
      BY <1>3, <2>5, <3>1 DEF SpansOf
    <3>6. ASSUME NEW g \in ToSet(hits') PROVE Beats(g, h)
      <4>1. PICK j \in DOMAIN hits' : hits'[j] = g
        BY DEF ToSet
      <4>2. j \in DOMAIN hits /\ hits[j] = g /\ j < i
        BY <1>2, <1>3, <3>5, <4>1
      <4> QED BY <1>5, <1>9, <3>2, <4>2 DEF FinalOK
    <3> QED BY <1>5, <2>3, <2>5, <3>4, <3>6 DEF Explained
  <2>6. CASE found[h.span] # "awaiting_delivery"
    <3>1. h.span \notin SpansOf(hits')
      BY <1>5, <1>10, <2>1, <2>6 DEF Explained
    <3> QED BY <1>5, <2>1, <2>3, <2>6, <3>1 DEF Explained
  <2> QED BY <2>4, <2>5, <2>6
<1>12. ASSUME policy = "roles"
       PROVE  /\ \A s \in Spans : found'[s] # "none" <=> found[s] # "none"
              /\ \A s \in Spans : found'[s] = "excluded_relevance_floor" <=>
                                  found[s] = "excluded_relevance_floor"
  BY <1>5, <1>12
<1>13. FinalOK'
  <2>1. policy = "roles" =>
          /\ {s \in Spans : found'[s] # "none"} = {s \in Spans : found[s] # "none"}
          /\ {s \in Spans : found'[s] = "excluded_relevance_floor"} =
               {s \in Spans : found[s] = "excluded_relevance_floor"}
    BY <1>12
  <2>2. ToSet(hits') \subseteq {h \in judged' : Eligible(h)}
    BY <1>4, <1>5, <1>9 DEF FinalOK
  <2>3. \A i, j \in DOMAIN hits' : i < j => Beats(hits'[i], hits'[j])
    BY <1>4, <1>5, <1>9 DEF FinalOK
  <2>4. Len(hits') <= Limit
    <3>1. Len(hits) <= Limit
      BY <1>5, <1>9 DEF FinalOK
    <3>2. Len(hits') \in Nat /\ Limit \in Nat
      BY <1>3, BatchAssumption
    <3> QED BY <1>2, <1>3, <3>1, <3>2
  <2>5. \A h \in ToSet(hits') : SourceOf[h.span] \notin lost'
    BY <1>4, <1>5, <1>9 DEF FinalOK
  <2>6. policy' = "roles" => \A h \in judged' : Explained(h, found[h.span])'
    BY <1>5, <1>11
  <2>7. policy' = "roles" =>
          /\ \A s \in Spans : found'[s] # "none" <=> \E h \in judged' : h.span = s
          /\ coverage'.reranked = Cardinality({s \in Spans : found'[s] # "none"})
          /\ coverage'.filtered =
               Cardinality({s \in Spans : found'[s] = "excluded_relevance_floor"})
    BY <1>5, <1>9, <1>12, <2>1 DEF FinalOK
  <2> QED BY <2>2, <2>3, <2>4, <2>5, <2>6, <2>7 DEF FinalOK
<1> QED BY <1>6, <1>7, <1>8, <1>13 DEF UnionInv

\* From the moment of packing on, nothing changes the report.
LEMMA DeliverStep ==
    ASSUME UnionInv, Issue \/ Receipt PROVE UnionInv'
<1>1. /\ pc \in {"packed", "issued"} /\ pc' \in {"issued", "done"}
      /\ UNCHANGED <<views, policy, hits, coverage, found, judged, lost>>
      /\ kept' = found'
      /\ issued' = SpansOf(hits)
  BY DEF Issue, Receipt, UnionInv, HostOK
<1>2. /\ InputOK' /\ HitsOK' /\ JudgedOK' /\ CoverageOK'
  BY <1>1, Frame
<1>3. HostOK' /\ DraftOK'
  BY <1>1 DEF UnionInv, HostOK, DraftOK
<1>4. \A h, d : Explained(h, d) => Explained(h, d)'
  BY <1>1 DEF Explained
<1>5. FinalOK'
  <2>1. policy' = "roles" => \A h \in judged' : Explained(h, found[h.span])'
    BY <1>1, <1>4 DEF UnionInv, FinalOK
  <2> QED BY <1>1, <2>1 DEF UnionInv, FinalOK
<1> QED BY <1>2, <1>3, <1>5 DEF UnionInv

\* What was promised or delivered is marked, and the evidence taken back.
LEMMA FailStep ==
    ASSUME UnionInv, Fail PROVE UnionInv'
<1>1. /\ InputOK' /\ HitsOK' /\ JudgedOK' /\ CoverageOK'
  BY Frame DEF Fail
<1>2. HostOK' /\ DraftOK' /\ FinalOK'
  BY DEF Fail, Marked, UnionInv, HostOK, DraftOK, FinalOK
<1> QED BY <1>1, <1>2 DEF UnionInv

\* Every step, and none.
LEMMA StepInv == UnionInv /\ [Next]_vars => UnionInv'
<1> SUFFICES ASSUME UnionInv, [Next]_vars PROVE UnionInv'
  OBVIOUS
<1>1. CASE Next
  BY <1>1, MergeStep, AskStep, ReplyStep, OrderStep, RecheckStep, PackStep, DeliverStep,
     FailStep DEF Next
<1>2. CASE UNCHANGED vars
  <2>1. /\ InputOK' /\ HitsOK' /\ JudgedOK' /\ CoverageOK'
    BY <1>2, Frame DEF vars
  <2>2. HostOK' /\ DraftOK'
    BY <1>2 DEF vars, UnionInv, HostOK, DraftOK, UnionSound, UnionFair, OmissionsAreCap,
       Found, Places
  <2>3. \A h, d : Explained(h, d) => Explained(h, d)'
    BY <1>2 DEF vars, Explained
  <2>4. FinalOK'
    <3>1. policy' = "roles" /\ FinalOK => \A h \in judged' :
             pc \in {"ordered", "checked", "packed", "issued", "done"} =>
             Explained(h, found[h.span])'
      BY <1>2, <2>3 DEF vars, FinalOK
    <3> QED BY <1>2, <3>1 DEF vars, UnionInv, FinalOK
  <2> QED BY <2>1, <2>2, <2>4 DEF UnionInv
<1> QED BY <1>1, <1>2

\* It always holds.
LEMMA Invariant == Spec => []UnionInv
  BY InitInv, StepInv, PTL DEF Spec
---------------------------------------------------------------------------
(***************************************************************************)
(* The properties.                                                         *)
(***************************************************************************)

\* The cap of merge_candidates is shared fairly between the views, and the omissions
\* that PlannedCoverage counts, in all and for each view, are those of the cap.
THEOREM UnionIsSound == Spec => []UnionSound
<1>1. UnionInv => UnionSound
  BY DEF UnionInv, DraftOK, UnionSound, UnionFair, OmissionsAreCap
<1> QED BY <1>1, Invariant, PTL

\* At the end each disposition is known from Explained, and the order from FinalOK.
LEMMA EndExplained == ASSUME UnionInv PROVE DeliveryExplained
<1>1. pc = "done" => kept = found /\ issued = SpansOf(hits)
  BY DEF UnionInv, HostOK
<1>2. \A s : OriginallyMatched(s) <=> Anchored(s)
  BY DEF OriginallyMatched, Anchored, ToSet
<1>3. \A h \in judged : Eligible(h) <=> OriginallyMatched(h.span) \/ h.score >= MinScore
  BY <1>2 DEF UnionInv, JudgedOK, Eligible
<1>4. \A h \in judged : h.score \in Nat /\ MinScore \in Nat
  BY BatchAssumption DEF UnionInv, JudgedOK, Hit
<1>5. OmissionsExplained
  <2> SUFFICES ASSUME pc = "done", policy = "roles" PROVE OmissionsExplained
    BY DEF OmissionsExplained
  <2>1. FinalOK
    BY DEF UnionInv
  <2>2. ASSUME NEW h \in judged
        PROVE  CASE kept[h.span] = "delivered" -> h.span \in issued
                 [] kept[h.span] = "excluded_relevance_floor" ->
                       ~OriginallyMatched(h.span) /\ h.score < MinScore
                 [] kept[h.span] = "stale_before_delivery" -> SourceOf[h.span] \in lost
                 [] kept[h.span] = "selected_removed_by_envelope" ->
                       /\ issued # {}
                       /\ \A g \in judged : g.span \in issued => Beats(g, h)
                 [] kept[h.span] = "eligible_below_result_limit" ->
                       /\ Cardinality({g \in judged : Eligible(g) /\ Beats(g, h)}) > Limit
                       /\ h.span \notin issued
                 [] OTHER -> FALSE
    <3>1. Explained(h, kept[h.span])
      BY <1>1, <2>1, <2>2 DEF FinalOK
    <3>2. CASE kept[h.span] = "delivered"
      BY <1>1, <3>1, <3>2 DEF Explained
    <3>3. CASE kept[h.span] = "excluded_relevance_floor"
      <4>1. ~Eligible(h)
        BY <3>1, <3>3 DEF Explained
      <4> QED BY <1>3, <1>4, <3>3, <4>1
    <3>4. CASE kept[h.span] = "stale_before_delivery"
      BY <3>1, <3>4 DEF Explained
    <3>5. CASE kept[h.span] = "selected_removed_by_envelope"
      <4>1. hits # <<>> /\ \A g \in ToSet(hits) : Beats(g, h)
        BY <3>1, <3>5 DEF Explained
      <4>2. issued # {}
        <5>1. hits \in Seq(Hit)
          BY DEF UnionInv, HitsOK
        <5>2. 1 \in DOMAIN hits
          BY <4>1, <5>1
        <5> QED BY <1>1, <5>2 DEF SpansOf
      <4>3. ASSUME NEW g \in judged, g.span \in issued PROVE g \in ToSet(hits)
        <5>1. PICK i \in DOMAIN hits : hits[i].span = g.span
          BY <1>1, <4>3 DEF SpansOf
        <5>2. hits[i] \in judged
          BY <2>1 DEF FinalOK, ToSet
        <5>3. hits[i] = g
          BY <5>1, <5>2 DEF UnionInv, JudgedOK, OneEach
        <5> QED BY <5>3 DEF ToSet
      <4> QED BY <3>5, <4>1, <4>2, <4>3
    <3>6. CASE kept[h.span] = "eligible_below_result_limit"
      BY <1>1, <3>1, <3>6 DEF Explained
    <3> QED BY <3>1, <3>2, <3>3, <3>4, <3>5, <3>6 DEF Explained
  <2> QED BY <1>1, <2>1, <2>2 DEF FinalOK, OmissionsExplained
<1>6. DeliveredInOrder
  <2> SUFFICES ASSUME pc = "done" PROVE DeliveredInOrder
    BY DEF DeliveredInOrder
  <2>1. FinalOK
    BY DEF UnionInv
  <2>2. \A h \in ToSet(hits) : h.score >= MinScore \/ OriginallyMatched(h.span)
    BY <1>3, <2>1 DEF FinalOK
  <2> QED BY <1>1, <2>1, <2>2 DEF FinalOK, DeliveredInOrder
<1> QED BY <1>5, <1>6 DEF DeliveryExplained

\* What the reader gets comes in the documented order, and each judged candidate
\* that was not delivered has a disposition that is true of it.
THEOREM Explains == Spec => []DeliveryExplained
  BY EndExplained, Invariant, PTL

\* After success by Explained, after a failure because all is marked.
LEMMA EndAgrees == ASSUME UnionInv PROVE LedgerAgreesWithIssue
<1>1. CASE pc = "failed"
  BY <1>1 DEF UnionInv, HostOK, LedgerAgreesWithIssue
<1>2. CASE pc = "done"
  <2>1. kept = found /\ issued = SpansOf(hits) /\ FinalOK
    BY <1>2 DEF UnionInv, HostOK
  <2>2. ASSUME policy = "roles", NEW s \in Spans
        PROVE  /\ kept[s] = "delivered" <=> s \in SpansOf(hits)
               /\ kept[s] \notin {"judged_awaiting_selection", "awaiting_delivery"}
    <3>1. CASE \E h \in judged : h.span = s
      <4>1. PICK h \in judged : h.span = s
        BY <3>1
      <4>2. Explained(h, kept[s])
        BY <1>2, <2>1, <2>2, <4>1 DEF FinalOK
      <4> QED BY <1>2, <4>1, <4>2 DEF Explained
    <3>2. CASE ~\E h \in judged : h.span = s
      <4>1. kept[s] = "none"
        BY <1>2, <2>1, <2>2, <3>2 DEF FinalOK
      <4>2. s \notin SpansOf(hits)
        BY <1>2, <2>1, <3>2 DEF FinalOK, SpansOf, ToSet
      <4> QED BY <4>1, <4>2
    <3> QED BY <3>1, <3>2
  <2>3. policy # "roles" => found = Unassessed
    BY DEF UnionInv, InputOK, HostOK
  <2>4. SpansOf(hits) \subseteq Spans
    BY SpansCount DEF UnionInv, HitsOK
  <2> QED BY <1>2, <2>1, <2>2, <2>3, <2>4 DEF LedgerAgreesWithIssue, Unassessed
<1> QED BY <1>1, <1>2 DEF LedgerAgreesWithIssue

\* What the ledger's state says of delivery is what the reader may cite, after
\* success and after a failure at any step.
THEOREM LedgerAgrees == Spec => []LedgerAgreesWithIssue
  BY EndAgrees, Invariant, PTL
=============================================================================

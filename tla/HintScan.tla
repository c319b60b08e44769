------------------------------- MODULE HintScan -------------------------------
(***************************************************************************)
(* What is computed from the hints of one document: how many bytes of its  *)
(* text their windows cover (covered_bytes of navigation_overlay.rs), and  *)
(* for a scan the batches and the packet (batches and packet of            *)
(* navigation.rs).  An action is one turn of a loop.                       *)
(*                                                                         *)
(* A window is its first byte and the byte after its last.  The candidates *)
(* are numbered in the order of their identifiers; of a candidate only its *)
(* size is kept, and of a batch its last candidate.  A sort is the order   *)
(* in which a loop takes what is left.                                     *)
(***************************************************************************)
EXTENDS Naturals, Sequences, FiniteSets, FiniteSetsExt

CONSTANTS
    TextBytes,      \* length of the document's text
    MaxWindows,     \* bound on its windows
    HintSizes,      \* sizes of candidates
    MaxHints,       \* bound on their number
    Envelope, Frame,      \* largest request, and what a request adds to its hints
    MaxQuestions,         \* candidates of a request
    MaxCalls, MaxBytes,   \* the declared budget
    Grades,               \* scores of candidates
    MaxSelected, MaxPacket \* limits of the packet

ASSUME ScanAssumption ==
    /\ TextBytes \in Nat /\ MaxWindows \in Nat /\ MaxHints \in Nat
    /\ HintSizes \subseteq Nat /\ Grades \subseteq Nat
    /\ Envelope \in Nat /\ Frame \in Nat /\ MaxQuestions \in Nat
    /\ MaxCalls \in Nat /\ MaxBytes \in Nat /\ MaxSelected \in Nat /\ MaxPacket \in Nat

VARIABLES
    stage,     \* which loop runs, or that the budget is refused
    anchors,   \* windows of the document
    todo,      \* windows or candidates that the loop has not taken
    covered, priorEnd,  \* bytes counted, and the largest end so far
    sizes,     \* sizes of the candidates
    cuts,      \* last candidate of each batch
    planned,   \* bytes of these batches
    scores,    \* score of each candidate
    packet     \* chosen and omitted candidates

scanVars == <<stage, anchors, todo, covered, priorEnd, sizes, cuts, planned, scores, packet>>

Intervals == {w \in (0..TextBytes) \X (0..TextBytes) : w[1] < w[2]}
NoPacket  == [chosen |-> <<>>, omitted |-> 0, bytes |-> 0]

ScanInit ==
    /\ \/ /\ stage = "cover" /\ sizes = <<>>
          /\ anchors \in UNION {[1..k -> Intervals] : k \in 0..MaxWindows}
       \/ /\ stage = "batches" /\ anchors = <<>>
          /\ sizes \in UNION {[1..n -> HintSizes] : n \in 0..MaxHints}
    /\ todo = DOMAIN anchors /\ covered = 0 /\ priorEnd = 0
    /\ cuts = <<>> /\ planned = 0 /\ scores = <<>> /\ packet = NoPacket
---------------------------------------------------------------------------
\* covered_bytes: a pass over the sorted windows.  Equal ones may come in any order.
Sooner(v, w) == v[1] < w[1] \/ (v[1] = w[1] /\ v[2] < w[2])

\* The bytes of a window that none before it has.
NewBytes(w) == LET start == Max({w[1], priorEnd})
               IN IF start < w[2] THEN w[2] - start ELSE 0

\* Only looks at the window before.
FaultyReach(w) == w[2]

Reach(w) == Max({priorEnd, w[2]})

CoverWindow(i) ==
    /\ stage = "cover" /\ i \in todo
    /\ \A j \in todo : ~Sooner(anchors[j], anchors[i])
    /\ covered' = covered + NewBytes(anchors[i])
    /\ priorEnd' = Reach(anchors[i])
    /\ todo' = todo \ {i}
    /\ UNCHANGED <<stage, anchors, sizes, cuts, planned, scores, packet>>
---------------------------------------------------------------------------
\* Sums of the first elements of a sequence of numbers.
Sums(f) == LET sum[k \in 0..Len(f)] == IF k = 0 THEN 0 ELSE sum[k - 1] + f[k]
           IN sum

\* prepare_batch: a request with the candidates a..b.
Volume(a, b) == Frame + Sums(sizes)[b] - Sums(sizes)[a - 1]
Fits(a, b)   == b - a < MaxQuestions /\ Volume(a, b) <= Envelope

\* First candidate of a batch.
From(c, i) == IF i = 1 THEN 1 ELSE c[i - 1] + 1

First == From(cuts, Len(cuts) + 1)

\* Only counts the questions.
FaultyLonger == {e \in First..Len(sizes) : e - First < MaxQuestions}

\* The candidates are added one by one, until they are too many or too large.
Longer == {e \in First..Len(sizes) : \A k \in First..e : Fits(First, k)}

\* One turn of the loop of batches: as many candidates as a request takes.
TakeBatch ==
    /\ stage = "batches" /\ First <= Len(sizes)
    /\ LET e     == Max(Longer)
           total == planned + Volume(First, e) IN
       IF Longer # {} /\ Len(cuts) < MaxCalls /\ total <= MaxBytes
       THEN cuts' = Append(cuts, e) /\ planned' = total /\ UNCHANGED stage
       ELSE stage' = "refused" /\ UNCHANGED <<cuts, planned>>
    /\ UNCHANGED <<anchors, todo, covered, priorEnd, sizes, scores, packet>>

\* The batches are sent and answered one by one in HostRun.
Answered ==
    /\ stage = "batches" /\ First > Len(sizes)
    /\ stage' = "packet"
    /\ scores' \in [DOMAIN sizes -> Grades]
    /\ todo' = {i \in DOMAIN sizes : scores'[i] > 0}
    /\ UNCHANGED <<anchors, covered, priorEnd, sizes, cuts, planned, packet>>
---------------------------------------------------------------------------
\* packet: by descending score and then by identifier, as long as there is room.
Better(i, j) == scores[i] > scores[j] \/ (scores[i] = scores[j] /\ i < j)

\* Ends with the first one that has no room.
FaultyHasRoom(i) ==
    packet.omitted = 0 /\ Len(packet.chosen) < MaxSelected /\ packet.bytes + sizes[i] <= MaxPacket

HasRoom(i) == Len(packet.chosen) < MaxSelected /\ packet.bytes + sizes[i] <= MaxPacket

\* One turn of the loop of packet.
Consider(i) ==
    /\ stage = "packet" /\ i \in todo /\ \A j \in todo : ~Better(j, i)
    /\ packet' = IF HasRoom(i)
                 THEN [packet EXCEPT !.chosen = Append(@, i), !.bytes = @ + sizes[i]]
                 ELSE [packet EXCEPT !.omitted = @ + 1]
    /\ todo' = todo \ {i}
    /\ UNCHANGED <<stage, anchors, covered, priorEnd, sizes, cuts, planned, scores>>

ScanNext ==
    \/ \E i \in todo : CoverWindow(i) \/ Consider(i)
    \/ TakeBatch \/ Answered

ScanSpec == ScanInit /\ [][ScanNext]_scanVars
---------------------------------------------------------------------------
\* covered_bytes: the bytes of overlapping, touching, nested and equal windows are
\* counted once, however many windows have been taken.
CoverExact ==
    covered = Cardinality(UNION {anchors[i][1]..(anchors[i][2] - 1) :
                                 i \in DOMAIN anchors \ todo})

\* Every way to cut the candidates into consecutive batches, by their last ones.
Divisions ==
    {c \in UNION {[1..k -> DOMAIN sizes] : k \in 0..Len(sizes)} :
       /\ \A i, j \in DOMAIN c : i < j => c[i] < c[j]
       /\ sizes # <<>> => \E i \in DOMAIN c : c[i] = Len(sizes)}

Volumes(c) == [i \in DOMAIN c |-> Volume(From(c, i), c[i])]

Affordable(c) ==
    /\ Len(c) <= MaxCalls /\ Sums(Volumes(c))[Len(c)] <= MaxBytes
    /\ \A i \in DOMAIN c : Fits(From(c, i), c[i])

\* batches: before a call is paid every candidate is in one batch, and the declared
\* budget is refused only when no way to cut the candidates would keep it.
BatchesBest ==
    /\ stage = "packet" => cuts \in Divisions /\ Affordable(cuts)
    /\ stage = "refused" => \A c \in Divisions : ~Affordable(c)

SizesOf(c) == [k \in DOMAIN c |-> sizes[c[k]]]

\* packet: chosen in their order, each candidate that is taken is chosen or omitted,
\* and one that is omitted did not fit with those that are better.
PacketFair ==
    LET c     == packet.chosen
        taken == {i \in DOMAIN scores : scores[i] > 0} \ todo
        held  == Sums(SizesOf(c))
    IN /\ \A k, l \in DOMAIN c : k < l => Better(c[k], c[l])
       /\ Len(c) + packet.omitted = Cardinality(taken)
       /\ Len(c) <= MaxSelected /\ held[Len(c)] <= MaxPacket
       /\ \A i \in taken \ {c[k] : k \in DOMAIN c} :
            LET better == Cardinality({k \in DOMAIN c : Better(c[k], i)})
            IN better = MaxSelected \/ held[better] + sizes[i] > MaxPacket

\* What is computed from hints: the bytes they cover, the batches, the packet.
HintsExact == CoverExact /\ BatchesBest /\ PacketFair
===============================================================================

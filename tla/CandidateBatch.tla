---------------------------- MODULE CandidateBatch ---------------------------
(***************************************************************************)
(* What a batch of candidates is, however it was collected (CandidateBatch *)
(* of gptgrep-core/src/lib.rs): CandidateView collects one from the two    *)
(* lanes of a search, EvidenceUnion one from the views of a planned        *)
(* search.  Both then judge it, order it, cut it at the limit and look at  *)
(* the sources of what is left.                                            *)
(***************************************************************************)
EXTENDS Naturals, FiniteSets, Sequences, SequencesExt

CONSTANTS
    MaxCandidates,  \* --max-candidates
    Limit,          \* --limit, or SEARCH_MAX
    Scores,         \* values of the relevance rubric
    MinScore        \* --min-score, the relevance floor

ASSUME BatchAssumption ==
    /\ MaxCandidates \in Nat \ {0} /\ Limit \in Nat \ {0}
    /\ Scores \subseteq Nat /\ MinScore \in Nat

VARIABLES
    pc,
    hits,      \* the batch, best first
    coverage   \* what the report says of it

\* truncate.
Take(s, n) == SubSeq(s, 1, IF n < Len(s) THEN n ELSE Len(s))

\* The elements of a set in an order (sort_by), and the elements at some places of
\* a sequence (retain).  SetToSortSeq and SelectSeq of the libraries compute the
\* same by recursion; a proof can expand these.
Sorted(S, Op(_, _)) ==
    CHOOSE s \in SetToSeqs(S) : \A i, j \in DOMAIN s : i < j => Op(s[i], s[j])
Keeping(s, places) ==
    LET Less(i, j) == i < j
        order == Sorted(places, Less)
    IN [k \in DOMAIN order |-> s[order[k]]]

\* The floor does not apply to a literal match.
Eligible(h) == h.anchor \/ h.score >= MinScore
=============================================================================

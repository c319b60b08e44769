--------------------------- MODULE MCCorpusSearch --------------------------
(* Model values, texts and queries for checking the readers with TLC. *)
EXTENDS CorpusSearch, TLC

CONSTANTS w1, r1, g1, g2

\* Every content has a text of its own.
MCTextOf == [c \in Contents |-> c]

\* One regex that matches every text and one that matches the first only.
MCQueries == {Contents, {1}}

Symmetry == Permutations(Gens)
============================================================================

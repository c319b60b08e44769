-------------------------- MODULE MCOverlayReaders -------------------------
(* Model values and texts for checking writers and readers of overlays with TLC. *)
EXTENDS OverlayReaders, TLC

CONSTANTS w1, w2, r1, g1, g2, g3

\* The third content cannot be parsed, every other has a text of its own.
MCTextOf == [c \in Contents |-> IF c = 3 THEN NoText ELSE c]

Symmetry == Permutations(Writers) \cup Permutations(Gens)
============================================================================

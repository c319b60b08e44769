--------------------------- MODULE MCEvidenceUnion --------------------------
(* A small corpus for checking the union of views with TLC. *)
EXTENDS EvidenceUnion

\* Two documents.
MCSourceOf == [s \in 1..4 |-> IF s = 4 THEN 2 ELSE 1]
============================================================================

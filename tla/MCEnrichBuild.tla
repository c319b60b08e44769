--------------------------- MODULE MCEnrichBuild ---------------------------
(* Model values for checking the navigation builder with TLC. *)
EXTENDS EnrichBuild

CONSTANTS p1, p2

MCProcs == {p1, p2}
============================================================================

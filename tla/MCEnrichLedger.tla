-------------------------- MODULE MCEnrichLedger ---------------------------
(* Model values for checking the abstract ledger with TLC. *)
EXTENDS EnrichLedger, TLC

CONSTANTS u1, u2

MCUnits == {u1, u2}

\* One digest is enough: no rule compares the digests of two artifacts that
\* were both prepared, for only one ever is.
MCArtifacts == {<<1, 0>>}

\* No rule tells one window from another except by equality.
Symmetry == Permutations(MCUnits)
============================================================================

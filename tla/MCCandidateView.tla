--------------------------- MODULE MCCandidateView --------------------------
(* Document layouts for checking the choice of candidates with TLC. *)
EXTENDS CandidateView

Flat(n)   == [leaves |-> n, parent |-> FALSE]
Tree(n)   == [leaves |-> n, parent |-> TRUE]

\* An empty scope is refused before a search: every layout has a document.
MCLayouts == {<<Flat(1)>>, <<Tree(2)>>, <<Flat(3), Flat(1)>>, <<Flat(1), Tree(2)>>,
              <<Flat(1), Flat(2), Flat(1)>>}

\* One more small document than a routing reply opens.
MCSmallLayouts == {<<Flat(1), Flat(1), Flat(1)>>}
============================================================================

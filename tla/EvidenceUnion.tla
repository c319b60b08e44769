---------------------------- MODULE EvidenceUnion ---------------------------
(***************************************************************************)
(* What a planned search delivers: the union of its views                  *)
(* (merge_candidates of gptgrep-core/src/planned.rs), the one judgment     *)
(* against the original question (score_candidates, score_evidence_roles   *)
(* and the dispositions of gptgrep-core/src/evidence_roles.rs), the last   *)
(* look at the sources, and the packing and issue of evidence by           *)
(* bootstrap_planned of gptgrep-host/src/retrieval.rs.                     *)
(*                                                                         *)
(* A span stands for its exact bytes in one source; spans are numbered in  *)
(* the order of their source coordinates.  A view lists its candidate      *)
(* windows, best first; two nodes may give it the same span twice.  The    *)
(* judgment is arbitrary.  How the calls interleave and fail is in         *)
(* PlannedSearch: here the search may fail after any step.                 *)
(***************************************************************************)
EXTENDS CandidateBatch

CONSTANTS
    Spans,          \* spans of the corpus, a set of numbers
    SourceOf,       \* the document of a span
    Views,          \* number of views: the original question and the alternates
    MaxWindows,     \* bound on the windows that a view collects
    Roles           \* evidence roles, from 1, the best one, on

ASSUME UnionAssumption ==
    /\ Spans \subseteq Nat /\ IsFiniteSet(Spans)
    /\ DOMAIN SourceOf = Spans
    /\ Views \in Nat \ {0} /\ MaxWindows \in Nat /\ Roles \subseteq Nat \ {0}

VARIABLES
    views,     \* candidate windows of each view, the original question first
    policy,    \* relevance or roles
    found,     \* dispositions in the report's EvidenceRoleDiagnostics
    kept,      \* dispositions in the state of the host's ledger
    issued,    \* spans issued as citable evidence
    judged,    \* history: the candidates with their judgment
    lost       \* history: sources that the last look found stale

vars == <<views, policy, pc, hits, coverage, found, kept, issued, judged, lost>>

Unassessed == [s \in Spans |-> "none"]
NoCoverage == [unique |-> 0, union |-> 0, omitted |-> 0, views |-> <<>>,
               truncated |-> FALSE, reranked |-> 0, filtered |-> 0, retained |-> 0]

SpansOf(s) == {s[i].span : i \in DOMAIN s}

\* Any windows.  Only the original question keeps its literal matches: the search
\* clears the anchors of every other view.
WindowsOf(v) ==
    BoundedSeq([span : Spans, anchor : IF v = 1 THEN BOOLEAN ELSE {FALSE}], MaxWindows)

Init ==
    /\ views \in [1..Views -> UNION {WindowsOf(v) : v \in 1..Views}]
    /\ \A v \in 1..Views : views[v] \in WindowsOf(v)
    /\ policy \in {"relevance", "roles"}
    /\ pc = "merging"
    /\ hits = <<>> /\ coverage = NoCoverage
    /\ found = Unassessed /\ kept = Unassessed
    /\ issued = {} /\ judged = {} /\ lost = {}
---------------------------------------------------------------------------
\* The union.

\* Takes the rounds from the last one on.
FaultyComesFirst(p, q) == p[1] > q[1] \/ (p[1] = q[1] /\ p[2] < q[2])

\* A place is <<round, view>>.
ComesFirst(p, q) == p[1] < q[1] \/ (p[1] = q[1] /\ p[2] < q[2])

Places(s) == {p \in (1..MaxWindows) \X (1..Views) :
                 p[1] <= Len(views[p[2]]) /\ views[p[2]][p[1]].span = s}

FirstPlace(s) == CHOOSE p \in Places(s) :
                    \A q \in Places(s) : p = q \/ ComesFirst(p, q)

Found == UNION {SpansOf(views[v]) : v \in 1..Views}

\* One window of each view in every round; a span is taken where it comes first.
Selected ==
    LET Earlier(s, t) == ComesFirst(FirstPlace(s), FirstPlace(t))
    IN Take(Sorted(Found, Earlier), MaxCandidates)

\* A literal match of the original question, in any of its windows.
Anchored(s) == \E k \in DOMAIN views[1] :
                  views[1][k].span = s /\ views[1][k].anchor

\* Counts the windows of a view instead of its spans.
FaultyViewCoverage(v, selected) ==
    LET union == Cardinality(SpansOf(views[v]) \cap ToSet(selected))
    IN [collected |-> Len(views[v]), union |-> union,
        omitted |-> Len(views[v]) - union]

\* PlannedViewCoverage.
ViewCoverage(v, selected) ==
    LET union == Cardinality(SpansOf(views[v]) \cap ToSet(selected))
    IN [collected |-> Len(views[v]), union |-> union,
        omitted |-> Cardinality(SpansOf(views[v])) - union]

\* merge_candidates.  An empty union is an error.  That a view was truncated
\* itself is passed on and left out here.
Merge ==
    LET selected == Selected IN
    /\ pc = "merging" /\ Found # {}
    /\ hits' = [i \in DOMAIN selected |->
                  [span |-> selected[i], anchor |-> Anchored(selected[i]),
                   score |-> 0, role |-> 0]]
    /\ coverage' = [coverage EXCEPT
                      !.unique = Cardinality(Found),
                      !.union = Len(selected),
                      !.omitted = Cardinality(Found) - Len(selected),
                      !.truncated = Cardinality(Found) > Len(selected),
                      !.views = [v \in 1..Views |-> ViewCoverage(v, selected)]]
    /\ pc' = "merged"
    /\ UNCHANGED <<views, policy, found, kept, issued, judged, lost>>
---------------------------------------------------------------------------
\* The judgment.  Dispositions are kept for evidence roles only; plan_event
\* copies those of an event into the ledger's state.

Assess(dispositions) ==
    found' = IF policy = "roles" THEN dispositions ELSE found

\* EvidenceRoleDiagnostics::prepare and before_call.
Ask ==
    /\ pc = "merged"
    /\ Assess([s \in Spans |-> IF s \in SpansOf(hits) THEN "judgment_unavailable"
                               ELSE "none"])
    /\ kept' = found'
    /\ pc' = "asked"
    /\ UNCHANGED <<views, policy, hits, coverage, issued, judged, lost>>

\* observe and after_reply: a score for each candidate, and a role.
Reply ==
    /\ pc = "asked"
    /\ \E score \in [DOMAIN hits -> Scores] :
       \E role \in [DOMAIN hits -> IF policy = "roles" THEN Roles ELSE {0}] :
          hits' = [i \in DOMAIN hits |->
                     [hits[i] EXCEPT !.score = score[i], !.role = role[i]]]
    /\ judged' = ToSet(hits')
    /\ coverage' = [coverage EXCEPT !.reranked = Len(hits)]
    /\ Assess([s \in Spans |-> IF found[s] = "none" THEN "none"
                               ELSE "judged_awaiting_selection"])
    /\ kept' = found'
    /\ pc' = "replied"
    /\ UNCHANGED <<views, policy, issued, lost>>

\* Lets the role decide before the anchor does.
FaultyRanks(a, b) ==
    \/ a.role < b.role
    \/ a.role = b.role /\ a.anchor /\ ~b.anchor
    \/ a.role = b.role /\ a.anchor = b.anchor /\ a.score > b.score
    \/ a.role = b.role /\ a.anchor = b.anchor /\ a.score = b.score /\ a.span < b.span

\* Anchors, then the role, which all share without the policy, then the score.
Ranks(a, b) ==
    \/ a.anchor /\ ~b.anchor
    \/ a.anchor = b.anchor /\ a.role < b.role
    \/ a.anchor = b.anchor /\ a.role = b.role /\ a.score > b.score
    \/ a.anchor = b.anchor /\ a.role = b.role /\ a.score = b.score /\ a.span < b.span

\* EvidenceRoleDiagnostics::order or the end of score_candidates, and the last
\* event of the operation.
Order ==
    LET ordered == Sorted({h \in ToSet(hits) : Eligible(h)}, Ranks)
        above == SpansOf(Take(ordered, Limit)) IN
    /\ pc = "replied"
    /\ hits' = ordered
    /\ Assess([s \in Spans |->
                 IF found[s] = "none" THEN "none"
                 ELSE IF s \notin SpansOf(ordered) THEN "excluded_relevance_floor"
                 ELSE IF s \in above THEN "awaiting_delivery"
                 ELSE "eligible_below_result_limit"])
    /\ kept' = found'
    /\ coverage' = [coverage EXCEPT
                      !.filtered = Len(hits) - Len(ordered),
                      !.retained = Cardinality({h \in judged :
                                       h.anchor /\ h.score < MinScore})]
    /\ pc' = "ordered"
    /\ UNCHANGED <<views, policy, issued, judged, lost>>

\* Fills the places of stale hits with the ones below the limit.
FaultyFreshHits(gone) ==
    Take(Keeping(hits, {i \in DOMAIN hits : SourceOf[hits[i].span] \notin gone}), Limit)

\* finish_candidate_batch: the limit comes first.
FreshHits(gone) ==
    LET first == Take(hits, Limit)
    IN Keeping(first, {i \in DOMAIN first : SourceOf[first[i].span] \notin gone})

\* finish_candidate_batch and finish_freshness.
Recheck ==
    /\ pc = "ordered"
    /\ \E gone \in SUBSET {SourceOf[s] : s \in SpansOf(Take(hits, Limit))} :
         /\ lost' = gone
         /\ hits' = FreshHits(gone)
    /\ Assess([s \in Spans |->
                 IF found[s] = "awaiting_delivery" /\ s \notin SpansOf(hits')
                 THEN "stale_before_delivery" ELSE found[s]])
    /\ kept' = found'
    /\ coverage' = [coverage EXCEPT !.truncated = @ \/ Len(hits) > Limit]
    /\ pc' = "checked"
    /\ UNCHANGED <<views, policy, issued, judged>>
---------------------------------------------------------------------------
\* Delivery by the host.

\* Packing drops trailing hits, but never all of them; record_delivery says
\* which.  The ledger's state keeps its own copy until the evidence is issued.
Pack ==
    /\ pc = "checked"
    /\ \E n \in 0..Len(hits) :
         /\ n = 0 => hits = <<>>
         /\ hits' = Take(hits, n)
    /\ Assess([s \in Spans |->
                 IF found[s] # "awaiting_delivery" THEN found[s]
                 ELSE IF s \in SpansOf(hits') THEN "delivered"
                 ELSE "selected_removed_by_envelope"])
    /\ pc' = "packed"
    /\ UNCHANGED <<views, policy, coverage, kept, issued, judged, lost>>

\* The evidence is issued and the delivery entered in the ledger.
Issue ==
    /\ pc = "packed"
    /\ issued' = SpansOf(hits)
    /\ kept' = found
    /\ pc' = "issued"
    /\ UNCHANGED <<views, policy, hits, coverage, found, judged, lost>>

\* The receipt.
Receipt ==
    /\ pc = "issued"
    /\ pc' = "done"
    /\ UNCHANGED <<views, policy, hits, coverage, found, kept, issued, judged, lost>>

\* Takes back what awaits delivery but not what was delivered.
FaultyMarked(d) ==
    IF d \in {"judged_awaiting_selection", "awaiting_delivery"}
    THEN "delivery_failed" ELSE d

\* mark_delivery_failure.
Marked(d) ==
    IF d \in {"judged_awaiting_selection", "awaiting_delivery", "delivered"}
    THEN "delivery_failed" ELSE d

\* Any step may fail, or be the last one before the search is dropped; what is
\* in the ledger's state is then marked, and what was issued is taken back.
Fail ==
    /\ pc \notin {"done", "failed"}
    /\ kept' = [s \in Spans |-> Marked(kept[s])]
    /\ issued' = {}
    /\ pc' = "failed"
    /\ UNCHANGED <<views, policy, hits, coverage, found, judged, lost>>

Next == Merge \/ Ask \/ Reply \/ Order \/ Recheck \/ Pack \/ Issue \/ Receipt \/ Fail

Spec == Init /\ [][Next]_vars
---------------------------------------------------------------------------

\* "A stable round-robin union": an alternate cannot push the original question
\* out, nor the other way round.  A span that was left out of the union stands in
\* no view before the round in which some candidate was first found.
UnionFair ==
    pc = "merged" =>
        \A s \in Found \ SpansOf(hits) : \A h \in ToSet(hits) :
            \A p \in Places(s) : \E q \in Places(h.span) : q[1] <= p[1]

\* "Duplicate candidate windows merge into one span and are not counted as cap
\* omissions": a view misses a span exactly when the cap left it out, and the
\* numbers of the views are those of the union.
OmissionsAreCap ==
    pc = "merged" =>
        /\ coverage.union = Len(hits)
        /\ coverage.omitted > 0 => coverage.truncated /\ Len(hits) = MaxCandidates
        /\ coverage.unique = coverage.union + coverage.omitted
        /\ \A v \in 1..Views :
              LET c == coverage.views[v] IN
              /\ c.omitted > 0 => coverage.truncated
              /\ c.union + c.omitted <= c.collected
              /\ c.omitted = Cardinality(SpansOf(views[v]) \ SpansOf(hits))

\* The cap is shared fairly, and what it leaves out is counted.
UnionSound == UnionFair /\ OmissionsAreCap

\* Some window of the original question holds a literal match in the span.
OriginallyMatched(s) == \E w \in ToSet(views[1]) : w.span = s /\ w.anchor

\* a comes before b, or ties with it.
Beats(a, b) ==
    \/ a.anchor /\ ~b.anchor
    \/ /\ a.anchor = b.anchor /\ a.role <= b.role
       /\ a.role = b.role => a.score >= b.score

\* "Retain eligibility, score, role, rank and actual omission": at the end each
\* judged candidate that the reader did not get has its reason on record, and the
\* reason is true of it.  A role alone excludes nothing, and a candidate below
\* the limit does not replace one whose source became stale.
OmissionsExplained ==
    pc = "done" /\ policy = "roles" =>
        /\ coverage.reranked = Cardinality({s \in Spans : kept[s] # "none"})
        /\ coverage.filtered =
              Cardinality({s \in Spans : kept[s] = "excluded_relevance_floor"})
        /\ \A h \in judged :
            CASE kept[h.span] = "delivered" -> h.span \in issued
              [] kept[h.span] = "excluded_relevance_floor" ->
                    ~OriginallyMatched(h.span) /\ h.score < MinScore
              [] kept[h.span] = "stale_before_delivery" -> SourceOf[h.span] \in lost
              [] kept[h.span] = "selected_removed_by_envelope" ->
                    /\ issued # {}
                    /\ \A g \in judged : g.span \in issued => Beats(g, h)
              [] kept[h.span] = "eligible_below_result_limit" ->
                    /\ Cardinality({g \in judged : Eligible(g) /\ Beats(g, h)}) > Limit
                    /\ h.span \notin issued
              [] OTHER -> FALSE

\* The evidence comes in the order that docs/architecture.md gives, under either
\* policy, and "only original-view literal anchors can bypass the relevance floor",
\* also when another window or another view found the span first.
DeliveredInOrder ==
    pc = "done" =>
        /\ issued = SpansOf(hits) /\ Len(hits) <= Limit
        /\ \A i, j \in DOMAIN hits : i < j => Beats(hits[i], hits[j])
        /\ \A h \in ToSet(hits) :
              /\ SourceOf[h.span] \notin lost
              /\ h.score >= MinScore \/ OriginallyMatched(h.span)

\* What the reader gets, in its order, and what it does not get are both explained.
DeliveryExplained == OmissionsExplained /\ DeliveredInOrder

\* What the ledger says of delivery is what the reader may cite: the delivered
\* candidates after success, and nothing after a failure, whichever step failed.
LedgerAgreesWithIssue ==
    pc \in {"done", "failed"} =>
        /\ policy = "roles" => issued = {s \in Spans : kept[s] = "delivered"}
        /\ \A s \in Spans :
              kept[s] \notin {"judged_awaiting_selection", "awaiting_delivery"}
============================================================================

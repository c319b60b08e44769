---------------------------- MODULE CandidateView ---------------------------
(***************************************************************************)
(* How one model-assisted or lexical search chooses its hits               *)
(* (collect_candidate_view, score_candidates and finish_candidate_batch of *)
(* gptgrep-core/src/lib.rs): the lexical lane, the routing of documents to *)
(* the tree lane, their bounded union, the relevance floor, the limit and  *)
(* the last look at the sources.                                           *)
(*                                                                         *)
(* The documents of the scope are 1..n in path order.  A node is           *)
(* <<document, position>>: position 0 is the parent node of a document     *)
(* that has one, the leaves follow from 1.  Both replies of the Jev        *)
(* service are arbitrary: any ranking of the documents, any scores.        *)
(***************************************************************************)
EXTENDS CandidateBatch

CONSTANTS
    Layouts,        \* sequences of documents [leaves : Nat, parent : BOOLEAN]
    RoutingDocs,    \* --routing-docs
    TopRanked,      \* documents that the routing reply opens (8 in the code)
    MaxMatches      \* bound on the nodes that the query matches

ASSUME ViewAssumption ==
    /\ Layouts \subseteq Seq([leaves : Nat, parent : BOOLEAN])
    /\ RoutingDocs \in Nat \ {0} /\ TopRanked \in Nat \ {0} /\ MaxMatches \in Nat

VARIABLES
    scope,    \* the documents
    mode,     \* lexical, hybrid or semantic
    matches,  \* nodes that the query matches, best first, with literal_anchor
    gone,     \* documents that are stale when they are first looked at
    routed,   \* documents described to the routing call
    selected, \* documents that its reply opens, best first
    scored    \* history: the candidates of the reranking call, with their scores

inputs == <<scope, mode, matches, gone>>
viewVars == <<scope, mode, matches, gone, pc, hits, routed, selected, scored,
              coverage>>

NothingCovered == [truncated |-> FALSE, complete |-> FALSE, stale |-> {},
                   reranked |-> 0, filtered |-> 0]

Docs == 1..Len(scope)
Leaves(d) == {d} \X (1..scope[d].leaves)
Nodes(d) == Leaves(d) \cup (IF scope[d].parent THEN {<<d, 0>>} ELSE {})
AllNodes == UNION {Nodes(d) : d \in Docs}

NodesOf(s)   == {s[i].node : i \in DOMAIN s}
Before(a, b) == a[1] < b[1] \/ (a[1] = b[1] /\ a[2] < b[2])

\* A query of one word marks the nodes in which it stands as a word, and its
\* matches all have the same lexical score: path and line order them.  A
\* query of several words has no anchors and ranks its matches by the words
\* they contain, in any order.
Rankings(nodes) ==
    LET inOrder == Sorted(nodes, Before)
        oneWord(anchors) ==
            [i \in DOMAIN inOrder |->
               [node |-> inOrder[i], anchor |-> inOrder[i] \in anchors, score |-> 0]]
    IN {oneWord(anchors) : anchors \in SUBSET nodes} \cup
       {[i \in DOMAIN order |->
           [node |-> order[i], anchor |-> FALSE, score |-> 0]] :
                order \in SetToSeqs(nodes)}

ViewInit ==
    /\ scope \in Layouts
    /\ mode \in {"lexical", "hybrid", "semantic"}
    /\ gone \in SUBSET Docs
    /\ \E nodes \in SUBSET AllNodes :
         /\ Cardinality(nodes) <= MaxMatches
         /\ mode = "semantic" => nodes = {}
         /\ matches \in Rankings(nodes)
    /\ pc = "collecting"
    /\ hits = <<>> /\ routed = {} /\ selected = <<>> /\ scored = {}
    /\ coverage = NothingCovered
---------------------------------------------------------------------------

\* Hits whose source is not one of the documents.
Outside(s, docs) == Keeping(s, {i \in DOMAIN s : s[i].node[1] \notin docs})

FreshMatches == Outside(matches, gone)

\* The lexical lane: matches in fresh documents.  A search without the model
\* goes straight to its end.
Collect ==
    /\ pc = "collecting"
    /\ hits' = FreshMatches
    /\ coverage' = [coverage EXCEPT
                      !.stale = {n[1] : n \in NodesOf(matches)} \cap gone]
    /\ pc' = IF mode = "lexical" THEN "finishing" ELSE "routing"
    /\ UNCHANGED <<inputs, routed, selected, scored>>

\* The first RoutingDocs documents, without the stale ones, are described to
\* the model; with none there is no tree lane.
Route ==
    LET prefix == 1..(IF RoutingDocs < Len(scope) THEN RoutingDocs ELSE Len(scope))
        shown  == prefix \ gone IN
    /\ pc = "routing"
    /\ routed' = shown
    /\ IF shown # {}
       THEN /\ hits' = hits
            /\ pc' = "routed"
            /\ coverage' = [coverage EXCEPT !.complete = (shown = Docs),
                                            !.stale = @ \cup (prefix \cap gone)]
       ELSE /\ hits' = Take(hits, MaxCandidates)
            /\ pc' = "scoring"
            /\ coverage' = [coverage EXCEPT
                              !.complete = (shown = Docs),
                              !.stale = @ \cup (prefix \cap gone),
                              !.truncated = @ \/ Len(hits) > MaxCandidates]
    /\ UNCHANGED <<inputs, selected, scored>>

\* leaf_nodes of the selected documents, one of each in every round.
Rounds(docs) ==
    LET places == UNION {{<<k, i>> : k \in 1..scope[docs[i]].leaves} :
                            i \in DOMAIN docs}
        order == Sorted(places, Before)
    IN [j \in DOMAIN order |-> <<docs[order[j][2]], order[j][1]>>]

\* Without the nodes that are there already.
NewLeaves(docs, kept) ==
    LET rounds == Rounds(docs)
    IN Keeping(rounds, {j \in DOMAIN rounds : rounds[j] \notin NodesOf(kept)})

\* Lets the lexical lane fill the budget.
FaultyUnion(lexical, docs) ==
    LET tree == NewLeaves(docs, lexical)
    IN Take(lexical \o [j \in DOMAIN tree |->
                          [node |-> tree[j], anchor |-> FALSE, score |-> 0]],
            MaxCandidates)

\* Half of the candidates at most come from the lexical lane; the rounds of the
\* tree lane follow.
Union(lexical, docs) ==
    LET kept == Take(lexical, MaxCandidates \div 2)
        tree == NewLeaves(docs, kept)
    IN Take(kept \o [j \in DOMAIN tree |->
                       [node |-> tree[j], anchor |-> FALSE, score |-> 0]],
            MaxCandidates)

\* Compares with the budget instead of the candidates.
FaultyOmitsNodes(docs, candidates) ==
    Cardinality(UNION {Nodes(docs[i]) : i \in DOMAIN docs}) > MaxCandidates

\* The selected documents have more nodes than there are candidates.
OmitsNodes(docs, candidates) ==
    Cardinality(UNION {Nodes(docs[i]) : i \in DOMAIN docs})
        > Len(candidates)

\* The routing reply.
RoutingReply ==
    /\ pc = "routed"
    /\ \E ranking \in SetToSeqs(routed) :
         LET best == Take(ranking, TopRanked)
             candidates == Union(hits, best) IN
         /\ selected' = best
         /\ hits' = candidates
         /\ coverage' = [coverage EXCEPT
                           !.truncated = @ \/ OmitsNodes(best, candidates)]
    /\ pc' = "scoring"
    /\ UNCHANGED <<inputs, routed, scored>>

ByScore(a, b) ==
    \/ a.anchor /\ ~b.anchor
    \/ a.anchor = b.anchor /\ a.score > b.score
    \/ a.anchor = b.anchor /\ a.score = b.score /\ Before(a.node, b.node)

\* The reranking reply: a score for each candidate, then the floor and the
\* order.  Without a candidate there is no call.
Rerank ==
    /\ pc = "scoring"
    /\ \E score \in [DOMAIN hits -> Scores] :
         LET judged == {[hits[i] EXCEPT !.score = score[i]] : i \in DOMAIN hits}
             kept == {h \in judged : Eligible(h)} IN
         /\ scored' = judged
         /\ hits' = Sorted(kept, ByScore)
         /\ coverage' = [coverage EXCEPT
                           !.reranked = Len(hits),
                           !.filtered = Len(hits) - Cardinality(kept)]
    /\ pc' = "finishing"
    /\ UNCHANGED <<inputs, routed, selected>>

\* Either call fails or is refused by the receipt it needs: there is no report.
CallFails ==
    /\ pc \in {"routed", "scoring"}
    /\ pc = "scoring" => hits # <<>>
    /\ pc' = "failed"
    /\ UNCHANGED <<inputs, hits, routed, selected, scored, coverage>>

\* Drops a hit without naming its source.
FaultyFinish ==
    /\ pc = "finishing"
    /\ \E lost \in SUBSET {n[1] : n \in NodesOf(Take(hits, Limit))} :
         /\ hits' = Outside(Take(hits, Limit), lost)
         /\ coverage' = [coverage EXCEPT !.truncated = @ \/ Len(hits) > Limit]
    /\ pc' = "done"
    /\ UNCHANGED <<inputs, routed, selected, scored>>

\* The limit, and the last look at the sources of what is left.
Finish ==
    /\ pc = "finishing"
    /\ \E lost \in SUBSET {n[1] : n \in NodesOf(Take(hits, Limit))} :
         /\ hits' = Outside(Take(hits, Limit), lost)
         /\ coverage' = [coverage EXCEPT !.truncated = @ \/ Len(hits) > Limit,
                                         !.stale = @ \cup lost]
    /\ pc' = "done"
    /\ UNCHANGED <<inputs, routed, selected, scored>>

ViewNext == Collect \/ Route \/ RoutingReply \/ Rerank \/ CallFails \/ Finish

ViewSpec == ViewInit /\ [][ViewNext]_viewVars
---------------------------------------------------------------------------

\* "Reserve half the final budget for tree candidates, protecting no-keyword
\* recall": however many nodes the query matches literally, no node is judged
\* twice, the budget is kept, and a leaf of a selected document is left out only
\* when the tree lane has filled its half of the budget.  The lane is fair to the
\* documents it opened, whatever their order and size: a leaf of one of them takes
\* a place of its own only if all of them have their earlier leaves there.
TreeLaneShare ==
    pc = "scoring" /\ routed # {} =>
        LET nodes == NodesOf(hits)
            lexical == NodesOf(Take(FreshMatches, MaxCandidates \div 2))
            leaves == UNION {Leaves(selected[i]) : i \in DOMAIN selected}
        IN /\ Cardinality(nodes) = Len(hits) /\ Len(hits) <= MaxCandidates
           /\ \/ leaves \subseteq nodes
              \/ Cardinality((nodes \cap leaves) \ lexical)
                   >= MaxCandidates - MaxCandidates \div 2
           /\ \A n \in nodes \ lexical : \A m \in leaves : m[2] < n[2] => m \in nodes

\* "Check coverage before treating a result as exhaustive": when it is neither
\* truncated nor restricted to a prefix, and all documents of the scope could be
\* opened, every node of the scope was judged, and what is not in the report was
\* judged irrelevant or has a stale source.
ExhaustiveWhenClaimed ==
    /\ pc = "done" /\ mode # "lexical" /\ Len(scope) <= TopRanked
    /\ ~coverage.truncated /\ coverage.complete
    => \A n \in AllNodes :
          \/ n \in NodesOf(hits)
          \/ n[1] \in coverage.stale
          \/ \E h \in scored : h.node = n /\ h.score < MinScore

\* Every candidate that was judged is accounted for: reported, counted as
\* filtered, of a source named as stale, or cut off by an announced limit in
\* favour of better ones.  Literal matches that were judged as such are not dropped
\* by the judgment of the model and come before the rest.
CandidatesAccountedFor ==
    pc = "done" /\ mode # "lexical" =>
        LET unreported == {h \in scored : h.node \notin NodesOf(hits)}
            stale == {h \in unreported : h.node[1] \in coverage.stale} IN
        /\ coverage.reranked = Cardinality(scored)
        /\ Len(hits) <= Limit
        /\ coverage.truncated
             \/ Cardinality(unreported \ stale) <= coverage.filtered
        /\ coverage.filtered <= Cardinality(unreported)
        /\ \A i, j \in DOMAIN hits : i < j /\ hits[j].anchor => hits[i].anchor
        /\ \A h \in ToSet(hits) : Eligible(h)
        /\ \A h \in unreported \ stale :
              \/ ~Eligible(h)
              \/ coverage.truncated /\ \A i \in DOMAIN hits :
                    \/ hits[i].anchor /\ ~h.anchor
                    \/ hits[i].anchor = h.anchor /\ hits[i].score >= h.score

\* No candidate is lost on its way through the two lanes, the judgment and the limit.
CandidatesKept == TreeLaneShare /\ CandidatesAccountedFor

\* docs/architecture.md: "Coverage reports expose the inspected scope and
\* truncation."  When the whole scope was routed and the report does not say
\* that it was truncated, every node in a fresh document that the query matches
\* was a candidate.
TruncationReported ==
    pc = "done" /\ mode = "hybrid" /\ coverage.complete /\ ~coverage.truncated =>
        \A i \in DOMAIN matches : matches[i].node \in {h.node : h \in scored}
============================================================================

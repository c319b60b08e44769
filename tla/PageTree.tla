------------------------------- MODULE PageTree -------------------------------
(***************************************************************************)
(* The section tree of a parsed document and its optional optimization:    *)
(* gptgrep-pageindex, lib.rs (from_pages, build_nodes) and optimizer.rs    *)
(* (optimize_merge).                                                       *)
(*                                                                         *)
(* A document is its pages, given by their last lines.  Whether and where  *)
(* a bookmark's title is found on its page is chosen, so are the layout    *)
(* headings.  A node is its parent, level and ranges; of its title and key *)
(* items only whose titles they hold is kept.                              *)
(***************************************************************************)
EXTENDS Naturals, Sequences, FiniteSets, FiniteSetsExt

CONSTANTS
    Shapes,        \* documents: the last line of each page, and how many bookmarks
                   \* and headings the document has at most
    Titles,        \* normalized titles of bookmarks and headings
    MaxLevel       \* bound on the levels that the parser reports

\* An empty page has one line.
ASSUME TreeAssumption ==
    /\ MaxLevel \in Nat
    /\ \A e \in DOMAIN Shapes :
         /\ e \in Seq(Nat \ {0}) /\ e # <<>>
         /\ \A p, q \in DOMAIN e : p < q => e[p] < e[q]

VARIABLES
    ends,     \* last line of each page
    layout,   \* layout headings, with a verified line each
    frames, levels,  \* accepted bookmarks, levels of the ones still open
    phase,    \* where from_pages, build_nodes or optimize_merge is
    rest, last,      \* candidates that are left, the last one that was taken
    nodes, stack,    \* the tree, the open sections
    alive,    \* entries of the forest that are not merged away
    quiet,    \* the last pass over the siblings changed nothing
    built     \* history: the tree before it is optimized

treeVars == <<ends, layout, frames, levels, phase, rest, last, nodes, stack, alive,
              quiet, built>>

Root  == 0
None  == [line |-> 0]
Total == ends[Len(ends)]
LineStart(page) == IF page = 1 THEN 1 ELSE ends[page - 1] + 1
\* page_for_line.
PageOf(line) == Max({p \in DOMAIN ends : LineStart(p) <= line})

TreeInit ==
    /\ ends \in DOMAIN Shapes
    /\ layout = <<>> /\ frames = <<>> /\ levels = {}
    /\ phase = "input" /\ rest = {} /\ last = None
    /\ nodes = <<>> /\ stack = {} /\ alive = {} /\ quiet = FALSE /\ built = <<>>
---------------------------------------------------------------------------
\* from_pages.  The parser verifies the lines of headings one after the other.
Heading(title, level, line) ==
    /\ phase = "input" /\ frames = <<>> /\ Len(layout) < Shapes[ends]
    /\ layout # <<>> => layout[Len(layout)].line < line
    /\ layout' = Append(layout, [title |-> title, level |-> level, line |-> line,
                                 page |-> PageOf(line), coarse |-> FALSE])
    /\ UNCHANGED <<ends, frames, levels, phase, rest, last, nodes, stack, alive,
                   quiet, built>>

\* A bookmark whose title is not on its page (line 0) has the page's precision.
\* One that goes back is ignored, like the generic and invalid ones.
Bookmark(title, level, page, line) ==
    /\ phase = "input" /\ Len(frames) + Len(layout) < Shapes[ends]
    /\ frames # <<>> => frames[Len(frames)].page <= page
    /\ line \in {0} \cup LineStart(page)..ends[page]
    /\ levels' = {l \in levels : l < level} \cup {level}
    /\ frames' = Append(frames, [title |-> title, level |-> Cardinality(levels'),
                                 line |-> IF line = 0 THEN LineStart(page) ELSE line,
                                 page |-> page, coarse |-> line = 0])
    /\ UNCHANGED <<ends, layout, phase, rest, last, nodes, stack, alive, quiet, built>>

\* The order of candidates: by line, level, and as they came, bookmarks first.
Precedes(a, b) ==
    \/ a.line < b.line
    \/ a.line = b.line /\ a.level < b.level
    \/ a.line = b.line /\ a.level = b.level /\ a.rank <= b.rank

Ranked(c, rank) == [title |-> c.title, level |-> c.level, line |-> c.line,
                    page |-> c.page, coarse |-> c.coarse, rank |-> rank]

Frames == {Ranked(frames[i], i) : i \in DOMAIN frames}

\* A heading below a bookmark becomes its child, unless the bookmark is the heading.
Placed(heading) ==
    LET above == {f \in Frames : f.line <= heading.line}
        frame == CHOOSE f \in above : \A g \in above : Precedes(g, f)
    IN IF above = {} THEN heading ELSE [heading EXCEPT !.level = frame.level + @]

Sections ==
    LET framed == {<<f.page, f.title>> : f \in Frames}
    IN Frames \cup {Ranked(Placed(layout[i]), Len(frames) + i) : i \in
                    {j \in DOMAIN layout : <<layout[j].page, layout[j].title>> \notin framed}}

Assemble ==
    /\ phase = "input"
    /\ rest' = Sections
    /\ phase' = IF rest' = {} THEN "flat" ELSE "build"
    /\ UNCHANGED <<ends, layout, frames, levels, last, nodes, stack, alive, quiet, built>>
---------------------------------------------------------------------------
\* build_nodes.

Node(parent, level, pageStart, pageEnd, lineStart, lineEnd, index) ==
    [parent |-> parent, level |-> level, pageStart |-> pageStart, pageEnd |-> pageEnd,
     lineStart |-> lineStart, lineEnd |-> lineEnd, holds |-> {index}]

\* Without a section every page is a node.
PageFallback ==
    /\ phase = "flat" /\ phase' = "tree"
    /\ nodes' = [p \in DOMAIN ends |-> Node(Root, 1, p, p, LineStart(p), ends[p], p)]
    /\ UNCHANGED <<ends, layout, frames, levels, rest, last, stack, alive, quiet, built>>

\* The next section closes those that are not its ancestors.  If its place on the
\* page is not known, they share that page.
Closed(c) ==
    LET boundary == IF c.coarse THEN ends[c.page] ELSE c.line - 1 IN
    [i \in DOMAIN nodes |->
        IF i \in stack /\ nodes[i].level >= c.level
        THEN [nodes[i] EXCEPT !.lineEnd = Max({boundary, nodes[i].lineStart})]
        ELSE nodes[i]]

Preface(c) ==
    IF nodes = <<>> /\ c.line > 1
    THEN <<Node(Root, 1, 1, PageOf(c.line - 1), 1, c.line - 1, 1)>> ELSE Closed(c)

Push ==
    LET c     == CHOOSE x \in rest : \A y \in rest : Precedes(x, y)
        open  == {i \in stack : nodes[i].level < c.level}
        index == Len(Preface(c)) + 1
    IN
    /\ phase = "build" /\ rest # {}
    /\ rest' = rest \ {c}
    /\ IF last # None /\ <<last.line, last.level, last.title>> = <<c.line, c.level, c.title>>
       THEN UNCHANGED <<last, nodes, stack>>
       ELSE /\ last' = c
            /\ nodes' = Append(Preface(c),
                               Node(IF open = {} THEN Root ELSE Max(open), c.level,
                                    c.page, Len(ends), c.line, Total, index))
            /\ stack' = open \cup {index}
    /\ UNCHANGED <<ends, layout, frames, levels, phase, alive, quiet, built>>

\* The ancestors of a node.
Ancestors(n) ==
    LET above[i \in DOMAIN n] == IF n[i].parent = Root THEN {}
                                 ELSE {n[i].parent} \cup above[n[i].parent]
    IN above

Subtree(n, i) == {j \in DOMAIN n : i = j \/ i \in Ancestors(n)[j]}

\* Leaves the parents as they were.
FaultyPromoted ==
    [i \in DOMAIN nodes |-> [nodes[i] EXCEPT !.pageEnd = PageOf(nodes[i].lineEnd)]]

\* A section that shares a page with the one after it may end after its parent.
Promoted ==
    [i \in DOMAIN nodes |->
        LET end == Max({nodes[j].lineEnd : j \in Subtree(nodes, i)})
        IN [nodes[i] EXCEPT !.lineEnd = end, !.pageEnd = PageOf(end)]]

Promote ==
    /\ phase = "build" /\ rest = {} /\ phase' = "tree"
    /\ nodes' = Promoted
    /\ UNCHANGED <<ends, layout, frames, levels, rest, last, stack, alive, quiet, built>>
---------------------------------------------------------------------------
\* optimize_merge.

\* Forest::read.
Accepts(n, live) ==
    /\ \A i \in live :
         /\ n[i].level > 0 /\ n[i].pageStart <= n[i].pageEnd /\ n[i].lineStart <= n[i].lineEnd
         /\ n[i].lineEnd <= Total
         /\ PageOf(n[i].lineStart) = n[i].pageStart /\ PageOf(n[i].lineEnd) = n[i].pageEnd
         /\ n[i].parent # Root =>
              LET p == n[n[i].parent] IN
              /\ n[i].parent \in live /\ n[i].parent < i /\ p.level < n[i].level
              /\ p.lineStart <= n[i].lineStart /\ n[i].lineEnd <= p.lineEnd
              /\ p.pageStart <= n[i].pageStart /\ n[i].pageEnd <= p.pageEnd
         /\ \A j \in live : i < j /\ n[i].parent = n[j].parent =>
              n[i].lineStart <= n[j].lineStart
    /\ 1..Total = UNION {n[i].lineStart..n[i].lineEnd : i \in {j \in live : n[j].parent = Root}}

ReadForest ==
    /\ phase = "tree"
    /\ phase' = IF Accepts(nodes, DOMAIN nodes) THEN "siblings" ELSE "refused"
    /\ alive' = DOMAIN nodes /\ built' = nodes
    /\ UNCHANGED <<ends, layout, frames, levels, rest, last, nodes, stack, quiet>>

Children(n, live, i) == {j \in live : n[j].parent = i}
Pages(node) == node.pageStart..node.pageEnd
Span(node)  == node.pageEnd - node.pageStart + 1
Residual(n, live, i) ==
    Cardinality(Pages(n[i]) \ UNION {Pages(n[j]) : j \in Children(n, live, i)})

\* merge_same_span: leaves of one parent with the same pages become one.
Group(i) ==
    {j \in alive : /\ Children(nodes, alive, j) = {} /\ nodes[j].parent = nodes[i].parent
                   /\ Pages(nodes[j]) = Pages(nodes[i])}

\* Keeps the lines of the first one.
FaultyMerged(group, i) ==
    [nodes[i] EXCEPT !.holds = UNION {nodes[j].holds : j \in group}]

Merged(group, i) ==
    [nodes[i] EXCEPT !.lineStart = Min({nodes[j].lineStart : j \in group}),
                     !.lineEnd   = Max({nodes[j].lineEnd : j \in group}),
                     !.holds     = UNION {nodes[j].holds : j \in group}]

MergeSiblings ==
    LET leaves  == {i \in alive : Children(nodes, alive, i) = {}}
        keepers == {i \in leaves : i = Min(Group(i))}
    IN
    /\ phase = "siblings" /\ phase' = "subtrees"
    /\ nodes' = [i \in DOMAIN nodes |->
                    IF i \in keepers THEN Merged(Group(i), i) ELSE nodes[i]]
    /\ alive' = alive \ (leaves \ keepers)
    /\ quiet' = (leaves = keepers)
    /\ UNCHANGED <<ends, layout, frames, levels, rest, last, stack, built>>

\* Forest::cost after the subtrees below have been collapsed where it pays.
\* Counts the way to the section itself, too.
FaultyExpanded(n, live, cost, i) ==
    2 + Max({cost[j] : j \in Children(n, live, i)} \cup {Residual(n, live, i)})

Expanded(n, live, cost, i) ==
    1 + Max({cost[j] : j \in Children(n, live, i)} \cup {Residual(n, live, i)})

Cost(n, live) ==
    LET cost[i \in live] ==
          IF Children(n, live, i) = {} THEN Span(n[i])
          ELSE Min({Span(n[i]), Expanded(n, live, cost, i)})
    IN cost

\* merge_subtrees: bottom up, a node whose pages cost no more than its subtree.
MergeSubtrees ==
    LET cost      == Cost(nodes, alive)
        collapsed == {i \in alive : /\ Children(nodes, alive, i) # {}
                                    /\ Span(nodes[i]) <= Expanded(nodes, alive, cost, i)}
        gone      == {j \in alive : Ancestors(nodes)[j] \cap collapsed # {}}
    IN
    /\ phase = "subtrees"
    /\ nodes' = [i \in DOMAIN nodes |->
                    IF i \in collapsed
                    THEN [nodes[i] EXCEPT !.holds = UNION {nodes[j].holds :
                                                j \in Subtree(nodes, i) \cap alive}]
                    ELSE nodes[i]]
    /\ alive' = alive \ gone
    /\ phase' = IF quiet /\ collapsed = {} THEN "flatten" ELSE "siblings"
    /\ UNCHANGED <<ends, layout, frames, levels, rest, last, stack, quiet, built>>

\* flatten keeps the order; the result is read again.
Flatten ==
    /\ phase = "flatten"
    /\ phase' = IF Accepts(nodes, alive) THEN "done" ELSE "refused"
    /\ UNCHANGED <<ends, layout, frames, levels, rest, last, nodes, stack, alive,
                   quiet, built>>

TreeNext ==
    \/ \E t \in Titles, l \in 1..MaxLevel :
         \/ \E line \in 1..Total : Heading(t, l, line)
         \/ \E p \in DOMAIN ends, line \in 0..Total : Bookmark(t, l, p, line)
    \/ Assemble \/ PageFallback \/ Push \/ Promote
    \/ ReadForest \/ MergeSiblings \/ MergeSubtrees \/ Flatten

TreeSpec == TreeInit /\ [][TreeNext]_treeVars
---------------------------------------------------------------------------
\* The tree that is built covers every line from its roots, each section lies
\* within its parent, and the optimizer never refuses it or its own result, which
\* would fail the whole index build.
TreeCovers ==
    /\ phase # "refused"
    /\ phase = "tree" =>
         /\ \A line \in 1..Total : \E i \in DOMAIN nodes :
              nodes[i].parent = Root /\ line \in nodes[i].lineStart..nodes[i].lineEnd
         /\ \A i \in DOMAIN nodes : \A a \in Ancestors(nodes)[i] :
              nodes[i].lineStart..nodes[i].lineEnd \subseteq nodes[a].lineStart..nodes[a].lineEnd

\* Each section of the tree that was built, with its title and all of its lines, is
\* in exactly one section of the optimized tree.
MergeKeeps ==
    phase \in {"siblings", "subtrees", "flatten", "done"} =>
        \A o \in DOMAIN built : \E i \in alive :
            /\ o \in nodes[i].holds
            /\ built[o].lineStart..built[o].lineEnd \subseteq nodes[i].lineStart..nodes[i].lineEnd
            /\ \A j \in alive \ {i} : o \notin nodes[j].holds

\* What the tests call the frontier cost: the longest way to a leaf, or to the pages
\* that the children of a section leave out, and the pages to read there.
FrontierCost(n, live, i) ==
    LET below == Subtree(n, i) \cap live
        Steps(j) == Cardinality(Ancestors(n)[j] \cap below)
    IN Max({Steps(j) + (IF Children(n, live, j) = {} THEN Span(n[j])
                        ELSE IF Residual(n, live, j) > 0 THEN 1 + Residual(n, live, j) ELSE 0)
            : j \in below})

\* Finding a page in a section of the optimized tree is not dearer than it was, and in
\* a section that still has children it is cheaper than to read all of its pages, so
\* that no further collapse would pay.
NeverDearer ==
    phase = "done" =>
        \A i \in alive :
            /\ FrontierCost(nodes, alive, i) <= FrontierCost(built, DOMAIN built, i)
            /\ Children(nodes, alive, i) # {} =>
                 FrontierCost(nodes, alive, i) < Span(nodes[i])
===============================================================================

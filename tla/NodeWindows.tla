----------------------------- MODULE NodeWindows -----------------------------
(***************************************************************************)
(* Reading a node of a document in bounded windows: read_node_window,      *)
(* TextView and hit_from_bytes of gptgrep-core/src/lib.rs, as the host     *)
(* uses them, for reads that go on at next_offset and for the second read  *)
(* of a cited window (Evidence::finish).                                   *)
(*                                                                         *)
(* A text is a sequence of characters of one or more bytes; "n" ends a     *)
(* line.  Freshness and generations are in CorpusSearch and HostSession.   *)
(***************************************************************************)
EXTENDS Naturals, Sequences, FiniteSets, FiniteSetsExt

CONSTANTS
    Widths,   \* bytes of each character
    MaxChars, \* bound on the length of a text
    Budgets   \* values of max_bytes

ASSUME ReadAssumption ==
    /\ \A c \in DOMAIN Widths : Widths[c] \in Nat \ {0}
    /\ MaxChars \in Nat /\ Budgets \subseteq Nat

VARIABLES
    text,     \* the canonical text
    section,  \* first and last line of the node
    first, offset,  \* where the reader started, and reads next
    eof,      \* no next_offset is left
    windows   \* windows that were read

nodeVars == <<text, section, first, offset, eof, windows>>

\* Byte offsets of the characters' ends.
Ends(t) ==
    LET end[k \in 0..Len(t)] == IF k = 0 THEN 0 ELSE end[k - 1] + Widths[t[k]]
    IN end
Boundaries == {Ends(text)[k] : k \in 0..Len(text)}
Size       == Max(Boundaries)

\* TextView::new: a line starts after each "n" but the last character.
Starts(t) == {0} \cup {Ends(t)[k] : k \in {j \in 1..Len(t) : t[j] = "n" /\ j < Len(t)}}
Lines     == Cardinality(Starts(text))
LineOf(byte)    == Cardinality({s \in Starts(text) : s <= byte})
StartOf(line)   == CHOOSE s \in Starts(text) : LineOf(s) = line

\* node_bytes.
NodeStart == StartOf(section[1])
NodeEnd   == IF section[2] < Lines THEN StartOf(section[2] + 1) ELSE Size

NodeInit ==
    /\ text \in UNION {[1..n -> DOMAIN Widths] : n \in 1..MaxChars}
    /\ \E a, b \in 1..Lines : a <= b /\ section = <<a, b>>
    /\ first \in {b - NodeStart : b \in Boundaries \cap NodeStart..NodeEnd}
    /\ offset = first /\ eof = FALSE /\ windows = <<>>

\* truncate: the last boundary within the budget.
Cut(from, max) ==
    IF NodeEnd - from <= max THEN NodeEnd
                             ELSE Max({b \in Boundaries : b <= from + max})

\* The lines of a window.  An empty one at the end stays on the node's last line.
\* Counts the line after a window that ends with its line.
FaultyLastLine(from, to) == Max({LineOf(to), LineOf(from)})

LastLine(from, to) ==
    Max({Cardinality({s \in Starts(text) : s < to}), LineOf(from)})

\* read_node_window at a valid offset; an error if the next character is too large.
Window(at, max) ==
    LET from == NodeStart + at
        to   == Cut(from, max)
        end  == from = to /\ to = NodeEnd
    IN [from |-> from, to |-> to,
        lines |-> IF end THEN <<section[2], section[2]>>
                         ELSE <<LineOf(from), LastLine(from, to)>>,
        next |-> IF to < NodeEnd THEN to - NodeStart ELSE 0]

Fails(at, max) == NodeStart + at < NodeEnd /\ Cut(NodeStart + at, max) = NodeStart + at

\* The reader goes on at the next offset, after an error with another budget.
Read(max) ==
    LET w == Window(offset, max) IN
    /\ ~eof /\ ~Fails(offset, max)
    /\ windows' = Append(windows, w)
    /\ offset' = IF w.next = 0 THEN offset ELSE w.next
    /\ eof' = (w.next = 0)
    /\ UNCHANGED <<text, section, first>>

NodeNext == \E max \in Budgets : Read(max)

NodeSpec == NodeInit /\ [][NodeNext]_nodeVars
---------------------------------------------------------------------------
\* The windows of a reader join without a gap or an overlap and end with the node,
\* each names the lines of its bytes, which are lines of the node, and the second
\* read of a citation, with the window's length as its budget, finds it again.
WindowsJoin ==
    /\ \A i \in DOMAIN windows :
         LET w == windows[i] IN
         /\ w.from = IF i = 1 THEN NodeStart + first ELSE windows[i - 1].to
         /\ w.from = w.to => i = 1 /\ NodeStart + first = NodeEnd
         /\ w.from < w.to =>
              /\ w.lines = <<LineOf(w.from), LineOf(w.to - 1)>>
              /\ Window(w.from - NodeStart, w.to - w.from) = w
         /\ section[1] <= w.lines[1] /\ w.lines[2] <= section[2]
    /\ eof => windows[Len(windows)].to = NodeEnd
===============================================================================

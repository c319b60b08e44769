----------------------------- MODULE MCAlgorithms -----------------------------
(***************************************************************************)
(* CandidateView, PageTree, NodeWindows and HintScan share no state in the *)
(* code: one behaviour takes the steps of one of them, the others rest.    *)
(***************************************************************************)
EXTENDS MCCandidateView, NodeWindows, PageTree, HintScan, TLC

VARIABLE part  \* the algorithm of this behaviour

\* Short documents with lines to share, and long ones with pages to route to.
MCShapes == <<2>> :> 4 @@ <<2, 4>> :> 3 @@ <<1, 3, 4>> :> 2 @@ <<1, 2, 3, 4, 5>> :> 2

\* A character of one byte, one of two, and the end of a line.
MCWidths == [x |-> 1, w |-> 2, n |-> 1]

view == <<scope, mode, matches, gone, pc, hits, routed, selected, scored, coverage>>
all  == <<part, view, treeVars, nodeVars, scanVars>>

ViewRests ==
    /\ scope = <<Flat(1)>> /\ mode = "lexical" /\ matches = <<>> /\ gone = {}
    /\ pc = "rests" /\ hits = <<>> /\ routed = {} /\ selected = <<>>
    /\ scored = {} /\ coverage = NothingCovered

TreeRests ==
    /\ ends = <<1>> /\ layout = <<>> /\ frames = <<>> /\ levels = {}
    /\ phase = "input" /\ rest = {} /\ last = None
    /\ nodes = <<>> /\ stack = {} /\ alive = {} /\ quiet = FALSE /\ built = <<>>

NodeRests ==
    /\ text = <<"x">> /\ section = <<1, 1>> /\ first = 0
    /\ offset = 0 /\ eof = FALSE /\ windows = <<>>

ScanRests ==
    /\ stage = "rests" /\ anchors = <<>> /\ todo = {} /\ covered = 0 /\ priorEnd = 0
    /\ sizes = <<>> /\ cuts = <<>> /\ planned = 0 /\ scores = <<>> /\ packet = NoPacket

AllInit ==
    \/ part = "view" /\ ViewInit /\ TreeRests /\ NodeRests /\ ScanRests
    \/ part = "tree" /\ ViewRests /\ TreeInit /\ NodeRests /\ ScanRests
    \/ part = "node" /\ ViewRests /\ TreeRests /\ NodeInit /\ ScanRests
    \/ part = "scan" /\ ViewRests /\ TreeRests /\ NodeRests /\ ScanInit

AllNext ==
    \/ part = "view" /\ ViewNext /\ UNCHANGED <<part, treeVars, nodeVars, scanVars>>
    \/ part = "tree" /\ TreeNext /\ UNCHANGED <<part, view, nodeVars, scanVars>>
    \/ part = "node" /\ NodeNext /\ UNCHANGED <<part, view, treeVars, scanVars>>
    \/ part = "scan" /\ ScanNext /\ UNCHANGED <<part, view, treeVars, nodeVars>>

AllSpec == AllInit /\ [][AllNext]_all
===============================================================================

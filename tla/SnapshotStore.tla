---------------------------- MODULE SnapshotStore ---------------------------
(***************************************************************************)
(* What the index promises to its readers: a register that holds one whole *)
(* snapshot at a time.  A reader that has opened a snapshot keeps it,      *)
(* whatever is published meanwhile, and answers with evidence from that    *)
(* snapshot and no other.                                                  *)
(***************************************************************************)
CONSTANTS Evidence,   \* texts of documents
          Readers

VARIABLES latest,     \* the published snapshot; empty if there is none
          view,       \* the snapshot that a reader has open
          answer      \* the evidence that it has delivered

vars == <<latest, view, answer>>

Init ==
    /\ latest = {}
    /\ view = [r \in Readers |-> {}]
    /\ answer = [r \in Readers |-> {}]

Publish ==
    /\ latest' \in (SUBSET Evidence) \ {{}}
    /\ UNCHANGED <<view, answer>>

Open(r) ==
    /\ view[r] = {} /\ latest # {}
    /\ view' = [view EXCEPT ![r] = latest]
    /\ UNCHANGED <<latest, answer>>

Deliver(r) ==
    /\ view[r] # {} /\ answer[r] = {}
    /\ \E hits \in SUBSET view[r] : answer' = [answer EXCEPT ![r] = hits]
    /\ UNCHANGED <<latest, view>>

Close(r) ==
    /\ view' = [view EXCEPT ![r] = {}]
    /\ answer' = [answer EXCEPT ![r] = {}]
    /\ UNCHANGED latest

\* The machine stops: every reader is gone at once.
CloseAll ==
    /\ view' = [r \in Readers |-> {}]
    /\ answer' = [r \in Readers |-> {}]
    /\ UNCHANGED latest

Next == Publish \/ CloseAll \/ \E r \in Readers : Open(r) \/ Deliver(r) \/ Close(r)

Spec == Init /\ [][Next]_vars
============================================================================

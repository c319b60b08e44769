--------------------------- MODULE OverlayReaders ---------------------------
(***************************************************************************)
(* Askers: readers of the navigation overlay (read_navigation_overlay and  *)
(* selected_document_hints of gptgrep-core/src/navigation_overlay.rs)      *)
(* beside the writers of IndexWriter.  They take no lock: CURRENT.json and *)
(* NAVIGATION.json are two files, read several times each, with a new      *)
(* generation, another overlay or an edit possible between any two reads.  *)
(***************************************************************************)
EXTENDS IndexWriter

CONSTANTS Askers,     \* processes that ask for navigation hints
          MaxReads    \* bound on the number of times they ask

ASSUME AskerAssumption == MaxReads \in Nat

VARIABLES
    apc,    \* where each asker is
    bound,  \* its BoundNavigationOverlay, and the document it selects
    reads

askerVars == <<apc, bound, reads>>
hintVars == <<writerVars, askerVars>>

Unbound == [base |-> NoPointer, overlay |-> NoOverlay, doc |-> 0,
            witnessed |-> FALSE]

HintInit ==
    /\ Init
    /\ apc = [r \in Askers |-> "idle"]
    /\ bound = [r \in Askers |-> Unbound]
    /\ reads = 0

Move(r, label) == apc' = [apc EXCEPT ![r] = label]

Drop(r) ==
    /\ Move(r, "idle")
    /\ bound' = [bound EXCEPT ![r] = Unbound]

---------------------------------------------------------------------------
(* open_base: pointer, snapshot, and the pointer again.                    *)

BindPointer(r) ==
    /\ apc[r] = "idle" /\ reads < MaxReads
    /\ current # NoPointer
    /\ reads' = reads + 1
    /\ bound' = [bound EXCEPT ![r].base = current]
    /\ Move(r, "opening")
    /\ UNCHANGED writerVars

\* Snapshot::open reads CURRENT.json for itself.
OpenSnapshot(r) ==
    LET same == /\ current.gen = bound[r].base.gen
                /\ disk[current.gen].manifest = current.manifest IN
    /\ apc[r] = "opening"
    /\ \/ same /\ Move(r, "base_opened") /\ UNCHANGED bound
       \/ ~same /\ Drop(r)
    /\ UNCHANGED <<writerVars, reads>>

\* The three places of check_current, and what follows each of them; the last
\* two are check_pointers, before and after the selected document is validated.
AfterBase == [base_opened   |-> "publication",
              base_read     |-> "overlay_read",
              base_selected |-> "overlay_selected",
              base_validated |-> "overlay_validated"]
AfterOverlay == [overlay_read      |-> "bound",
                 overlay_selected  |-> "validating",
                 overlay_validated |-> "hinted"]

\* Looks at the navigation pointer only.
FaultyCheckCurrent(r) ==
    /\ apc[r] \in DOMAIN AfterBase
    /\ Move(r, AfterBase[apc[r]])
    /\ UNCHANGED <<bound, writerVars, reads>>

CheckCurrent(r) ==
    /\ apc[r] \in DOMAIN AfterBase
    /\ \/ current = bound[r].base /\ Move(r, AfterBase[apc[r]]) /\ UNCHANGED bound
       \/ current # bound[r].base /\ Drop(r)
    /\ UNCHANGED <<writerVars, reads>>

CheckPublication(r) ==
    /\ apc[r] \in DOMAIN AfterOverlay
    /\ \/ /\ navigation = bound[r].overlay
          /\ Move(r, AfterOverlay[apc[r]])
          /\ UNCHANGED bound
       \/ navigation # bound[r].overlay /\ Drop(r)
    /\ UNCHANGED <<writerVars, reads>>

\* The publication must be for the bound snapshot, its artifact must be there
\* and cover it.
ReadPublication(r) ==
    LET base == bound[r].base
        valid == /\ navigation.gen = base.gen /\ navigation.manifest = base.manifest
                 /\ navigation \in artifacts
                 /\ navigation.docs = Paths(base.manifest) IN
    /\ apc[r] = "publication"
    /\ \/ /\ valid
          /\ bound' = [bound EXCEPT ![r].overlay = navigation]
          /\ Move(r, "base_read")
       \/ ~valid /\ Drop(r)
    /\ UNCHANGED <<writerVars, reads>>

\* A caller keeps the bound overlay and asks for one document of it.
Select(r) ==
    /\ apc[r] = "bound"
    /\ \E d \in bound[r].overlay.docs : bound' = [bound EXCEPT ![r].doc = d]
    /\ Move(r, "base_selected")
    /\ UNCHANGED <<writerVars, reads>>

\* validate_document_windows.  History: was the base current at this moment?
ValidateWindows(r) ==
    LET base == bound[r].base
        d == bound[r].doc
        valid == Fresh(base.manifest, d) /\ TextIntact(base.gen, base.manifest, d) IN
    /\ apc[r] = "validating"
    /\ \/ /\ valid
          /\ bound' = [bound EXCEPT ![r].witnessed = (current = base)]
          /\ Move(r, "base_validated")
       \/ ~valid /\ Drop(r)
    /\ UNCHANGED <<writerVars, reads>>

\* The hints are used, and the overlay is kept for the next document or
\* dropped.
Use(r) ==
    /\ apc[r] = "hinted"
    /\ \/ /\ Move(r, "bound")
          /\ bound' = [bound EXCEPT ![r].doc = 0, ![r].witnessed = FALSE]
       \/ Drop(r)
    /\ UNCHANGED <<writerVars, reads>>

Ask(r) ==
    \/ BindPointer(r) \/ OpenSnapshot(r) \/ CheckCurrent(r) \/ CheckPublication(r)
    \/ ReadPublication(r) \/ Select(r) \/ ValidateWindows(r) \/ Use(r)

HintNext ==
    \/ Next /\ UNCHANGED askerVars
    \/ \E r \in Askers : Ask(r)

HintSpec == HintInit /\ [][HintNext]_hintVars
---------------------------------------------------------------------------

\* Hints of a document are handed out only if there was a moment at which all
\* of this held together: the overlay's snapshot was the current one, the
\* source of the document had the content of that snapshot, and the text in the
\* snapshot was whole.  Two files and a source are read one after the other,
\* without a lock; that no generation is ever named twice makes it true.
HintsWitnessed == \A r \in Askers : apc[r] = "hinted" => bound[r].witnessed
============================================================================

----------------------------- MODULE IndexWriter ----------------------------
(***************************************************************************)
(* The writers of one corpus: index_with_options of gptgrep-core/src/lib.rs *)
(* and publish of gptgrep-core/src/navigation_overlay.rs, run by any number *)
(* of processes on one .gptgrep directory, while the user edits the source *)
(* documents and any process may fail or be killed at any point.           *)
(*                                                                         *)
(* A step is the code between two accesses to state that others share: a   *)
(* source file, the lock, CURRENT.json, NAVIGATION.json.  A write into a   *)
(* generation directory may stop halfway: what was written of that file is *)
(* then as useless as a missing one, which is how it is modelled.          *)
(*                                                                         *)
(* The content of a source is a number: the digest of a content is the     *)
(* content itself, TextOf gives the text the parser extracts from it.  A   *)
(* manifest is its set of documents and stands for its own digest.         *)
(***************************************************************************)
EXTENDS Naturals, FiniteSets

CONSTANTS
    Docs,      \* paths of documents, in their sorted order
    Writers,   \* processes
    Gens,      \* names of generations
    TextOf,    \* text extracted from a content; NoText if it cannot be parsed
    MaxFiles,  \* --max-files
    Restores,  \* whether an edit may restore an earlier content
    MaxEdits,  \* bound on the number of edits
    MaxRuns    \* bound on the number of runs

Absent == 0
NoText == 0
NoGen  == "none"
NoOne  == "none"
Contents == 1..(1 + MaxEdits)

ASSUME CorpusAssumption ==
    /\ Docs \subseteq Nat
    /\ MaxFiles \in Nat /\ MaxEdits \in Nat /\ MaxRuns \in Nat
    /\ TextOf \in [Contents -> Nat]
    /\ Restores \in BOOLEAN
    /\ NoGen \notin Gens
    /\ NoOne \notin Writers

VARIABLES
    source,      \* contents of the source documents
    disk,        \* generation directories
    current,     \* CURRENT.json
    artifacts,   \* overlay artifacts
    navigation,  \* NAVIGATION.json
    lock,        \* holder of write.lock
    pc,          \* where each process is
    job,         \* its local variables
    published,   \* history: generations that CURRENT.json has pointed to
    edits, runs  \* counters for the bounds

userVars  == <<source, edits>>
indexVars == <<disk, current, published>>
overlayVars == <<artifacts, navigation>>
writerVars == <<source, disk, current, artifacts, navigation, lock, pc, job,
                published, edits, runs>>

NoDir     == [made |-> FALSE, text |-> {}, manifest |-> {}, trigram |-> {}]
NoPointer == [gen |-> NoGen, manifest |-> {}]
NoOverlay == [gen |-> NoGen, manifest |-> {}, docs |-> {}]
NoJob     == [kind |-> "none", gen |-> NoGen, todo |-> {}, doc |-> 0,
              digest |-> Absent, text |-> NoText, manifest |-> {},
              base |-> NoPointer, overlay |-> NoOverlay]

Paths(manifest) == {e.path : e \in manifest}
Texts(manifest) == {[path |-> e.path, text |-> e.text] : e \in manifest}
First(todo) == CHOOSE d \in todo : \A e \in todo : d <= e

\* What the parser makes of a file; nothing of one that is not there.
Extract(content) == IF content = Absent THEN NoText ELSE TextOf[content]

\* Snapshot::fresh: the source still has the digest in the manifest.
Fresh(manifest, d) ==
    \E e \in manifest : e.path = d /\ e.source = source[d]

TextOnDisk(gen, d) == {e \in disk[gen].text : e.path = d}

\* Takes what it finds in the text directory.
FaultyTextIntact(gen, manifest, d) == TextOnDisk(gen, d) # {}

\* Snapshot::text: the canonical text is there and has its digest.
TextIntact(gen, manifest, d) ==
    TextOnDisk(gen, d) # {} /\ TextOnDisk(gen, d) \subseteq Texts(manifest)

Init ==
    /\ source \in [Docs -> {Absent, 1}]
    /\ disk = [g \in Gens |-> NoDir]
    /\ current = NoPointer
    /\ artifacts = {} /\ navigation = NoOverlay
    /\ lock = NoOne
    /\ pc = [w \in Writers |-> "idle"]
    /\ job = [w \in Writers |-> NoJob]
    /\ published = {}
    /\ edits = 0 /\ runs = 0

Goto(w, label) == pc' = [pc EXCEPT ![w] = label]

\* The run ends; the operating system drops its lock.
Exit(w) ==
    /\ Goto(w, "idle")
    /\ job' = [job EXCEPT ![w] = NoJob]
    /\ lock' = IF lock = w THEN NoOne ELSE lock

---------------------------------------------------------------------------
(* Both writers.                                                           *)

StartIndex(w) ==
    /\ pc[w] = "idle" /\ runs < MaxRuns
    /\ runs' = runs + 1
    /\ job' = [job EXCEPT ![w] = [NoJob EXCEPT !.kind = "index"]]
    /\ Goto(w, "starting")
    /\ UNCHANGED <<userVars, indexVars, overlayVars, lock>>

\* An overlay has been built for the snapshot of the moment, from the windows
\* of some or all of its documents.
StartOverlay(w) ==
    /\ pc[w] = "idle" /\ runs < MaxRuns
    /\ current # NoPointer
    /\ runs' = runs + 1
    /\ \E docs \in SUBSET Paths(current.manifest) :
         job' = [job EXCEPT ![w] = [NoJob EXCEPT !.kind = "overlay",
                   !.overlay = [gen |-> current.gen,
                                manifest |-> current.manifest, docs |-> docs]]]
    /\ Goto(w, "starting")
    /\ UNCHANGED <<userVars, indexVars, overlayVars, lock>>

\* Works without the lock when it cannot have it.
FaultyTakeLock(w) ==
    /\ pc[w] = "starting"
    /\ lock' = w
    /\ Goto(w, IF job[w].kind = "index" THEN "making" ELSE "binding")
    /\ UNCHANGED <<job, userVars, indexVars, overlayVars, runs>>

\* try_lock_exclusive on write.lock: another writer is an error, not a wait.
TakeLock(w) ==
    /\ pc[w] = "starting"
    /\ \/ /\ lock = NoOne
          /\ lock' = w
          /\ Goto(w, IF job[w].kind = "index" THEN "making" ELSE "binding")
          /\ UNCHANGED job
       \/ lock # NoOne /\ Exit(w)
    /\ UNCHANGED <<userVars, indexVars, overlayVars, runs>>

\* An error, a failed write or a kill.  What is on disk stays as it is.
Fail(w) ==
    /\ pc[w] # "idle"
    /\ Exit(w)
    /\ UNCHANGED <<userVars, indexVars, overlayVars, runs>>

---------------------------------------------------------------------------
(* index_with_options.                                                     *)

\* Takes over the directory of that name if there is one.
FaultyMakeGeneration(w) ==
    /\ pc[w] = "making"
    /\ \E g \in Gens :
         /\ disk' = [disk EXCEPT ![g].made = TRUE]
         /\ job' = [job EXCEPT ![w].gen = g]
    /\ Goto(w, "walking")
    /\ UNCHANGED <<lock, userVars, current, published, overlayVars, runs>>

\* The name is the time and the process id; create_dir refuses a name that is
\* taken.
MakeGeneration(w) ==
    /\ pc[w] = "making"
    /\ \E g \in Gens :
         \/ /\ ~disk[g].made
            /\ disk' = [disk EXCEPT ![g].made = TRUE]
            /\ job' = [job EXCEPT ![w].gen = g]
            /\ Goto(w, "walking")
            /\ UNCHANGED lock
         \/ disk[g].made /\ Exit(w) /\ UNCHANGED disk
    /\ UNCHANGED <<userVars, current, published, overlayVars, runs>>

\* The documents there are now, at least one and at most MaxFiles.
Walk(w) ==
    LET found == {d \in Docs : source[d] # Absent} IN
    /\ pc[w] = "walking"
    /\ \/ /\ found # {} /\ Cardinality(found) <= MaxFiles
          /\ job' = [job EXCEPT ![w].todo = found]
          /\ Goto(w, "reading")
          /\ UNCHANGED lock
       \/ (found = {} \/ Cardinality(found) > MaxFiles) /\ Exit(w)
    /\ UNCHANGED <<userVars, indexVars, overlayVars, runs>>

\* Hash the source,
ReadSource(w) ==
    LET d == First(job[w].todo) IN
    /\ pc[w] = "reading" /\ job[w].todo # {}
    /\ \/ /\ source[d] # Absent
          /\ job' = [job EXCEPT ![w].doc = d, ![w].digest = source[d]]
          /\ Goto(w, "parsing")
          /\ UNCHANGED lock
       \/ source[d] = Absent /\ Exit(w)
    /\ UNCHANGED <<userVars, indexVars, overlayVars, runs>>

\* parse_path opens the source again,
Parse(w) ==
    LET text == Extract(source[job[w].doc]) IN
    /\ pc[w] = "parsing"
    /\ \/ /\ text # NoText
          /\ job' = [job EXCEPT ![w].text = text]
          /\ Goto(w, "rechecking")
          /\ UNCHANGED lock
       \/ text = NoText /\ Exit(w)
    /\ UNCHANGED <<userVars, indexVars, overlayVars, runs>>

\* Keeps the document although the source has changed.
FaultyRecheck(w) ==
    LET d == job[w].doc IN
    /\ pc[w] = "rechecking"
    /\ disk' = [disk EXCEPT ![job[w].gen].text =
                  @ \cup {[path |-> d, text |-> job[w].text]}]
    /\ job' = [job EXCEPT ![w].todo = @ \ {d},
                 ![w].manifest = @ \cup
                    {[path |-> d, source |-> job[w].digest, text |-> job[w].text]}]
    /\ Goto(w, "reading")
    /\ UNCHANGED <<lock, userVars, current, published, overlayVars, runs>>

\* and the digest must still be the first one when the text is written.
Recheck(w) ==
    LET d == job[w].doc IN
    /\ pc[w] = "rechecking"
    /\ \/ /\ source[d] = job[w].digest
          /\ disk' = [disk EXCEPT ![job[w].gen].text =
                        @ \cup {[path |-> d, text |-> job[w].text]}]
          /\ job' = [job EXCEPT ![w].todo = @ \ {d},
                       ![w].manifest = @ \cup
                          {[path |-> d, source |-> job[w].digest,
                            text |-> job[w].text]}]
          /\ Goto(w, "reading")
          /\ UNCHANGED lock
       \/ source[d] # job[w].digest /\ Exit(w) /\ UNCHANGED disk
    /\ UNCHANGED <<userVars, current, published, overlayVars, runs>>

WriteManifest(w) ==
    /\ pc[w] = "reading" /\ job[w].todo = {}
    /\ disk' = [disk EXCEPT ![job[w].gen].manifest = job[w].manifest]
    /\ Goto(w, "indexing")
    /\ UNCHANGED <<job, lock, userVars, current, published, overlayVars, runs>>

\* gptgrep_index::build over the text directory.
BuildTrigram(w) ==
    /\ pc[w] = "indexing"
    /\ disk' = [disk EXCEPT ![job[w].gen].trigram = disk[job[w].gen].text]
    /\ Goto(w, "pointing")
    /\ UNCHANGED <<job, lock, userVars, current, published, overlayVars, runs>>

\* The pointer is renamed over CURRENT.json.
PublishIndex(w) ==
    /\ pc[w] = "pointing"
    /\ current' = [gen |-> job[w].gen, manifest |-> job[w].manifest]
    /\ published' = published \cup {job[w].gen}
    /\ Exit(w)
    /\ UNCHANGED <<userVars, disk, overlayVars, runs>>

---------------------------------------------------------------------------
(* publish of the navigation overlay.                                      *)

\* open_base, validate_structure and the complete coverage.
OpenBase(w) ==
    LET overlay == job[w].overlay IN
    /\ pc[w] = "binding"
    /\ \/ /\ current # NoPointer
          /\ disk[current.gen].manifest = current.manifest
          /\ overlay.gen = current.gen /\ overlay.manifest = current.manifest
          /\ overlay.docs = Paths(current.manifest)
          /\ job' = [job EXCEPT ![w].base = current, ![w].todo = overlay.docs]
          /\ Goto(w, "validating")
          /\ UNCHANGED lock
       \/ /\ \/ disk[current.gen].manifest # current.manifest
             \/ overlay.gen # current.gen \/ overlay.manifest # current.manifest
             \/ overlay.docs # Paths(current.manifest)
          /\ Exit(w)
    /\ UNCHANGED <<userVars, indexVars, overlayVars, runs>>

\* validate_document_windows, document by document.
ValidateDocument(w) ==
    LET d == First(job[w].todo)
        base == job[w].base
        valid == /\ Fresh(base.manifest, d)
                 /\ TextIntact(base.gen, base.manifest, d) IN
    /\ pc[w] = "validating" /\ job[w].todo # {}
    /\ \/ /\ valid
          /\ job' = [job EXCEPT ![w].todo = @ \ {d}]
          /\ UNCHANGED <<pc, lock>>
       \/ ~valid /\ Exit(w)
    /\ UNCHANGED <<userVars, indexVars, overlayVars, runs>>

\* The artifact is kept under its digest before the pointer names it.
RetainArtifact(w) ==
    /\ pc[w] = "validating" /\ job[w].todo = {}
    /\ artifacts' = artifacts \cup {job[w].overlay}
    /\ Goto(w, "checking")
    /\ UNCHANGED <<job, lock, userVars, indexVars, navigation, runs>>

CheckBase(w) ==
    /\ pc[w] = "checking"
    /\ \/ current = job[w].base /\ Goto(w, "naming") /\ UNCHANGED <<job, lock>>
       \/ current # job[w].base /\ Exit(w)
    /\ UNCHANGED <<userVars, indexVars, overlayVars, runs>>

PublishOverlay(w) ==
    /\ pc[w] = "naming"
    /\ navigation' = job[w].overlay
    /\ Exit(w)
    /\ UNCHANGED <<userVars, indexVars, artifacts, runs>>

---------------------------------------------------------------------------

\* The user writes, deletes or creates a document: a content that was never
\* there before, or an earlier one if Restores.
Edit(d) ==
    /\ edits < MaxEdits
    /\ edits' = edits + 1
    /\ \E content \in {Absent, edits + 2} \cup
                      (IF Restores THEN 1..(edits + 1) ELSE {}) :
         /\ content # source[d]
         /\ source' = [source EXCEPT ![d] = content]
    /\ UNCHANGED <<indexVars, overlayVars, lock, pc, job, runs>>

Write(w) ==
    \/ StartIndex(w) \/ StartOverlay(w) \/ TakeLock(w) \/ Fail(w)
    \/ MakeGeneration(w) \/ Walk(w) \/ ReadSource(w) \/ Parse(w) \/ Recheck(w)
    \/ WriteManifest(w) \/ BuildTrigram(w) \/ PublishIndex(w)
    \/ OpenBase(w) \/ ValidateDocument(w) \/ RetainArtifact(w) \/ CheckBase(w)
    \/ PublishOverlay(w)

Next == (\E w \in Writers : Write(w)) \/ (\E d \in Docs : Edit(d))

Spec == Init /\ [][Next]_writerVars
---------------------------------------------------------------------------

\* A generation directory that is whole: a manifest of at least one document,
\* the text of each of its documents and nothing else, the trigram index of
\* exactly those texts, and each text that of the very content its source digest
\* was taken of, although the source is opened anew for parsing.
Complete(gen, manifest) ==
    /\ manifest # {}
    /\ disk[gen].manifest = manifest
    /\ disk[gen].text = Texts(manifest)
    /\ disk[gen].trigram = disk[gen].text
    /\ \A e \in manifest : e.text = TextOf[e.source]

\* Whatever runs fail, are killed or overlap, CURRENT.json names a whole
\* generation: "A failed rebuild cannot replace the current generation.
\* Readers see a complete snapshot."
CurrentComplete ==
    current # NoPointer => Complete(current.gen, current.manifest)

\* "Each complete rebuild publishes a new immutable generation": no step of any
\* later run touches the directory of a generation that was once published.
PublishedNeverChanges ==
    [][\A g \in published : disk'[g] = disk[g]]_writerVars

\* An overlay becomes active only for the snapshot that is current at that very
\* moment, however long its validation took, and its artifact is there.
NavigationBound ==
    [][navigation' # navigation =>
         /\ navigation'.gen = current.gen
         /\ navigation'.manifest = current.manifest
         /\ navigation'.docs = Paths(current.manifest)
         /\ navigation' \in artifacts]_writerVars

\* What is current is replaced only as a whole: a published generation keeps its
\* files, and an overlay is of the snapshot that is current when it becomes active.
PublicationSound == PublishedNeverChanges /\ NavigationBound
============================================================================

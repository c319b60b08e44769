---------------------------- MODULE IndexProofs ----------------------------
(***************************************************************************)
(* The index and its readers, for any documents, queries, edits and runs   *)
(* of any number of writers and readers.                                   *)
(*                                                                         *)
(* The writers: Inv is inductive.  Its centre is that the holder of the    *)
(* lock works on a generation that was never published, whose directory    *)
(* holds what its job has written so far; the rest says what that is at    *)
(* each step.  Inv holds of the files that a power loss may leave as well, *)
(* which is why the readers can use it; WholeOK adds what holds as long as *)
(* there is none.                                                          *)
(*                                                                         *)
(* The readers, with power losses, and the refinement of SnapshotStore: a  *)
(* reader keeps the pointer it opened; Named says of that pointer what     *)
(* holds of every snapshot ever published, and no writer or power loss can *)
(* take it away while the reader runs.  ReaderOK says how far the reader   *)
(* has come: which matches are still to be looked at, and which hits are   *)
(* still to be checked again.                                              *)
(***************************************************************************)
EXTENDS CorpusSearch, OverlayReaders, FiniteSetTheorems, WellFoundedInduction, TLAPS

Written == [path : Docs, text : Nat]
Entry   == [path : Docs, source : Nat, text : Nat]
Dir     == [made : BOOLEAN, text : SUBSET Written, manifest : SUBSET Entry,
            trigram : SUBSET Written]
Pointer == [gen : Gens \cup {NoGen}, manifest : SUBSET Entry]
Overlay == [gen : Gens \cup {NoGen}, manifest : SUBSET Entry, docs : SUBSET Docs]
Job     == [kind : {"none", "index", "overlay"}, gen : Gens \cup {NoGen},
            todo : SUBSET Docs, doc : Nat, digest : Nat, text : Nat,
            manifest : SUBSET Entry, base : Pointer, overlay : Overlay]

Filling  == {"reading", "parsing", "rechecking"}
Finished == {"indexing", "pointing"}
Building == {"walking"} \cup Filling \cup Finished
Bound    == {"validating", "checking", "naming"}
Holding  == {"making", "binding"} \cup Building \cup Bound

TypeOK ==
    /\ edits \in 0..MaxEdits /\ source \in [Docs -> 0..(edits + 1)]
    /\ disk \in [Gens -> Dir] /\ current \in Pointer /\ published \subseteq Gens
    /\ pc \in [Writers -> {"idle", "starting"} \cup Holding]
    /\ job \in [Writers -> Job]

LockOK == \A w \in Writers : pc[w] \in Holding => lock = w

\* A manifest has each document once, with a source and a text.
Proper(manifest) ==
    /\ \A e \in manifest : e.source # Absent /\ e.text # NoText
    /\ \A e, f \in manifest : e.path = f.path => e = f

\* The directory of an index build.
BuildOK(w) ==
    /\ Proper(job[w].manifest)
    /\ pc[w] \in {"starting", "making", "walking"} => job[w].manifest = {}
    /\ pc[w] \in Building =>
         /\ job[w].gen \in Gens \ published /\ disk[job[w].gen].made
         /\ disk[job[w].gen].text = Texts(job[w].manifest)
    /\ pc[w] = "reading" => job[w].todo # {} \/ job[w].manifest # {}
    /\ pc[w] \in Filling => \A e \in job[w].manifest : e.path \notin job[w].todo
    /\ pc[w] \in {"parsing", "rechecking"} =>
         job[w].doc \in job[w].todo /\ job[w].digest # Absent
    /\ pc[w] = "rechecking" => job[w].text # NoText
    /\ pc[w] \in Finished =>
         job[w].manifest # {} /\ disk[job[w].gen].manifest = job[w].manifest
    /\ pc[w] = "pointing" => disk[job[w].gen].trigram = disk[job[w].gen].text

Faithful(manifest) == \A e \in manifest : e.text = TextOf[e.source]

\* Without restored contents, a source that has the first digest again was not
\* changed in between.
FaithOK(w) ==
    Restores = FALSE =>
        /\ Faithful(job[w].manifest)
        /\ pc[w] \in {"parsing", "rechecking"} => job[w].digest \in 1..(edits + 1)
        /\ pc[w] = "rechecking" /\ source[job[w].doc] = job[w].digest =>
             job[w].text = TextOf[job[w].digest]

\* The overlay of a publication.
BindOK(w) ==
    /\ pc[w] \in Bound =>
         /\ job[w].overlay.gen = job[w].base.gen
         /\ job[w].overlay.manifest = job[w].base.manifest
         /\ job[w].overlay.docs = Paths(job[w].base.manifest)
    /\ pc[w] \in {"checking", "naming"} => job[w].overlay \in artifacts
    /\ pc[w] = "naming" => current = job[w].base

\* What stays true of a snapshot that was published, even if its files are lost.
Named(pointer) ==
    /\ pointer.gen \in published /\ pointer.manifest # {}
    /\ Proper(pointer.manifest)
    /\ disk[pointer.gen].trigram \in {{}, Texts(pointer.manifest)}
    /\ Restores = FALSE => Faithful(pointer.manifest)

DiskOK ==
    /\ \A g \in Gens : ~disk[g].made => disk[g].text = {}
    /\ \A g \in published : disk[g].made
    /\ current # NoPointer => Named(current)

\* The files of the current snapshot, as long as none is lost.
WholeOK ==
    current # NoPointer =>
        /\ disk[current.gen].manifest = current.manifest
        /\ disk[current.gen].text = Texts(current.manifest)
        /\ disk[current.gen].trigram = disk[current.gen].text

WriterOK(w) == BuildOK(w) /\ FaithOK(w) /\ BindOK(w)

Inv == TypeOK /\ LockOK /\ DiskOK /\ \A w \in Writers : WriterOK(w)
---------------------------------------------------------------------------
(***************************************************************************)
(* Lemmas on the parts of a step.                                          *)
(***************************************************************************)

\* The first of some documents is one of them.
LEMMA FirstIsOne ==
    ASSUME NEW S \in SUBSET Docs, S # {}
    PROVE  First(S) \in S
<1>1. S \subseteq Nat
  BY CorpusAssumption
<1>2. \E x \in S : \A y \in S : ~(<<y, x>> \in OpToRel(<, Nat))
  BY <1>1, NatLessThanWellFounded, WFMin
<1>3. \E x \in S : \A y \in S : ~(y < x)
  BY <1>1, <1>2 DEF OpToRel
<1>4. \E x \in S : \A y \in S : x <= y
  BY <1>1, <1>3
<1> QED BY <1>4 DEF First

Labels == {"idle", "starting"} \cup Holding

\* A step of one writer: the others stay where they are.
Local(w) ==
    /\ pc' \in [Writers -> Labels] /\ job' \in [Writers -> Job]
    /\ \A v \in Writers \ {w} : pc'[v] = pc[v] /\ job'[v] = job[v]

\* The job of a process that writes nothing.
LEMMA NoJobType == NoJob \in Job
BY DEF NoJob, Job, NoPointer, NoOverlay, Pointer, Overlay, Absent, NoText

\* The end of a job keeps what is said of the process alone.
LEMMA ExitLocal ==
    ASSUME TypeOK, NEW w \in Writers, Exit(w)
    PROVE  Local(w) /\ pc'[w] = "idle" /\ job'[w] = NoJob
BY NoJobType DEF Exit, Goto, Local, Labels, TypeOK

\* A move within a job keeps what is said of the process alone.
LEMMA GotoLocal ==
    ASSUME TypeOK, NEW w \in Writers, NEW label \in Labels, Goto(w, label),
           NEW j \in Job, job' = [job EXCEPT ![w] = j]
    PROVE  Local(w) /\ pc'[w] = label /\ job'[w] = j
BY DEF Goto, Local, Labels, TypeOK
\* A writer that has ended has nothing left to keep.
LEMMA IdleOK ==
    ASSUME NEW w \in Writers, pc'[w] = "idle", job'[w] = NoJob
    PROVE  WriterOK(w)'
BY DEF WriterOK, BuildOK, FaithOK, BindOK, Faithful, Proper, Building, Filling,
       Finished, Bound, NoJob

\* A process that leaves gives up its lock and its job.
LEMMA ExitOK ==
    ASSUME TypeOK, NEW w \in Writers, Exit(w)
    PROVE  Local(w) /\ WriterOK(w)'
BY ExitLocal, IdleOK

\* The writer's own part of each step.
LEMMA StartStep ==
    ASSUME Inv, NEW w \in Writers, StartIndex(w) \/ StartOverlay(w)
    PROVE  Local(w) /\ WriterOK(w)'
<1>1. CASE StartIndex(w)
  <2> DEFINE j == [NoJob EXCEPT !.kind = "index"]
  <2>1. j \in Job /\ j.manifest = {}
    BY NoJobType DEF NoJob, Job
  <2>2. Local(w) /\ pc'[w] = "starting" /\ job'[w] = j
    BY <1>1, <2>1, GotoLocal DEF StartIndex, Inv, Labels
  <2> QED BY <2>1, <2>2 DEF WriterOK, BuildOK, FaithOK, BindOK, Faithful, Proper,
             Building, Filling, Finished, Bound
<1>2. CASE StartOverlay(w)
  <2>1. PICK docs \in SUBSET Paths(current.manifest) :
          job' = [job EXCEPT ![w] = [NoJob EXCEPT !.kind = "overlay",
                    !.overlay = [gen |-> current.gen,
                                 manifest |-> current.manifest, docs |-> docs]]]
    BY <1>2 DEF StartOverlay
  <2> DEFINE j == [NoJob EXCEPT !.kind = "overlay",
                    !.overlay = [gen |-> current.gen,
                                 manifest |-> current.manifest, docs |-> docs]]
  <2>2. [gen |-> current.gen, manifest |-> current.manifest, docs |-> docs] \in Overlay
    BY DEF Inv, TypeOK, Pointer, Overlay, Paths, Entry
  <2>3. j \in Job /\ j.manifest = {}
    BY <2>2, NoJobType DEF NoJob, Job
  <2>4. Local(w) /\ pc'[w] = "starting" /\ job'[w] = j
    BY <1>2, <2>1, <2>3, GotoLocal DEF StartOverlay, Inv, Labels
  <2> QED BY <2>3, <2>4 DEF WriterOK, BuildOK, FaithOK, BindOK, Faithful, Proper,
             Building, Filling, Finished, Bound
<1> QED BY <1>1, <1>2

\* The writer lock is taken.
LEMMA TakeLockStep ==
    ASSUME Inv, NEW w \in Writers, TakeLock(w)
    PROVE  Local(w) /\ WriterOK(w)'
<1>1. CASE Exit(w)
  BY <1>1, ExitOK DEF Inv
<1>2. CASE Goto(w, IF job[w].kind = "index" THEN "making" ELSE "binding") /\ UNCHANGED job
  <2>1. Local(w) /\ pc'[w] \in {"making", "binding"}
    BY <1>2 DEF Goto, Local, Labels, Holding, Inv, TypeOK
  <2>2. pc[w] = "starting" /\ job'[w] = job[w]
    BY <1>2 DEF TakeLock
  <2> QED BY <2>1, <2>2 DEF Inv, WriterOK, BuildOK, FaithOK, BindOK, Faithful, Proper,
             Building, Filling, Finished, Bound
<1> QED BY <1>1, <1>2 DEF TakeLock

\* A generation is made.
LEMMA MakeStep ==
    ASSUME Inv, NEW w \in Writers, MakeGeneration(w)
    PROVE  Local(w) /\ WriterOK(w)'
<1>1. CASE Exit(w)
  BY <1>1, ExitOK DEF Inv
<1>2. ASSUME NEW g \in Gens, ~disk[g].made, disk' = [disk EXCEPT ![g].made = TRUE],
             job' = [job EXCEPT ![w].gen = g], Goto(w, "walking")
      PROVE  Local(w) /\ WriterOK(w)'
  <2>1. /\ job' \in [Writers -> Job] /\ job'[w].gen = g
        /\ job'[w].manifest = job[w].manifest
        /\ \A v \in Writers \ {w} : job'[v] = job[v]
    BY <1>2 DEF Inv, TypeOK, Job
  <2>2. /\ pc' \in [Writers -> Labels] /\ pc'[w] = "walking"
        /\ \A v \in Writers \ {w} : pc'[v] = pc[v]
    BY <1>2 DEF Goto, Labels, Holding, Building, Inv, TypeOK
  <2>3. disk'[g].made /\ disk'[g].text = disk[g].text
    BY <1>2 DEF Inv, TypeOK, Dir
  <2>4. disk[g].text = {} /\ g \notin published
    BY <1>2 DEF Inv, DiskOK
  <2>5. job[w].manifest = {} /\ published' = published
    BY DEF MakeGeneration, Inv, WriterOK, BuildOK
  <2>6. Texts({}) = {}
    BY DEF Texts
  <2> QED BY <2>1, <2>2, <2>3, <2>4, <2>5, <2>6 DEF Local, WriterOK, BuildOK, FaithOK,
             BindOK, Faithful, Proper, Building, Filling, Finished, Bound
<1> QED BY <1>1, <1>2 DEF MakeGeneration

\* The source files are listed.
LEMMA WalkStep ==
    ASSUME Inv, NEW w \in Writers, Walk(w)
    PROVE  Local(w) /\ WriterOK(w)'
<1> DEFINE found == {d \in Docs : source[d] # Absent}
<1>1. CASE Exit(w)
  BY <1>1, ExitOK DEF Inv
<1>2. CASE found # {} /\ job' = [job EXCEPT ![w].todo = found] /\ Goto(w, "reading")
  <2>1. found \in SUBSET Docs
    OBVIOUS
  <2> HIDE DEF found
  <2>2. /\ job' \in [Writers -> Job] /\ job'[w].todo = found
        /\ job'[w].manifest = job[w].manifest /\ job'[w].gen = job[w].gen
        /\ \A v \in Writers \ {w} : job'[v] = job[v]
    BY <1>2, <2>1 DEF Inv, TypeOK, Job
  <2>3. /\ pc' \in [Writers -> Labels] /\ pc'[w] = "reading"
        /\ \A v \in Writers \ {w} : pc'[v] = pc[v]
    BY <1>2 DEF Goto, Labels, Holding, Building, Filling, Inv, TypeOK
  <2>4. pc[w] = "walking" /\ disk' = disk /\ published' = published
    BY DEF Walk, indexVars
  <2> QED BY <1>2, <2>2, <2>3, <2>4 DEF Inv, Local, WriterOK, BuildOK, FaithOK, BindOK,
             Faithful, Proper, Building, Filling, Finished, Bound
<1> QED BY <1>1, <1>2 DEF Walk

\* A source file is read.
LEMMA ReadStep ==
    ASSUME Inv, NEW w \in Writers, ReadSource(w)
    PROVE  Local(w) /\ WriterOK(w)'
<1> DEFINE d == First(job[w].todo)
<1>1. CASE Exit(w)
  BY <1>1, ExitOK DEF Inv
<1>2. CASE /\ source[d] # Absent /\ Goto(w, "parsing")
           /\ job' = [job EXCEPT ![w].doc = d, ![w].digest = source[d]]
  <2>1. d \in job[w].todo /\ d \in Docs
    BY FirstIsOne DEF ReadSource, Inv, TypeOK, Job
  <2>2. /\ d \in Nat /\ source[d] \in Nat /\ source[d] \in 1..(edits + 1)
        /\ source[d] # Absent
    BY <1>2, <2>1, CorpusAssumption DEF Inv, TypeOK, Absent
  <2> HIDE DEF d
  <2>3. /\ job' \in [Writers -> Job] /\ job'[w].doc = d /\ job'[w].digest = source[d]
        /\ job'[w].manifest = job[w].manifest /\ job'[w].gen = job[w].gen
        /\ job'[w].todo = job[w].todo
        /\ \A v \in Writers \ {w} : job'[v] = job[v]
    BY <1>2, <2>2 DEF Inv, TypeOK, Job
  <2>4. /\ pc' \in [Writers -> Labels] /\ pc'[w] = "parsing"
        /\ \A v \in Writers \ {w} : pc'[v] = pc[v]
    BY <1>2 DEF Goto, Labels, Holding, Building, Filling, Inv, TypeOK
  <2>5. pc[w] = "reading" /\ disk' = disk /\ published' = published /\ edits' = edits
    BY DEF ReadSource, indexVars, userVars
  <2> QED BY <2>1, <2>2, <2>3, <2>4, <2>5 DEF Inv, Local, WriterOK, BuildOK, FaithOK,
             BindOK, Faithful, Proper, Building, Filling, Finished, Bound
<1> QED BY <1>1, <1>2 DEF ReadSource

\* A document is parsed.
LEMMA ParseStep ==
    ASSUME Inv, NEW w \in Writers, Parse(w)
    PROVE  Local(w) /\ WriterOK(w)'
<1> DEFINE text == Extract(source[job[w].doc])
<1>1. CASE Exit(w)
  BY <1>1, ExitOK DEF Inv
<1>2. CASE text # NoText /\ job' = [job EXCEPT ![w].text = text] /\ Goto(w, "rechecking")
  <2>1. pc[w] = "parsing" /\ disk' = disk /\ published' = published
        /\ edits' = edits /\ source' = source
    BY DEF Parse, indexVars, userVars
  <2>2. source[job[w].doc] \in Contents /\ text = TextOf[source[job[w].doc]]
    <3>1. job[w].doc \in Docs
      BY <2>1 DEF Inv, TypeOK, Job, WriterOK, BuildOK
    <3>2. source[job[w].doc] \in 0..(edits + 1) /\ edits \in 0..MaxEdits
      BY <3>1 DEF Inv, TypeOK
    <3>3. source[job[w].doc] # 0
      BY <1>2 DEF Extract, Absent, NoText
    <3> QED BY <3>2, <3>3, CorpusAssumption DEF Contents, Extract, Absent
  <2>3. text \in Nat
    BY <2>2, CorpusAssumption
  <2> HIDE DEF text
  <2>4. /\ job' \in [Writers -> Job] /\ job'[w].text = text
        /\ job'[w].doc = job[w].doc /\ job'[w].digest = job[w].digest
        /\ job'[w].manifest = job[w].manifest /\ job'[w].gen = job[w].gen
        /\ job'[w].todo = job[w].todo
        /\ \A v \in Writers \ {w} : job'[v] = job[v]
    BY <1>2, <2>3 DEF Inv, TypeOK, Job
  <2>5. /\ pc' \in [Writers -> Labels] /\ pc'[w] = "rechecking"
        /\ \A v \in Writers \ {w} : pc'[v] = pc[v]
    BY <1>2 DEF Goto, Labels, Holding, Building, Filling, Inv, TypeOK
  <2> QED BY <1>2, <2>1, <2>2, <2>4, <2>5 DEF text, Inv, Local, WriterOK, BuildOK,
             FaithOK, BindOK, Faithful, Proper, Building, Filling, Finished, Bound
<1> QED BY <1>1, <1>2 DEF Parse

\* The texts of a manifest that gains an entry.
LEMMA TextsAdd ==
    ASSUME NEW M, NEW e
    PROVE  Texts(M \cup {e}) = Texts(M) \cup {[path |-> e.path, text |-> e.text]}
<1>1. \A x : x \in M \cup {e} <=> x \in M \/ x = e
  OBVIOUS
<1>2. \A y : y \in Texts(M \cup {e}) <=>
          y \in Texts(M) \/ y = [path |-> e.path, text |-> e.text]
  BY <1>1, Zenon DEF Texts
<1> QED BY <1>2

\* A parsed file is looked at again.
LEMMA RecheckStep ==
    ASSUME Inv, NEW w \in Writers, Recheck(w)
    PROVE  Local(w) /\ WriterOK(w)'
<1> DEFINE d == job[w].doc
           e == [path |-> d, source |-> job[w].digest, text |-> job[w].text]
           g == job[w].gen
<1>1. CASE Exit(w)
  BY <1>1, ExitOK DEF Inv
<1>2. CASE /\ source[d] = job[w].digest /\ Goto(w, "reading")
           /\ disk' = [disk EXCEPT ![g].text = @ \cup {[path |-> d, text |-> job[w].text]}]
           /\ job' = [job EXCEPT ![w].todo = @ \ {d}, ![w].manifest = @ \cup {e}]
  <2>1. pc[w] = "rechecking" /\ published' = published /\ edits' = edits
    BY DEF Recheck, userVars
  <2>2. /\ g \in Gens \ published /\ disk[g].made /\ d \in job[w].todo
        /\ disk[g].text = Texts(job[w].manifest) /\ Proper(job[w].manifest)
        /\ \A f \in job[w].manifest : f.path \notin job[w].todo
        /\ job[w].digest # Absent /\ job[w].text # NoText
    BY <2>1 DEF Inv, WriterOK, BuildOK, Building, Filling
  <2>3. d \in Docs /\ job[w].todo \in SUBSET Docs
    BY <2>2 DEF Inv, TypeOK, Job
  <2>4. e \in Entry
    BY <2>3 DEF Inv, TypeOK, Job, Entry
  <2>5. e.path = d /\ e.text = job[w].text /\ job[w].manifest \cup {e} # {}
    OBVIOUS
  <2>6. Proper(job[w].manifest \cup {e})
    BY <2>2 DEF Proper
  <2>7. \A f \in job[w].manifest \cup {e} : f.path \notin job[w].todo \ {d}
    BY <2>2
  <2>8. Restores = FALSE => Faithful(job[w].manifest \cup {e})
    BY <1>2, <2>1 DEF Inv, WriterOK, FaithOK, Faithful, Proper
  <2> HIDE DEF d, e
  <2>9. Texts(job[w].manifest \cup {e})
          = Texts(job[w].manifest) \cup {[path |-> d, text |-> job[w].text]}
    BY <2>5, TextsAdd
  <2>10. disk'[g].made /\ disk'[g].text = Texts(job[w].manifest \cup {e})
    <3>1. disk \in [Gens -> Dir] /\ disk[g] \in Dir
      BY <2>2 DEF Inv, TypeOK
    <3>2. disk' = [disk EXCEPT ![g] = [disk[g] EXCEPT !.text =
                     disk[g].text \cup {[path |-> d, text |-> job[w].text]}]]
      BY <1>2
    <3>3. disk'[g] = [disk[g] EXCEPT !.text =
                     disk[g].text \cup {[path |-> d, text |-> job[w].text]}]
      BY <2>2, <3>1, <3>2
    <3>4. disk'[g].made = disk[g].made
          /\ disk'[g].text = disk[g].text \cup {[path |-> d, text |-> job[w].text]}
      BY <3>1, <3>3 DEF Dir
    <3> QED BY <2>2, <2>9, <3>4
  <2>11. /\ job' \in [Writers -> Job] /\ job'[w].gen = g
        /\ job'[w].manifest = job[w].manifest \cup {e}
        /\ job'[w].todo = job[w].todo \ {d}
        /\ \A v \in Writers \ {w} : job'[v] = job[v]
    <3> DEFINE j == [job[w] EXCEPT !.todo = @ \ {d}, !.manifest = @ \cup {e}]
    <3>1. job \in [Writers -> Job] /\ job[w] \in Job
      BY DEF Inv, TypeOK
    <3>2. /\ j \in Job /\ j.gen = g /\ j.manifest = job[w].manifest \cup {e}
          /\ j.todo = job[w].todo \ {d}
      BY <2>4, <3>1 DEF Job
    <3>3. job' = [job EXCEPT ![w] = j]
      BY <1>2, <3>1
    <3> HIDE DEF j
    <3> QED BY <3>1, <3>2, <3>3
  <2>12. /\ pc' \in [Writers -> Labels] /\ pc'[w] = "reading"
        /\ \A v \in Writers \ {w} : pc'[v] = pc[v]
    BY <1>2 DEF Goto, Labels, Holding, Building, Filling, Inv, TypeOK
  <2> QED BY <2>1, <2>2, <2>5, <2>8, <2>10, <2>11, <2>12, <2>6, <2>7 DEF Local, WriterOK,
             BuildOK, FaithOK, BindOK, Building, Filling, Finished, Bound
<1> QED BY <1>1, <1>2 DEF Recheck

\* The manifest is written.
LEMMA ManifestStep ==
    ASSUME Inv, NEW w \in Writers, WriteManifest(w)
    PROVE  Local(w) /\ WriterOK(w)'
<1> DEFINE g == job[w].gen
<1>1. pc[w] = "reading" /\ job[w].todo = {} /\ job' = job /\ published' = published
      /\ edits' = edits /\ disk' = [disk EXCEPT ![g].manifest = job[w].manifest]
  BY DEF WriteManifest, userVars
<1>2. /\ g \in Gens \ published /\ disk[g].made
      /\ disk[g].text = Texts(job[w].manifest) /\ job[w].manifest # {}
  BY <1>1 DEF Inv, WriterOK, BuildOK, Building, Filling
<1>3. /\ disk'[g].made /\ disk'[g].text = disk[g].text
      /\ disk'[g].manifest = job[w].manifest
  BY <1>1, <1>2 DEF Inv, TypeOK, Dir
<1>4. /\ pc' \in [Writers -> Labels] /\ pc'[w] = "indexing"
      /\ \A v \in Writers \ {w} : pc'[v] = pc[v]
  BY DEF WriteManifest, Goto, Labels, Holding, Building, Finished, Inv, TypeOK
<1>5. /\ job \in [Writers -> Job] /\ Proper(job[w].manifest)
      /\ Restores = FALSE => Faithful(job[w].manifest)
  BY DEF Inv, TypeOK, WriterOK, BuildOK, FaithOK
<1> QED BY <1>1, <1>2, <1>3, <1>4, <1>5 DEF Local, WriterOK, BuildOK, FaithOK, BindOK,
           Building, Filling, Finished, Bound

\* The trigrams are written.
LEMMA TrigramStep ==
    ASSUME Inv, NEW w \in Writers, BuildTrigram(w)
    PROVE  Local(w) /\ WriterOK(w)'
<1> DEFINE g == job[w].gen
<1>1. pc[w] = "indexing" /\ job' = job /\ published' = published
      /\ edits' = edits /\ disk' = [disk EXCEPT ![g].trigram = disk[g].text]
  BY DEF BuildTrigram, userVars
<1>2. /\ g \in Gens \ published /\ disk[g].made /\ disk[g].text = Texts(job[w].manifest)
      /\ job[w].manifest # {} /\ disk[g].manifest = job[w].manifest
  BY <1>1 DEF Inv, WriterOK, BuildOK, Building, Finished
<1>3. /\ disk'[g].made /\ disk'[g].text = disk[g].text
      /\ disk'[g].manifest = disk[g].manifest /\ disk'[g].trigram = disk[g].text
  BY <1>1, <1>2 DEF Inv, TypeOK, Dir
<1>4. /\ pc' \in [Writers -> Labels] /\ pc'[w] = "pointing"
      /\ \A v \in Writers \ {w} : pc'[v] = pc[v]
  BY DEF BuildTrigram, Goto, Labels, Holding, Building, Finished, Inv, TypeOK
<1>5. /\ job \in [Writers -> Job] /\ Proper(job[w].manifest)
      /\ Restores = FALSE => Faithful(job[w].manifest)
  BY DEF Inv, TypeOK, WriterOK, BuildOK, FaithOK
<1> QED BY <1>1, <1>2, <1>3, <1>4, <1>5 DEF Local, WriterOK, BuildOK, FaithOK, BindOK,
           Building, Filling, Finished, Bound

\* The publisher of an overlay opens its base.
LEMMA OpenStep ==
    ASSUME Inv, NEW w \in Writers, OpenBase(w)
    PROVE  Local(w) /\ WriterOK(w)'
<1> DEFINE overlay == job[w].overlay
<1>1. CASE Exit(w)
  BY <1>1, ExitOK DEF Inv
<1>2. CASE /\ overlay.gen = current.gen /\ overlay.manifest = current.manifest
           /\ overlay.docs = Paths(current.manifest) /\ Goto(w, "validating")
           /\ job' = [job EXCEPT ![w].base = current, ![w].todo = overlay.docs]
  <2>1. overlay \in Overlay /\ overlay.docs \in SUBSET Docs /\ current \in Pointer
    BY DEF Inv, TypeOK, Job, Overlay
  <2>2. Proper(job[w].manifest) /\ (Restores = FALSE => Faithful(job[w].manifest))
    BY DEF Inv, WriterOK, BuildOK, FaithOK
  <2> HIDE DEF overlay
  <2>3. /\ job' \in [Writers -> Job] /\ job'[w].base = current
        /\ job'[w].overlay = job[w].overlay /\ job'[w].manifest = job[w].manifest
        /\ \A v \in Writers \ {w} : job'[v] = job[v]
    <3> DEFINE j == [job[w] EXCEPT !.base = current, !.todo = overlay.docs]
    <3>1. job \in [Writers -> Job] /\ job[w] \in Job
      BY DEF Inv, TypeOK
    <3>2. /\ j \in Job /\ j.base = current /\ j.overlay = job[w].overlay
          /\ j.manifest = job[w].manifest
      BY <2>1, <3>1 DEF Job
    <3>3. job' = [job EXCEPT ![w] = j]
      BY <1>2, <3>1
    <3> HIDE DEF j
    <3> QED BY <3>1, <3>2, <3>3
  <2>4. /\ pc' \in [Writers -> Labels] /\ pc'[w] = "validating"
        /\ \A v \in Writers \ {w} : pc'[v] = pc[v]
    BY <1>2 DEF Goto, Labels, Holding, Bound, Inv, TypeOK
  <2> QED BY <1>2, <2>2, <2>3, <2>4 DEF overlay, Local, WriterOK, BuildOK, FaithOK, BindOK,
             Building, Filling, Finished, Bound
<1> QED BY <1>1, <1>2 DEF OpenBase

\* The windows of one document are validated.
LEMMA ValidateStep ==
    ASSUME Inv, NEW w \in Writers, ValidateDocument(w)
    PROVE  Local(w) /\ WriterOK(w)'
<1> DEFINE d == First(job[w].todo)
<1>1. CASE Exit(w)
  BY <1>1, ExitOK DEF Inv
<1>2. CASE job' = [job EXCEPT ![w].todo = @ \ {d}] /\ UNCHANGED <<pc, lock>>
  <2> HIDE DEF d
  <2>1. /\ job' \in [Writers -> Job] /\ job'[w].base = job[w].base
        /\ job'[w].overlay = job[w].overlay /\ job'[w].manifest = job[w].manifest
        /\ \A v \in Writers \ {w} : job'[v] = job[v]
    BY <1>2 DEF Inv, TypeOK, Job
  <2>2. pc' \in [Writers -> Labels] /\ pc'[w] = "validating" /\ pc' = pc
    BY <1>2 DEF ValidateDocument, Labels, Inv, TypeOK
  <2> QED BY <2>1, <2>2 DEF Inv, Local, WriterOK, BuildOK, FaithOK, BindOK,
             Building, Filling, Finished, Bound
<1> QED BY <1>1, <1>2 DEF ValidateDocument

\* The artifact is kept under its digest.
LEMMA RetainStep ==
    ASSUME Inv, NEW w \in Writers, RetainArtifact(w)
    PROVE  Local(w) /\ WriterOK(w)'
<1>1. pc[w] = "validating" /\ job' = job /\ artifacts' = artifacts \cup {job[w].overlay}
  BY DEF RetainArtifact
<1>2. /\ pc' \in [Writers -> Labels] /\ pc'[w] = "checking"
      /\ \A v \in Writers \ {w} : pc'[v] = pc[v]
  BY DEF RetainArtifact, Goto, Labels, Holding, Bound, Inv, TypeOK
<1> QED BY <1>1, <1>2 DEF Inv, TypeOK, Local, WriterOK, BuildOK, FaithOK, BindOK,
           Building, Filling, Finished, Bound

\* The base is checked again before the pointer moves.
LEMMA CheckStep ==
    ASSUME Inv, NEW w \in Writers, CheckBase(w)
    PROVE  Local(w) /\ WriterOK(w)'
<1>1. CASE Exit(w)
  BY <1>1, ExitOK DEF Inv
<1>2. CASE current = job[w].base /\ Goto(w, "naming") /\ UNCHANGED <<job, lock>>
  <2>1. pc[w] = "checking" /\ current' = current /\ artifacts' = artifacts
    BY DEF CheckBase, indexVars, overlayVars
  <2>2. /\ pc' \in [Writers -> Labels] /\ pc'[w] = "naming"
        /\ \A v \in Writers \ {w} : pc'[v] = pc[v]
    BY <1>2 DEF Goto, Labels, Holding, Bound, Inv, TypeOK
  <2> QED BY <1>2, <2>1, <2>2 DEF Inv, TypeOK, Local, WriterOK, BuildOK, FaithOK, BindOK,
             Building, Filling, Finished, Bound
<1> QED BY <1>1, <1>2 DEF CheckBase

\* Each step of a writer leaves what it keeps in order.
LEMMA OwnStep ==
    ASSUME Inv, NEW w \in Writers, Write(w)
    PROVE  Local(w) /\ WriterOK(w)'
<1>1. CASE Fail(w) \/ PublishIndex(w) \/ PublishOverlay(w)
  BY <1>1, ExitOK DEF Fail, PublishIndex, PublishOverlay, Inv
<1> QED BY <1>1, StartStep, TakeLockStep, MakeStep, WalkStep, ReadStep, ParseStep,
           RecheckStep, ManifestStep, TrigramStep, OpenStep, ValidateStep, RetainStep,
           CheckStep DEF Write
---------------------------------------------------------------------------
(***************************************************************************)
(* What the writers share.                                                 *)
(***************************************************************************)

\* Whose step it is, and what the others see of it: a writer that does not hold
\* the lock changes nothing they share, and a generation that was published is
\* changed by nobody.
LEMMA QuietStep ==
    ASSUME Inv, NEW w \in Writers, Write(w)
    PROVE  \/ UNCHANGED <<userVars, indexVars, overlayVars>>
           \/ pc[w] \in Holding
BY DEF Write, StartIndex, StartOverlay, TakeLock, Fail, MakeGeneration, Walk, ReadSource,
       Parse, Recheck, WriteManifest, BuildTrigram, PublishIndex, OpenBase,
       ValidateDocument, RetainArtifact, CheckBase, PublishOverlay, Holding, Building,
       Filling, Finished, Bound

\* Only the holder of the lock writes.
LEMMA LockStep ==
    ASSUME Inv, NEW w \in Writers, Write(w)
    PROVE  LockOK'
<1>1. Local(w)
  BY OwnStep
<1>2. CASE Exit(w)
  BY <1>1, <1>2, ExitLocal DEF Inv, Local, LockOK, Exit, Holding, Building, Filling,
     Finished, Bound
<1>3. CASE TakeLock(w)
  <2>1. CASE lock = NoOne /\ lock' = w
    BY <1>1, <2>1, CorpusAssumption DEF Inv, Local, LockOK
  <2> QED BY <1>2, <1>3, <2>1 DEF TakeLock
<1>4. CASE StartIndex(w) \/ StartOverlay(w)
  <2>1. lock' = lock /\ pc'[w] = "starting"
    BY <1>4 DEF StartIndex, StartOverlay, Goto, Inv, TypeOK
  <2> QED BY <1>1, <2>1 DEF Inv, Local, LockOK, Holding, Building, Filling, Finished, Bound
<1>5. CASE pc[w] \in Holding /\ lock' = lock
  BY <1>1, <1>5 DEF Inv, Local, LockOK
<1> QED
  <2>1. CASE PublishIndex(w) \/ PublishOverlay(w) \/ Fail(w)
    BY <1>2, <2>1 DEF PublishIndex, PublishOverlay, Fail
  <2>2. CASE MakeGeneration(w) \/ Walk(w) \/ ReadSource(w) \/ Parse(w) \/ Recheck(w)
    <3>1. Exit(w) \/ (pc[w] \in Holding /\ lock' = lock)
      BY <2>2 DEF MakeGeneration, Walk, ReadSource, Parse, Recheck, Holding, Building, Filling
    <3> QED BY <1>2, <1>5, <3>1
  <2>3. CASE \/ WriteManifest(w) \/ BuildTrigram(w) \/ OpenBase(w) \/ ValidateDocument(w)
             \/ RetainArtifact(w) \/ CheckBase(w)
    <3>1. Exit(w) \/ (pc[w] \in Holding /\ lock' = lock)
      BY <2>3 DEF WriteManifest, BuildTrigram, OpenBase, ValidateDocument, RetainArtifact,
         CheckBase, Holding, Building, Filling, Finished, Bound
    <3> QED BY <1>2, <1>5, <3>1
  <2> QED BY <1>3, <1>4, <2>1, <2>2, <2>3 DEF Write

\* A step that writes into a generation directory: one that was never published.
Writes(w) == \E g \in Gens \ published :
                /\ \A h \in Gens \ {g} : disk'[h] = disk[h]
                /\ disk'[g] \in Dir /\ disk'[g].made
                /\ disk' \in [Gens -> Dir]
                /\ UNCHANGED <<current, published, edits, source>>

\* A step of a writer writes to its own generation, publishes it, or changes no index.
LEMMA WritesStep ==
    ASSUME Inv, NEW w \in Writers, Write(w)
    PROVE  \/ Writes(w)
           \/ UNCHANGED <<indexVars, edits, source>>
           \/ PublishIndex(w)
<1>1. CASE MakeGeneration(w)
  <2>1. CASE UNCHANGED disk
    BY <1>1, <2>1 DEF MakeGeneration, indexVars, userVars
  <2>2. ASSUME NEW g \in Gens, ~disk[g].made, disk' = [disk EXCEPT ![g].made = TRUE]
        PROVE  Writes(w)
    <3>1. disk'[g] \in Dir /\ disk'[g].made
      BY <2>2 DEF Inv, TypeOK, Dir
    <3>2. disk' \in [Gens -> Dir] /\ \A h \in Gens \ {g} : disk'[h] = disk[h]
      BY <2>2, <3>1 DEF Inv, TypeOK
    <3>3. g \notin published
      BY <2>2 DEF Inv, DiskOK
    <3> QED BY <1>1, <3>1, <3>2, <3>3 DEF Writes, MakeGeneration, userVars
  <2> QED BY <1>1, <2>1, <2>2 DEF MakeGeneration
<1>2. CASE Recheck(w) \/ WriteManifest(w) \/ BuildTrigram(w)
  <2> DEFINE g == job[w].gen
  <2>1. g \in Gens \ published /\ disk[g].made /\ disk[g] \in Dir
    BY <1>2 DEF Recheck, WriteManifest, BuildTrigram, Inv, TypeOK, WriterOK, BuildOK,
       Building, Filling, Finished
  <2>2. UNCHANGED <<current, published, edits, source>>
    BY <1>2 DEF Recheck, WriteManifest, BuildTrigram, userVars
  <2>3. CASE UNCHANGED disk
    BY <2>2, <2>3 DEF indexVars
  <2>4. ASSUME NEW x \in SUBSET Written, disk' = [disk EXCEPT ![g].text = x]
        PROVE  Writes(w)
    <3>1. disk'[g] \in Dir /\ disk'[g].made
      BY <2>1, <2>4 DEF Inv, TypeOK, Dir
    <3> QED BY <2>1, <2>2, <2>4, <3>1 DEF Writes, Inv, TypeOK
  <2>5. CASE Recheck(w)
    <3>1. job[w].doc \in Docs /\ job[w].text \in Nat
      BY <2>5 DEF Recheck, Inv, TypeOK, Job, WriterOK, BuildOK
    <3>2. disk[g].text \cup {[path |-> job[w].doc, text |-> job[w].text]} \in SUBSET Written
      BY <2>1, <3>1 DEF Dir, Written
    <3> QED BY <2>1, <2>3, <2>4, <2>5, <3>2 DEF Recheck, Inv, TypeOK
  <2>6. CASE WriteManifest(w)
    <3>1. disk' = [disk EXCEPT ![g].manifest = job[w].manifest]
          /\ job[w].manifest \in SUBSET Entry
      BY <2>6 DEF WriteManifest, Inv, TypeOK, Job
    <3>2. disk'[g] \in Dir /\ disk'[g].made
      BY <2>1, <3>1 DEF Inv, TypeOK, Dir
    <3> QED BY <2>1, <2>2, <3>1, <3>2 DEF Writes, Inv, TypeOK
  <2>7. CASE BuildTrigram(w)
    <3>1. disk' = [disk EXCEPT ![g].trigram = disk[g].text] /\ disk[g].text \in SUBSET Written
      BY <2>1, <2>7 DEF BuildTrigram, Dir
    <3>2. disk'[g] \in Dir /\ disk'[g].made
      BY <2>1, <3>1 DEF Inv, TypeOK, Dir
    <3> QED BY <2>1, <2>2, <3>1, <3>2 DEF Writes, Inv, TypeOK
  <2> QED BY <1>2, <2>5, <2>6, <2>7
<1>3. CASE \/ StartIndex(w) \/ StartOverlay(w) \/ TakeLock(w) \/ Fail(w)
           \/ Walk(w) \/ ReadSource(w) \/ Parse(w)
  BY <1>3 DEF StartIndex, StartOverlay, TakeLock, Fail, Walk, ReadSource, Parse, userVars
<1>4. CASE \/ OpenBase(w) \/ ValidateDocument(w) \/ RetainArtifact(w) \/ CheckBase(w)
           \/ PublishOverlay(w)
  BY <1>4 DEF OpenBase, ValidateDocument, RetainArtifact, CheckBase, PublishOverlay, userVars
<1> QED BY <1>1, <1>2, <1>3, <1>4 DEF Write

\* What CURRENT.json names is the work of one job, whole.
LEMMA PublishedIsWhole ==
    ASSUME Inv, NEW w \in Writers, PublishIndex(w)
    PROVE  /\ current' \in Pointer /\ current'.gen \in Gens \ published
           /\ published' = published \cup {current'.gen}
           /\ disk' = disk /\ UNCHANGED <<edits, source>>
           /\ disk[current'.gen].made
           /\ current'.manifest # {}
           /\ disk[current'.gen].manifest = current'.manifest
           /\ disk[current'.gen].text = Texts(current'.manifest)
           /\ disk[current'.gen].trigram = disk[current'.gen].text
           /\ Proper(current'.manifest)
           /\ Restores = FALSE => Faithful(current'.manifest)
<1> DEFINE g == job[w].gen
           m == job[w].manifest
<1>1. pc[w] = "pointing" /\ current' = [gen |-> g, manifest |-> m]
      /\ published' = published \cup {g} /\ disk' = disk /\ UNCHANGED <<edits, source>>
  BY DEF PublishIndex, userVars
<1>2. /\ g \in Gens \ published /\ disk[g].made /\ disk[g].text = Texts(m)
      /\ m # {} /\ disk[g].manifest = m /\ disk[g].trigram = disk[g].text
      /\ Proper(m) /\ (Restores = FALSE => Faithful(m))
  BY <1>1 DEF Inv, WriterOK, BuildOK, FaithOK, Building, Finished
<1>3. m \in SUBSET Entry
  BY DEF Inv, TypeOK, Job
<1>4. current'.gen = g /\ current'.manifest = m /\ current' \in Pointer
  BY <1>1, <1>2, <1>3 DEF Pointer
<1> QED BY <1>1, <1>2, <1>4

\* The steps that change what every process sees.
LEMMA SharedStep ==
    ASSUME Inv, NEW w \in Writers, Write(w)
    PROVE  TypeOK' /\ LockOK' /\ DiskOK'
<1>1. Local(w) /\ LockOK'
  BY OwnStep, LockStep
<1>2. CASE Writes(w)
  BY <1>1, <1>2 DEF Writes, Inv, TypeOK, DiskOK, Named, Local, Labels, NoPointer
<1>3. CASE UNCHANGED <<indexVars, edits, source>>
  BY <1>1, <1>3 DEF indexVars, Inv, TypeOK, DiskOK, Named, Local, Labels
<1>4. CASE PublishIndex(w)
  BY <1>1, <1>4, PublishedIsWhole DEF Inv, TypeOK, DiskOK, Named, Local, Labels
<1> QED BY <1>2, <1>3, <1>4, WritesStep

\* A step of one writer leaves what another keeps in order.
LEMMA OthersStep ==
    ASSUME Inv, NEW w \in Writers, Write(w), NEW v \in Writers \ {w}
    PROVE  WriterOK(v)'
<1>1. pc'[v] = pc[v] /\ job'[v] = job[v]
  BY OwnStep DEF Local
<1>2. CASE pc[v] \in Holding
  <2>1. pc[w] \notin Holding
    BY <1>2 DEF Inv, LockOK
  <2>2. UNCHANGED <<userVars, indexVars, overlayVars>>
    BY <2>1, QuietStep
  <2>3. WriterOK(v)
    BY DEF Inv
  <2> QED BY <1>1, <2>2, <2>3 DEF WriterOK, BuildOK, FaithOK, BindOK, Faithful, Proper,
             userVars, indexVars, overlayVars
<1>3. CASE pc[v] \notin Holding
  <2>1. WriterOK(v)
    BY DEF Inv
  <2> QED BY <1>1, <1>3, <2>1 DEF WriterOK, BuildOK, FaithOK, BindOK, Holding, Building,
             Filling, Finished, Bound
<1> QED BY <1>2, <1>3

\* An edit gives a source a content that no build has a digest of.
LEMMA EditStep ==
    ASSUME Inv, NEW d \in Docs, Edit(d)
    PROVE  Inv'
<1>1. PICK content \in {Absent, edits + 2} \cup (IF Restores THEN 1..(edits + 1) ELSE {}) :
        source' = [source EXCEPT ![d] = content]
  BY DEF Edit
<1>2. edits' = edits + 1 /\ edits < MaxEdits /\ edits \in Nat
      /\ UNCHANGED <<indexVars, overlayVars, lock, pc, job>>
  BY DEF Edit, Inv, TypeOK
<1>3. content \in 0..(edits + 2) /\ (Restores = FALSE => content \notin 1..(edits + 1))
  BY <1>1, <1>2 DEF Absent
<1>4. TypeOK'
  BY <1>1, <1>2, <1>3, CorpusAssumption DEF Inv, TypeOK, indexVars
<1>5. LockOK' /\ DiskOK'
  BY <1>2 DEF Inv, LockOK, DiskOK, Named, indexVars
<1>6. ASSUME NEW w \in Writers
      PROVE  WriterOK(w)'
  <2>1. BuildOK(w)' /\ BindOK(w)'
    BY <1>2 DEF Inv, WriterOK, BuildOK, BindOK, indexVars, overlayVars
  <2>2. FaithOK(w)'
    <3>1. SUFFICES ASSUME Restores = FALSE
          PROVE  FaithOK(w)'
      BY DEF FaithOK
    <3>2. FaithOK(w) /\ (pc[w] = "rechecking" => job[w].doc \in Docs)
      BY DEF Inv, TypeOK, Job, WriterOK, BuildOK
    <3>3. ASSUME pc[w] = "rechecking", source'[job[w].doc] = job[w].digest
          PROVE  source[job[w].doc] = job[w].digest
      BY <1>1, <1>3, <3>1, <3>2, <3>3 DEF FaithOK, Inv, TypeOK
    <3> QED BY <1>2, <3>1, <3>2, <3>3 DEF FaithOK, Faithful, Proper
  <2> QED BY <2>1, <2>2 DEF WriterOK
<1> QED BY <1>4, <1>5, <1>6 DEF Inv

\* Inv holds at the start.
LEMMA InitOK == Init => Inv
<1> SUFFICES ASSUME Init PROVE Inv
  OBVIOUS
<1>1. TypeOK
  <2>1. NoDir \in Dir /\ NoPointer \in Pointer
    BY DEF NoDir, Dir, NoPointer, Pointer
  <2> QED BY <2>1, NoJobType, CorpusAssumption DEF Init, TypeOK, Absent
<1>2. LockOK /\ DiskOK
  BY DEF Init, LockOK, DiskOK, Holding, Building, Filling, Finished, Bound, NoDir
<1>3. \A w \in Writers : WriterOK(w)
  BY DEF Init, WriterOK, BuildOK, FaithOK, BindOK, Faithful, Proper, Building, Filling,
     Finished, Bound, NoJob
<1> QED BY <1>1, <1>2, <1>3 DEF Inv

\* Every step keeps Inv.
LEMMA NextOK == Inv /\ [Next]_writerVars => Inv'
<1> SUFFICES ASSUME Inv, [Next]_writerVars PROVE Inv'
  OBVIOUS
<1>1. ASSUME NEW w \in Writers, Write(w)
      PROVE  Inv'
  BY <1>1, OwnStep, OthersStep, SharedStep DEF Inv
<1>2. CASE UNCHANGED writerVars
  BY <1>2 DEF writerVars, Inv, TypeOK, LockOK, DiskOK, Named, WriterOK, BuildOK, FaithOK,
     BindOK, Faithful, Proper
<1> QED BY <1>1, <1>2, EditStep DEF Next

\* Inv holds in every reachable state.
LEMMA Invariance == Spec => []Inv
BY InitOK, NextOK, PTL DEF Spec

\* A generation that was published stays as it is.
LEMMA KeptStep ==
    ASSUME Inv, Next
    PROVE  published \subseteq published' /\ \A g \in published : disk'[g] = disk[g]
<1>1. ASSUME NEW w \in Writers, Write(w)
      PROVE  published \subseteq published' /\ \A g \in published : disk'[g] = disk[g]
  <2>1. published \subseteq Gens
    BY DEF Inv, TypeOK
  <2> QED BY <1>1, <2>1, WritesStep, PublishedIsWhole DEF Writes, indexVars
<1>2. ASSUME NEW d \in Docs, Edit(d)
      PROVE  published \subseteq published' /\ \A g \in published : disk'[g] = disk[g]
  BY <1>2 DEF Edit, indexVars
<1> QED BY <1>1, <1>2 DEF Next

\* No writer touches the files of the current snapshot.
LEMMA WholeStep == Inv /\ WholeOK /\ [Next]_writerVars => WholeOK'
<1> SUFFICES ASSUME Inv, WholeOK, [Next]_writerVars PROVE WholeOK'
  OBVIOUS
<1>1. ASSUME NEW w \in Writers, Write(w) PROVE WholeOK'
  <2>1. CASE Writes(w)
    BY <2>1 DEF Writes, Inv, TypeOK, DiskOK, Named, WholeOK
  <2>2. CASE PublishIndex(w)
    BY <2>2, PublishedIsWhole DEF WholeOK
  <2> QED BY <1>1, <2>1, <2>2, WritesStep DEF indexVars, WholeOK
<1>2. CASE UNCHANGED indexVars
  BY <1>2 DEF indexVars, WholeOK
<1> QED BY <1>1, <1>2 DEF Next, Edit, indexVars, writerVars
---------------------------------------------------------------------------
(***************************************************************************)
(* The theorems.                                                           *)
(***************************************************************************)

\* Without restored contents, CURRENT.json names a whole generation whatever
\* runs fail, are killed or overlap, and whatever is edited beside them.
THEOREM WholeSnapshot == Spec => [](Restores = FALSE => CurrentComplete)
<1>1. Inv /\ WholeOK => (Restores = FALSE => CurrentComplete)
  BY DEF Inv, DiskOK, Named, WholeOK, CurrentComplete, Complete, Faithful
<1>2. Init => WholeOK
  BY DEF Init, WholeOK
<1> QED BY <1>1, <1>2, InitOK, NextOK, WholeStep, PTL DEF Spec

\* No later run touches a generation that was published, and an overlay becomes
\* active only for the snapshot that is current at that moment.
THEOREM Publication == Spec => PublicationSound
<1>1. Inv /\ [Next]_writerVars => [\A g \in published : disk'[g] = disk[g]]_writerVars
  BY KeptStep
<1>2. Inv /\ [Next]_writerVars =>
        [navigation' # navigation =>
         /\ navigation'.gen = current.gen
         /\ navigation'.manifest = current.manifest
         /\ navigation'.docs = Paths(current.manifest)
         /\ navigation' \in artifacts]_writerVars
  <2> SUFFICES ASSUME Inv, Next, navigation' # navigation
               PROVE  /\ navigation'.gen = current.gen
                      /\ navigation'.manifest = current.manifest
                      /\ navigation'.docs = Paths(current.manifest)
                      /\ navigation' \in artifacts
    OBVIOUS
  <2>1. PICK w \in Writers : PublishOverlay(w)
    BY DEF Next, Write, StartIndex, StartOverlay, TakeLock, Fail, MakeGeneration, Walk,
       ReadSource, Parse, Recheck, WriteManifest, BuildTrigram, PublishIndex, OpenBase,
       ValidateDocument, RetainArtifact, CheckBase, Edit, overlayVars
  <2> QED BY <2>1 DEF PublishOverlay, Inv, WriterOK, BindOK, Bound
<1> QED BY <1>1, <1>2, Invariance, PTL DEF Spec, PublicationSound, PublishedNeverChanges,
           NavigationBound

---------------------------------------------------------------------------
(***************************************************************************)
(* The readers.                                                            *)
(***************************************************************************)
Labelled  == {"idle", "starting", "opening", "opened", "matching", "rechecking",
              "reported"}
Opened    == {"opening", "opened", "matching", "rechecking", "reported"}
Search    == [mode : {"none", "regex", "hybrid", "read"},
              query : Queries \cup {{}}, base : Pointer, todo : SUBSET Docs,
              stale : SUBSET Docs, hits : SUBSET Written, truncated : BOOLEAN]

SearchTypeOK ==
    /\ rpc \in [Readers -> Labelled]
    /\ search \in [Readers -> Search]
    /\ seen \in [Readers -> SUBSET Written]

\* The snapshot of a reader.
OpenedOK(r) ==
    /\ rpc[r] = "idle" => search[r] = NoSearch
    /\ rpc[r] = "starting" => search[r].base = NoPointer
    /\ rpc[r] \in Opened => Named(search[r].base)

\* Its hits are texts of that snapshot.
HitsOK(r) ==
    /\ rpc[r] \in {"starting", "opening", "opened"} => search[r].hits = {}
    /\ rpc[r] \in {"starting", "opening", "opened"} /\ search[r].mode = "read" =>
         search[r].todo # {}
    /\ rpc[r] \in Opened => search[r].hits \subseteq Texts(search[r].base.manifest)

Hit(s, e)  == [path |-> e.path, text |-> e.text] \in s.hits
Matches(s) == {e \in s.base.manifest : e.text \in s.query}

\* Each match is a hit, of a stale document, or still to be looked at, unless the
\* search has stopped at the limit.
MatchesOK(r) ==
    search[r].mode = "regex" =>
        /\ rpc[r] = "matching" => \A e \in Matches(search[r]) :
             \/ Hit(search[r], e) \/ e.path \in search[r].stale \cup search[r].todo
             \/ search[r].truncated /\ search[r].todo = {}
        /\ rpc[r] \in {"rechecking", "reported"} => \A e \in Matches(search[r]) :
             Hit(search[r], e) \/ e.path \in search[r].stale \/ search[r].truncated

\* Each hit was seen in its source after the inference, or is still to be checked.
SeenOK(r) ==
    /\ rpc[r] = "rechecking" => Present(search[r].base.manifest) \subseteq seen[r]
    /\ Restores = FALSE => \A h \in search[r].hits :
         /\ rpc[r] = "rechecking" => h.path \in search[r].todo \/ h \in seen[r]
         /\ rpc[r] = "reported" => h \in seen[r]

ReaderOK(r) == OpenedOK(r) /\ HitsOK(r) /\ MatchesOK(r) /\ SeenOK(r)

SearchInv == Inv /\ SearchTypeOK /\ \A r \in Readers : ReaderOK(r)
---------------------------------------------------------------------------
(***************************************************************************)
(* The steps of others: writers, edits, power losses.                      *)
(***************************************************************************)

\* A writer takes nothing from a reader.
LEMMA WriterStep ==
    ASSUME SearchInv, NEW w \in Writers, Write(w), UNCHANGED readerVars
    PROVE  SearchInv'
<1>1. Next
  BY DEF Next
<1>2. /\ Inv' /\ published \subseteq published'
      /\ \A g \in published : disk'[g] = disk[g]
  BY <1>1, NextOK, KeptStep DEF SearchInv
<1>3. source' = source
  BY WritesStep, PublishedIsWhole DEF SearchInv, Writes
<1>4. UNCHANGED <<rpc, search, seen>>
  BY DEF readerVars
<1>5. ASSUME NEW r \in Readers PROVE ReaderOK(r)'
  <2>1. ReaderOK(r)
    BY DEF SearchInv
  <2>2. OpenedOK(r)'
    BY <1>2, <1>4, <2>1 DEF ReaderOK, OpenedOK, Named
  <2>3. HitsOK(r)' /\ MatchesOK(r)'
    BY <1>4, <2>1 DEF ReaderOK, HitsOK, MatchesOK
  <2>4. SeenOK(r)'
    BY <1>3, <1>4, <2>1 DEF ReaderOK, SeenOK, Present
  <2> QED BY <2>2, <2>3, <2>4 DEF ReaderOK
<1> QED BY <1>2, <1>4, <1>5 DEF SearchInv, SearchTypeOK

\* The text that a source has is one of the texts.
LEMMA ExtractType ==
    ASSUME TypeOK, NEW d \in Docs
    PROVE  Extract(source[d]) \in Nat
<1>1. source[d] \in 0..(edits + 1) /\ edits \in 0..MaxEdits
  BY DEF TypeOK
<1> QED BY <1>1, CorpusAssumption DEF Extract, Absent, NoText, Contents

\* What a reader may have seen of a source includes what it has now.
LEMMA EditSearchStep ==
    ASSUME SearchInv, NEW d \in Docs, Edit(d), UNCHANGED <<rpc, search>>,
           seen' = [r \in Readers |->
                      IF rpc[r] = "rechecking"
                      THEN seen[r] \cup {[path |-> d, text |-> Extract(source'[d])]}
                      ELSE seen[r]]
    PROVE  SearchInv'
<1>1. Next
  BY DEF Next
<1>2. Inv' /\ TypeOK' /\ UNCHANGED <<disk, published>>
  BY <1>1, NextOK DEF SearchInv, Inv, Edit, indexVars
<1>3. PICK content : source' = [source EXCEPT ![d] = content]
  BY DEF Edit
<1>4. Extract(source'[d]) \in Nat
  <2>1. source'[d] \in 0..(edits' + 1) /\ edits' \in 0..MaxEdits
    BY <1>2 DEF TypeOK
  <2> QED BY <2>1, CorpusAssumption DEF Extract, Absent, NoText, Contents
<1>5. SearchTypeOK'
  BY <1>4 DEF SearchInv, SearchTypeOK, Written
<1>6. ASSUME NEW r \in Readers PROVE ReaderOK(r)'
  <2>1. ReaderOK(r) /\ search[r] \in Search /\ seen[r] \subseteq seen'[r]
    BY DEF SearchInv, SearchTypeOK
  <2>2. OpenedOK(r)'
    BY <1>2, <2>1 DEF ReaderOK, OpenedOK, Named
  <2>3. HitsOK(r)' /\ MatchesOK(r)'
    BY <2>1 DEF ReaderOK, HitsOK, MatchesOK
  <2>4. ASSUME rpc[r] = "rechecking", NEW c \in Paths(search[r].base.manifest)
        PROVE  [path |-> c, text |-> Extract(source'[c])] \in seen'[r]
    <3>1. CASE c = d
      BY <2>4, <3>1
    <3>2. CASE c # d
      <4>1. source'[c] = source[c]
        BY <1>3, <3>2 DEF SearchInv, Inv, TypeOK
      <4> QED BY <2>1, <2>4, <4>1 DEF ReaderOK, SeenOK, Present
    <3> QED BY <3>1, <3>2
  <2>5. SeenOK(r)'
    BY <2>1, <2>4 DEF ReaderOK, SeenOK, Present
  <2> QED BY <2>2, <2>3, <2>5 DEF ReaderOK
<1> QED BY <1>2, <1>5, <1>6 DEF SearchInv

\* A process that reads nothing keeps all that is said of it.
LEMMA NoSearchOK ==
    /\ NoSearch \in Search
    /\ \A r \in Readers :
         rpc'[r] = "idle" /\ search'[r] = NoSearch => ReaderOK(r)'
<1>1. NoSearch \in Search
  BY DEF NoSearch, Search, NoPointer, Pointer
<1>2. ASSUME NEW r \in Readers, rpc'[r] = "idle", search'[r] = NoSearch
      PROVE  ReaderOK(r)'
  BY <1>2 DEF ReaderOK, OpenedOK, HitsOK, MatchesOK, SeenOK, Opened, NoSearch
<1> QED BY <1>1, <1>2

\* What is damaged was there before.
LEMMA DamageType ==
    ASSUME NEW texts \in SUBSET Written, NEW left \in Damage(texts)
    PROVE  left \in SUBSET Written /\ (texts = {} => left = {})
<1>1. PICK lost \in SUBSET texts : \E wrong \in SUBSET lost :
        left = (texts \ lost) \cup {Garbled(e) : e \in wrong}
  BY DEF Damage
<1>0. PICK wrong \in SUBSET lost : left = (texts \ lost) \cup {Garbled(e) : e \in wrong}
  BY <1>1
<1>2. Cardinality(Contents) \in Nat
  <2>1. 1 \in Int /\ 1 + MaxEdits \in Int
    BY CorpusAssumption
  <2> QED BY <2>1, FS_Interval, FS_CardinalityType DEF Contents
<1>3. ASSUME NEW e \in Written PROVE Garbled(e) \in Written
  BY <1>2 DEF Garbled, Written
<1> QED BY <1>0, <1>3

\* A power loss leaves no process, and of the published snapshots what Named says.
LEMMA PowerLossStep ==
    ASSUME SearchInv, PowerLoss
    PROVE  SearchInv'
<1>1. PICK g \in Gens : \E text \in Damage(disk[g].text),
                           manifest \in {disk[g].manifest, {}},
                           trigram \in {disk[g].trigram, {}} :
        disk' = [disk EXCEPT ![g].text = text, ![g].manifest = manifest,
                             ![g].trigram = trigram]
  BY DEF PowerLoss
<1>2. PICK text \in Damage(disk[g].text), manifest \in {disk[g].manifest, {}},
           trigram \in {disk[g].trigram, {}} :
        disk' = [disk EXCEPT ![g].text = text, ![g].manifest = manifest,
                             ![g].trigram = trigram]
  BY <1>1
<1>3. /\ UNCHANGED <<source, edits, current, published, artifacts>>
      /\ pc' = [w \in Writers |-> "idle"] /\ job' = [w \in Writers |-> NoJob]
      /\ rpc' = [r \in Readers |-> "idle"] /\ search' = [r \in Readers |-> NoSearch]
      /\ seen' = [r \in Readers |-> {}]
  BY DEF PowerLoss, userVars, overlayVars
<1>4. /\ disk[g] \in Dir /\ disk \in [Gens -> Dir]
      /\ disk[g].text \in SUBSET Written
  BY DEF SearchInv, Inv, TypeOK, Dir
<1>5. text \in SUBSET Written /\ (disk[g].text = {} => text = {})
  BY <1>4, DamageType
<1>6. /\ disk' \in [Gens -> Dir] /\ disk'[g].made = disk[g].made
      /\ disk'[g].text = text /\ disk'[g].trigram = trigram
      /\ \A h \in Gens \ {g} : disk'[h] = disk[h]
  BY <1>2, <1>4, <1>5 DEF Dir
<1>7. TypeOK'
  BY <1>3, <1>6, NoJobType DEF SearchInv, Inv, TypeOK
<1>8. LockOK'
  BY <1>3 DEF LockOK, Holding, Building, Filling, Finished, Bound
<1>9. DiskOK'
  <2>1. DiskOK /\ published \subseteq Gens
    BY DEF SearchInv, Inv, TypeOK
  <2> QED BY <1>3, <1>5, <1>6, <2>1 DEF DiskOK, Named
<1>10. ASSUME NEW w \in Writers PROVE WriterOK(w)'
  BY <1>3, IdleOK
<1>11. SearchTypeOK' /\ \A r \in Readers : ReaderOK(r)'
  BY <1>3, NoSearchOK DEF SearchTypeOK, Labelled
<1> QED BY <1>7, <1>8, <1>9, <1>10, <1>11 DEF SearchInv, Inv
---------------------------------------------------------------------------
(***************************************************************************)
(* The reader's own steps.                                                 *)
(***************************************************************************)

\* A step of one reader: it changes nothing of the others and keeps its part.
Own(r) ==
    /\ SearchTypeOK' /\ ReaderOK(r)'
    /\ \A q \in Readers \ {r} :
         rpc'[q] = rpc[q] /\ search'[q] = search[q] /\ seen'[q] = seen[q]

\* A reader that leaves.
LEMMA LeaveStep ==
    ASSUME SearchInv, NEW r \in Readers, Leave(r)
    PROVE  Own(r)
BY NoSearchOK DEF Leave, Turn, Own, SearchInv, SearchTypeOK, Labelled

\* A reader that goes on with new local variables.
LEMMA TurnStep ==
    ASSUME SearchInv, NEW r \in Readers, NEW label \in Labelled, Turn(r, label),
           NEW s \in Search, search' = [search EXCEPT ![r] = s],
           NEW x \in SUBSET Written, seen' = [seen EXCEPT ![r] = x],
           ReaderOK(r)'
    PROVE  Own(r)
BY DEF Turn, Own, SearchInv, SearchTypeOK

\* What the local variables and the label of a reader are after a step.
LEMMA TurnValues ==
    ASSUME SearchInv, NEW r \in Readers
    PROVE  /\ \A label \in Labelled : Turn(r, label) => rpc'[r] = label
           /\ \A s \in Search : search' = [search EXCEPT ![r] = s] => search'[r] = s
           /\ \A x : seen' = [seen EXCEPT ![r] = x] => seen'[r] = x
           /\ UNCHANGED rpc => Turn(r, rpc[r]) /\ rpc'[r] = rpc[r]
           /\ UNCHANGED search => search' = [search EXCEPT ![r] = search[r]]
           /\ UNCHANGED seen => seen' = [seen EXCEPT ![r] = seen[r]] /\ seen'[r] = seen[r]
           /\ search[r] \in Search /\ seen[r] \in SUBSET Written /\ ReaderOK(r)
           /\ rpc[r] \in Labelled
BY DEF Turn, SearchInv, SearchTypeOK

\* A new search has opened nothing.
LEMMA StartSearchStep ==
    ASSUME SearchInv, NEW r \in Readers, StartSearch(r)
    PROVE  Own(r)
<1>1. /\ Turn(r, "starting") /\ "starting" \in Labelled
      /\ seen' = [seen EXCEPT ![r] = seen[r]] /\ seen[r] \in SUBSET Written
  BY TurnValues DEF StartSearch, Labelled
<1>2. ASSUME NEW s \in Search, search' = [search EXCEPT ![r] = s],
             s.base = NoPointer, s.hits = {}, s.mode = "read" => s.todo # {}
      PROVE  Own(r)
  <2>1. rpc'[r] = "starting" /\ search'[r] = s
    BY <1>1, <1>2, TurnValues
  <2>2. ReaderOK(r)'
    BY <1>2, <2>1 DEF ReaderOK, OpenedOK, HitsOK, MatchesOK, SeenOK, Opened
  <2> QED BY <1>1, <1>2, <2>2, TurnStep
<1> DEFINE regex(query) == [NoSearch EXCEPT !.mode = "regex", !.query = query]
           hybrid == [NoSearch EXCEPT !.mode = "hybrid"]
           read(d) == [NoSearch EXCEPT !.mode = "read", !.todo = {d}]
<1>3. ASSUME NEW query \in Queries
      PROVE  /\ regex(query) \in Search /\ regex(query).mode = "regex"
             /\ regex(query).base = NoPointer /\ regex(query).hits = {}
  BY NoSearchOK DEF NoSearch, Search
<1>4. hybrid \in Search /\ hybrid.mode = "hybrid" /\ hybrid.base = NoPointer
      /\ hybrid.hits = {}
  BY NoSearchOK DEF NoSearch, Search
<1>5. ASSUME NEW d \in Docs
      PROVE  /\ read(d) \in Search /\ read(d).todo # {}
             /\ read(d).base = NoPointer /\ read(d).hits = {}
  BY NoSearchOK DEF NoSearch, Search
<1>6. \/ \E query \in Queries : search' = [search EXCEPT ![r] = regex(query)]
      \/ search' = [search EXCEPT ![r] = hybrid]
      \/ \E d \in Docs : search' = [search EXCEPT ![r] = read(d)]
  BY DEF StartSearch
<1> HIDE DEF regex, hybrid, read
<1>7. ASSUME NEW query \in Queries, search' = [search EXCEPT ![r] = regex(query)]
      PROVE  Own(r)
  BY <1>2, <1>3, <1>7
<1>8. ASSUME search' = [search EXCEPT ![r] = hybrid]
      PROVE  Own(r)
  BY <1>2, <1>4, <1>8
<1>9. ASSUME NEW d \in Docs, search' = [search EXCEPT ![r] = read(d)]
      PROVE  Own(r)
  BY <1>2, <1>5, <1>9
<1> QED BY <1>6, <1>7, <1>8, <1>9

\* The pointer that is opened names a published snapshot.
LEMMA OpenPointerStep ==
    ASSUME SearchInv, NEW r \in Readers, OpenPointer(r)
    PROVE  Own(r)
<1>1. CASE Leave(r)
  BY <1>1, LeaveStep
<1>2. CASE /\ current # NoPointer /\ search' = [search EXCEPT ![r].base = current]
           /\ Turn(r, "opening") /\ UNCHANGED seen
  <2> DEFINE s == [search[r] EXCEPT !.base = current]
  <2>1. Named(current) /\ current \in Pointer
    BY <1>2 DEF SearchInv, Inv, DiskOK, TypeOK
  <2>2. /\ search[r] \in Search /\ ReaderOK(r) /\ rpc[r] = "starting"
        /\ seen[r] \in SUBSET Written
    BY TurnValues DEF OpenPointer
  <2>3. s \in Search /\ search' = [search EXCEPT ![r] = s]
    BY <1>2, <2>1, <2>2 DEF Search
  <2>4. rpc'[r] = "opening" /\ search'[r] = s
    BY <1>2, <2>3, TurnValues DEF Labelled
  <2>5. s.base = current /\ s.hits = {} /\ (s.mode = "read" => s.todo # {})
    BY <2>2 DEF Search, ReaderOK, HitsOK
  <2>6. UNCHANGED <<disk, published>>
    BY DEF OpenPointer, writerVars
  <2> HIDE DEF s
  <2>7. ReaderOK(r)'
    BY <2>1, <2>4, <2>5, <2>6 DEF ReaderOK, OpenedOK, HitsOK, MatchesOK, SeenOK, Opened,
       Named
  <2> QED BY <1>2, <2>2, <2>3, <2>7, TurnValues, TurnStep DEF Labelled
<1> QED BY <1>1, <1>2 DEF OpenPointer

\* The manifest is looked at only.
LEMMA OpenManifestStep ==
    ASSUME SearchInv, NEW r \in Readers, OpenManifest(r)
    PROVE  Own(r)
<1>1. CASE Leave(r)
  BY <1>1, LeaveStep
<1>2. CASE Turn(r, "opened") /\ UNCHANGED <<search, seen>>
  <2>1. /\ search[r] \in Search /\ ReaderOK(r) /\ rpc[r] = "opening"
        /\ seen[r] \in SUBSET Written /\ search' = [search EXCEPT ![r] = search[r]]
    BY <1>2, TurnValues DEF OpenManifest
  <2>2. rpc'[r] = "opened" /\ search'[r] = search[r]
    BY <1>2, TurnValues DEF Labelled
  <2>3. UNCHANGED <<disk, published>>
    BY DEF OpenManifest, writerVars
  <2>4. ReaderOK(r)'
    BY <2>1, <2>2, <2>3 DEF ReaderOK, OpenedOK, HitsOK, MatchesOK, SeenOK, Opened, Named
  <2> QED BY <1>2, <2>1, <2>4, TurnValues, TurnStep DEF Labelled
<1> QED BY <1>1, <1>2 DEF OpenManifest

\* The trigram index of the snapshot has each match.
LEMMA OpenTrigramStep ==
    ASSUME SearchInv, NEW r \in Readers, OpenTrigram(r)
    PROVE  Own(r)
<1> DEFINE index == disk[search[r].base.gen].trigram
           todo == IF search[r].mode = "hybrid" THEN Paths(index)
                   ELSE Paths({e \in index : e.text \in search[r].query})
           s == [search[r] EXCEPT !.todo = todo]
<1>1. CASE Leave(r)
  BY <1>1, LeaveStep
<1>2. CASE /\ index # {} /\ search' = [search EXCEPT ![r].todo = todo]
           /\ Turn(r, "matching") /\ UNCHANGED seen
  <2>1. /\ search[r] \in Search /\ ReaderOK(r) /\ rpc[r] = "opened"
        /\ seen[r] \in SUBSET Written
    BY TurnValues DEF OpenTrigram
  <2>2. Named(search[r].base) /\ search[r].hits = {}
    BY <2>1 DEF ReaderOK, OpenedOK, HitsOK, Opened
  <2>3. index = Texts(search[r].base.manifest) /\ index \in SUBSET Written
    BY <1>2, <2>2 DEF Named, SearchInv, Inv, TypeOK, Dir
  <2>4. todo \in SUBSET Docs
    BY <2>3 DEF Paths, Written
  <2>5. ASSUME search[r].mode = "regex", NEW e \in Matches(search[r])
        PROVE  e.path \in todo
    <3>1. [path |-> e.path, text |-> e.text] \in index /\ e.text \in search[r].query
      BY <2>3 DEF Matches, Texts
    <3> QED BY <2>5, <3>1 DEF Paths
  <2> HIDE DEF todo
  <2>6. s \in Search /\ search' = [search EXCEPT ![r] = s]
    BY <1>2, <2>1, <2>4 DEF Search
  <2>7. rpc'[r] = "matching" /\ search'[r] = s
    BY <1>2, <2>6, TurnValues DEF Labelled
  <2>8. /\ s.base = search[r].base /\ s.hits = {} /\ s.todo = todo
        /\ s.mode = search[r].mode /\ Matches(s) = Matches(search[r])
    BY <2>1, <2>2 DEF Search, Matches
  <2>9. UNCHANGED <<disk, published>>
    BY DEF OpenTrigram, writerVars
  <2> HIDE DEF s
  <2>10. OpenedOK(r)' /\ HitsOK(r)'
    BY <2>2, <2>7, <2>8, <2>9 DEF OpenedOK, HitsOK, Opened, Named
  <2>11. MatchesOK(r)'
    BY <2>5, <2>7, <2>8 DEF MatchesOK
  <2>12. SeenOK(r)'
    BY <2>7, <2>8 DEF SeenOK
  <2> QED BY <1>2, <2>1, <2>6, <2>10, <2>11, <2>12, TurnValues, TurnStep
           DEF Labelled, ReaderOK
<1> QED BY <1>1, <1>2 DEF OpenTrigram

\* The text of a document in a directory where it is intact: the one that the
\* manifest has of it.
LEMMA IntactText ==
    ASSUME NEW gen, NEW manifest \in SUBSET Entry, Proper(manifest), NEW d,
           TextIntact(gen, manifest, d), NEW e \in manifest, e.path = d
    PROVE  [path |-> e.path, text |-> e.text] \in TextOnDisk(gen, d)
<1>1. PICK x \in TextOnDisk(gen, d) : x \in Texts(manifest)
  BY DEF TextIntact
<1>2. x.path = d
  BY <1>1 DEF TextOnDisk
<1>3. PICK f \in manifest : x = [path |-> f.path, text |-> f.text]
  BY <1>1 DEF Texts
<1>4. f = e
  BY <1>2, <1>3 DEF Proper
<1> QED BY <1>1, <1>3, <1>4

\* A candidate becomes a hit, is stale, or stops the search.
LEMMA MatchStep ==
    ASSUME SearchInv, NEW r \in Readers, Match(r)
    PROVE  Own(r)
<1> DEFINE d == First(search[r].todo)
           base == search[r].base
           full == search[r].mode = "regex" /\ Cardinality(search[r].hits) = Limit
<1>1. CASE Leave(r)
  BY <1>1, LeaveStep
<1>2. /\ search[r] \in Search /\ ReaderOK(r) /\ rpc[r] = "matching"
      /\ seen[r] \in SUBSET Written /\ search[r].todo # {}
  BY TurnValues DEF Match
<1>3. d \in search[r].todo /\ base \in Pointer /\ base.manifest \in SUBSET Entry
  BY <1>2, FirstIsOne DEF Search, Pointer
<1>4. Named(base) /\ search[r].hits \subseteq Texts(base.manifest)
  BY <1>2 DEF ReaderOK, OpenedOK, HitsOK, Opened
<1>5. \A e \in Matches(search[r]) : search[r].mode = "regex" =>
          Hit(search[r], e) \/ e.path \in search[r].stale \cup search[r].todo
  BY <1>2 DEF ReaderOK, MatchesOK
<1>6. UNCHANGED <<disk, published>>
  BY DEF Match, writerVars
<1> HIDE DEF d, full
<1>7. ASSUME UNCHANGED <<rpc, seen>>, NEW s \in Search, search' = [search EXCEPT ![r] = s],
             s.base = base, s.mode = search[r].mode, s.query = search[r].query,
             s.hits \subseteq Texts(base.manifest),
             \A e \in Matches(search[r]) : search[r].mode = "regex" =>
               \/ Hit(s, e) \/ e.path \in s.stale \cup s.todo
               \/ s.truncated /\ s.todo = {}
      PROVE  Own(r)
  <2>1. rpc'[r] = "matching" /\ Turn(r, "matching")
        /\ seen' = [seen EXCEPT ![r] = seen[r]]
    BY <1>2, <1>7 DEF Turn, SearchInv, SearchTypeOK
  <2>0. search'[r] = s
    BY <1>7, TurnValues
  <2>2. OpenedOK(r)' /\ HitsOK(r)'
    BY <1>4, <1>6, <1>7, <2>0, <2>1 DEF OpenedOK, HitsOK, Opened, Named
  <2>3. Matches(s) = Matches(search[r])
    BY <1>7 DEF Matches
  <2>4. MatchesOK(r)' /\ SeenOK(r)'
    BY <1>7, <2>0, <2>1, <2>3 DEF MatchesOK, SeenOK
  <2> QED BY <1>2, <1>7, <2>1, <2>2, <2>4, TurnStep DEF ReaderOK, Labelled
<1>8. CASE /\ ~Fresh(base.manifest, d) /\ UNCHANGED <<rpc, seen>>
           /\ search' = [search EXCEPT ![r].todo = @ \ {d}, ![r].stale = @ \cup {d}]
  <2> DEFINE s == [search[r] EXCEPT !.todo = @ \ {d}, !.stale = @ \cup {d}]
  <2>1. /\ s \in Search /\ search' = [search EXCEPT ![r] = s]
        /\ s.base = base /\ s.mode = search[r].mode /\ s.query = search[r].query
        /\ s.hits = search[r].hits /\ s.todo = search[r].todo \ {d}
        /\ s.stale = search[r].stale \cup {d}
    BY <1>2, <1>3, <1>8 DEF Search
  <2> HIDE DEF s
  <2>2. ASSUME NEW e \in Matches(search[r]), search[r].mode = "regex"
        PROVE  Hit(s, e) \/ e.path \in s.stale \cup s.todo
    BY <1>5, <2>1, <2>2 DEF Hit
  <2> QED BY <1>4, <1>7, <1>8, <2>1, <2>2
<1>9. CASE /\ TextIntact(base.gen, base.manifest, d) /\ UNCHANGED <<rpc, seen>>
           /\ search' = [search EXCEPT
                ![r].todo = IF full THEN {} ELSE @ \ {d},
                ![r].hits = IF full THEN @ ELSE @ \cup TextOnDisk(base.gen, d),
                ![r].truncated = full]
  <2> DEFINE s == [search[r] EXCEPT
                !.todo = IF full THEN {} ELSE @ \ {d},
                !.hits = IF full THEN @ ELSE @ \cup TextOnDisk(base.gen, d),
                !.truncated = full]
  <2>1. TextOnDisk(base.gen, d) \in SUBSET Written
        /\ TextOnDisk(base.gen, d) \subseteq Texts(base.manifest)
    BY <1>4, <1>9 DEF TextOnDisk, TextIntact, Named, SearchInv, Inv, TypeOK, Dir
  <2>2. full \in BOOLEAN
    BY DEF full
  <2>3. /\ s \in Search /\ search' = [search EXCEPT ![r] = s]
        /\ s.base = base /\ s.mode = search[r].mode /\ s.query = search[r].query
        /\ s.stale = search[r].stale
        /\ full => s.todo = {} /\ s.truncated /\ s.hits = search[r].hits
        /\ ~full => /\ s.todo = search[r].todo \ {d}
                    /\ s.hits = search[r].hits \cup TextOnDisk(base.gen, d)
    BY <1>2, <1>3, <1>9, <2>1, <2>2 DEF Search
  <2> HIDE DEF s
  <2>4. ASSUME NEW e \in Matches(search[r]), search[r].mode = "regex", ~full
        PROVE  Hit(s, e) \/ e.path \in s.stale \cup s.todo
    <3>1. CASE e.path = d
      <4>1. [path |-> e.path, text |-> e.text] \in TextOnDisk(base.gen, d)
        BY <1>3, <1>4, <1>9, <3>1, IntactText DEF Matches, Named
      <4> QED BY <2>3, <2>4, <4>1 DEF Hit
    <3>2. CASE e.path # d
      BY <1>5, <2>3, <2>4, <3>2 DEF Hit
    <3> QED BY <3>1, <3>2
  <2>5. s.hits \subseteq Texts(base.manifest)
    BY <1>4, <2>1, <2>3
  <2> QED BY <1>7, <1>9, <2>3, <2>4, <2>5
<1> QED BY <1>1, <1>8, <1>9 DEF Match, d, full

\* What the sources of a snapshot have now are texts.
LEMMA PresentType ==
    ASSUME TypeOK, NEW manifest \in SUBSET Entry
    PROVE  Present(manifest) \in SUBSET Written
<1>1. Paths(manifest) \subseteq Docs
  BY DEF Paths, Entry
<1> QED BY <1>1, ExtractType DEF Present, Written

\* The reply keeps some of the candidates, each of which is still to be checked.
LEMMA ScoreStep ==
    ASSUME SearchInv, NEW r \in Readers, Score(r)
    PROVE  Own(r)
<1>1. PICK kept \in SUBSET search[r].hits :
        /\ search[r].mode = "regex" => kept = search[r].hits
        /\ search' = [search EXCEPT ![r].hits = kept, ![r].todo = Paths(kept)]
  BY DEF Score
<1> DEFINE base == search[r].base
           s == [search[r] EXCEPT !.hits = kept, !.todo = Paths(kept)]
<1>2. /\ search[r] \in Search /\ ReaderOK(r) /\ rpc[r] = "matching"
      /\ search[r].todo = {} /\ Turn(r, "rechecking")
      /\ seen' = [seen EXCEPT ![r] = Present(base.manifest)]
  BY TurnValues DEF Score
<1>3. base.manifest \in SUBSET Entry /\ kept \in SUBSET Written
      /\ Paths(kept) \in SUBSET Docs
  BY <1>1, <1>2 DEF Search, Pointer, Written, Paths
<1>4. Present(base.manifest) \in SUBSET Written
  BY <1>3, PresentType DEF SearchInv, Inv
<1>5. /\ s \in Search /\ search' = [search EXCEPT ![r] = s]
      /\ s.base = base /\ s.mode = search[r].mode /\ s.query = search[r].query
      /\ s.hits = kept /\ s.todo = Paths(kept) /\ s.stale = search[r].stale
      /\ s.truncated = search[r].truncated
  BY <1>1, <1>2, <1>3 DEF Search
<1> HIDE DEF s
<1>6. search'[r] = s /\ rpc'[r] = "rechecking" /\ seen'[r] = Present(base.manifest)
      /\ UNCHANGED <<disk, published, source>>
  BY <1>2, <1>5, TurnValues DEF Labelled, Score, writerVars
<1>7. OpenedOK(r)' /\ HitsOK(r)'
  BY <1>1, <1>2, <1>5, <1>6 DEF ReaderOK, OpenedOK, HitsOK, Opened, Named
<1>8. MatchesOK(r)'
  <2>1. Matches(s) = Matches(search[r])
    BY <1>5 DEF Matches
  <2> QED BY <1>1, <1>2, <1>5, <1>6, <2>1 DEF ReaderOK, MatchesOK, Hit
<1>9. SeenOK(r)'
  <2>1. search'[r].base.manifest = base.manifest /\ search'[r].hits = kept
        /\ search'[r].todo = Paths(kept)
    BY <1>5, <1>6
  <2>2. \A h \in kept : h.path \in Paths(kept)
    BY DEF Paths
  <2> QED BY <1>6, <2>1, <2>2 DEF SeenOK, Present
<1> QED BY <1>2, <1>4, <1>5, <1>7, <1>8, <1>9, TurnStep DEF ReaderOK, Labelled

\* A node is read from a text of the snapshot.
LEMMA ReadNodeStep ==
    ASSUME SearchInv, NEW r \in Readers, ReadNode(r)
    PROVE  Own(r)
<1> DEFINE d == First(search[r].todo)
           base == search[r].base
           hits == TextOnDisk(base.gen, d)
           s == [search[r] EXCEPT !.hits = hits]
<1>1. CASE Leave(r)
  BY <1>1, LeaveStep
<1>2. CASE /\ TextIntact(base.gen, base.manifest, d)
           /\ search' = [search EXCEPT ![r].hits = hits]
           /\ seen' = [seen EXCEPT ![r] = Present(base.manifest)]
           /\ Turn(r, "rechecking")
  <2>1. /\ search[r] \in Search /\ ReaderOK(r) /\ rpc[r] = "opened"
        /\ search[r].mode = "read"
    BY TurnValues DEF ReadNode
  <2>2. Named(base) /\ base.manifest \in SUBSET Entry /\ d \in search[r].todo
    BY <2>1, FirstIsOne DEF ReaderOK, OpenedOK, HitsOK, Opened, Search, Pointer
  <2>3. hits \in SUBSET Written /\ hits \subseteq Texts(base.manifest)
        /\ \A h \in hits : h.path = d
    BY <1>2, <2>2 DEF TextOnDisk, TextIntact, Named, SearchInv, Inv, TypeOK, Dir
  <2> HIDE DEF hits
  <2>4. /\ s \in Search /\ search' = [search EXCEPT ![r] = s]
        /\ s.base = base /\ s.mode = "read" /\ s.hits = hits
        /\ s.todo = search[r].todo
    BY <1>2, <2>1, <2>3 DEF Search
  <2> HIDE DEF s
  <2>5. Present(base.manifest) \in SUBSET Written
    BY <2>2, PresentType DEF SearchInv, Inv
  <2>6. rpc'[r] = "rechecking" /\ seen'[r] = Present(base.manifest)
        /\ UNCHANGED <<disk, published, source>>
    BY <1>2, TurnValues DEF Labelled, ReadNode, writerVars
  <2>7. search'[r] = s
    BY <2>4, TurnValues
  <2>8. OpenedOK(r)' /\ HitsOK(r)' /\ MatchesOK(r)'
    BY <2>2, <2>3, <2>4, <2>6, <2>7 DEF OpenedOK, HitsOK, MatchesOK, Opened, Named
  <2>9. SeenOK(r)'
    <3>1. search'[r].base.manifest = base.manifest /\ search'[r].hits = hits
          /\ search'[r].todo = search[r].todo
      BY <2>4, <2>7
    <3> QED BY <2>2, <2>3, <2>6, <3>1 DEF SeenOK, Present
  <2> QED BY <1>2, <2>4, <2>5, <2>8, <2>9, TurnStep DEF ReaderOK, Labelled
<1> QED BY <1>1, <1>2 DEF ReadNode

\* A hit whose source is fresh has the text that the source has now.
LEMMA FreshHit ==
    ASSUME NEW manifest, Proper(manifest), Faithful(manifest),
           NEW d, Fresh(manifest, d), NEW h \in Texts(manifest), h.path = d
    PROVE  h \in Present(manifest)
<1>1. PICK e \in manifest : e.path = d /\ e.source = source[d]
  BY DEF Fresh
<1>2. PICK f \in manifest : h = [path |-> f.path, text |-> f.text]
  BY DEF Texts
<1>3. f = e
  BY <1>1, <1>2 DEF Proper
<1>4. h.text = TextOf[source[d]] /\ source[d] # Absent
  BY <1>1, <1>2, <1>3 DEF Proper, Faithful
<1>5. h = [path |-> d, text |-> Extract(source[d])]
  BY <1>2, <1>4 DEF Extract
<1>6. d \in Paths(manifest)
  BY <1>1 DEF Paths
<1> QED BY <1>5, <1>6 DEF Present

\* A hit that is still fresh was seen after the inference; a stale one is dropped.
LEMMA RecheckHitStep ==
    ASSUME SearchInv, NEW r \in Readers, RecheckHit(r)
    PROVE  Own(r)
<1> DEFINE d == First(search[r].todo)
           base == search[r].base
<1>1. CASE Leave(r)
  BY <1>1, LeaveStep
<1>2. /\ search[r] \in Search /\ ReaderOK(r) /\ rpc[r] = "rechecking"
      /\ seen[r] \in SUBSET Written /\ search[r].todo # {}
  BY TurnValues DEF RecheckHit
<1>3. d \in search[r].todo /\ d \in Docs
  BY <1>2, FirstIsOne DEF Search
<1>4. Named(base) /\ search[r].hits \subseteq Texts(base.manifest)
  BY <1>2 DEF ReaderOK, OpenedOK, HitsOK, Opened
<1>5. /\ Present(base.manifest) \subseteq seen[r]
      /\ Restores = FALSE => \A h \in search[r].hits : h.path \in search[r].todo \/ h \in seen[r]
  BY <1>2 DEF ReaderOK, SeenOK
<1>6. UNCHANGED <<disk, published, source>>
  BY DEF RecheckHit, writerVars
<1>7. ASSUME UNCHANGED <<rpc, seen>>, NEW s \in Search, search' = [search EXCEPT ![r] = s],
             s.base = base, s.mode = search[r].mode, s.query = search[r].query,
             s.truncated = search[r].truncated, s.hits \subseteq search[r].hits,
             \A e \in Matches(search[r]) :
               Hit(search[r], e) => Hit(s, e) \/ e.path \in s.stale,
             search[r].stale \subseteq s.stale,
             Restores = FALSE => \A h \in s.hits : h.path \in s.todo \/ h \in seen[r]
      PROVE  Own(r)
  <2>1. rpc'[r] = "rechecking" /\ Turn(r, "rechecking")
        /\ seen' = [seen EXCEPT ![r] = seen[r]] /\ seen'[r] = seen[r]
    BY <1>2, <1>7 DEF Turn, SearchInv, SearchTypeOK
  <2>2. search'[r] = s
    BY <1>7, TurnValues
  <2>3. OpenedOK(r)' /\ HitsOK(r)'
    BY <1>4, <1>6, <1>7, <2>1, <2>2 DEF OpenedOK, HitsOK, Opened, Named
  <2>4. Matches(s) = Matches(search[r])
    BY <1>7 DEF Matches
  <2>5. MatchesOK(r)'
    BY <1>2, <1>7, <2>1, <2>2, <2>4 DEF ReaderOK, MatchesOK
  <2>6. SeenOK(r)'
    <3>1. search'[r].base.manifest = base.manifest
      BY <1>7, <2>2
    <3> QED BY <1>5, <1>6, <1>7, <2>1, <2>2, <3>1 DEF SeenOK, Present
  <2> QED BY <1>2, <1>7, <2>1, <2>3, <2>5, <2>6, TurnStep DEF ReaderOK, Labelled
<1>8. CASE /\ Fresh(base.manifest, d) /\ UNCHANGED <<rpc, seen>>
           /\ search' = [search EXCEPT ![r].todo = @ \ {d}]
  <2> DEFINE s == [search[r] EXCEPT !.todo = @ \ {d}]
  <2>1. \A h \in search[r].hits : Restores = FALSE /\ h.path = d => h \in seen[r]
    BY <1>4, <1>5, <1>8, FreshHit DEF Named
  <2> HIDE DEF d
  <2>2. /\ s \in Search /\ search' = [search EXCEPT ![r] = s]
        /\ s.base = base /\ s.mode = search[r].mode /\ s.query = search[r].query
        /\ s.truncated = search[r].truncated /\ s.hits = search[r].hits
        /\ s.stale = search[r].stale /\ s.todo = search[r].todo \ {d}
    BY <1>2, <1>3, <1>8 DEF Search
  <2> HIDE DEF s
  <2>3. Restores = FALSE => \A h \in s.hits : h.path \in s.todo \/ h \in seen[r]
    BY <1>5, <2>1, <2>2
  <2>4. \A e \in Matches(search[r]) :
          Hit(search[r], e) => Hit(s, e) \/ e.path \in s.stale
    BY <2>2 DEF Hit
  <2> QED BY <1>7, <1>8, <2>2, <2>3, <2>4
<1>9. CASE /\ UNCHANGED <<rpc, seen>>
           /\ search' = [search EXCEPT ![r].todo = @ \ {d},
                          ![r].stale = @ \cup {d},
                          ![r].hits = {e \in @ : e.path # d}]
  <2> DEFINE s == [search[r] EXCEPT !.todo = @ \ {d}, !.stale = @ \cup {d},
                                    !.hits = {e \in @ : e.path # d}]
  <2> HIDE DEF d
  <2>1. /\ s \in Search /\ search' = [search EXCEPT ![r] = s]
        /\ s.base = base /\ s.mode = search[r].mode /\ s.query = search[r].query
        /\ s.truncated = search[r].truncated
        /\ s.hits = {e \in search[r].hits : e.path # d}
        /\ s.stale = search[r].stale \cup {d} /\ s.todo = search[r].todo \ {d}
    BY <1>2, <1>3, <1>9 DEF Search
  <2> HIDE DEF s
  <2>2. Restores = FALSE => \A h \in s.hits : h.path \in s.todo \/ h \in seen[r]
    BY <1>5, <2>1
  <2>3. \A e \in Matches(search[r]) :
          Hit(search[r], e) => Hit(s, e) \/ e.path \in s.stale
    BY <2>1 DEF Hit
  <2> QED BY <1>7, <1>9, <2>1, <2>2, <2>3
<1> QED BY <1>1, <1>8, <1>9 DEF RecheckHit

\* What is reported has nothing left to be checked.
LEMMA ReportStep ==
    ASSUME SearchInv, NEW r \in Readers, Report(r)
    PROVE  Own(r)
<1>1. /\ search[r] \in Search /\ ReaderOK(r) /\ rpc[r] = "rechecking"
      /\ search[r].todo = {} /\ Turn(r, "reported") /\ UNCHANGED <<search, seen>>
      /\ seen[r] \in SUBSET Written /\ UNCHANGED <<disk, published>>
  BY TurnValues DEF Report, writerVars
<1>2. rpc'[r] = "reported" /\ search'[r] = search[r] /\ seen'[r] = seen[r]
      /\ search' = [search EXCEPT ![r] = search[r]]
      /\ seen' = [seen EXCEPT ![r] = seen[r]]
  BY <1>1 DEF Turn, SearchInv, SearchTypeOK
<1>3. OpenedOK(r)' /\ HitsOK(r)' /\ MatchesOK(r)' /\ SeenOK(r)'
  BY <1>1, <1>2 DEF ReaderOK, OpenedOK, HitsOK, MatchesOK, SeenOK, Opened, Named
<1> QED BY <1>1, <1>2, <1>3, TurnStep DEF ReaderOK, Labelled

\* Every step of a reader.
LEMMA ReadStepOK ==
    ASSUME SearchInv, NEW r \in Readers, Read(r)
    PROVE  Own(r) /\ UNCHANGED writerVars
<1>1. EndSearch(r) => Own(r)
  BY LeaveStep DEF EndSearch
<1>2. UNCHANGED writerVars
  BY DEF Read, StartSearch, OpenPointer, OpenManifest, OpenTrigram, Match, Score,
     ReadNode, RecheckHit, Report, EndSearch
<1> QED BY <1>1, <1>2, StartSearchStep, OpenPointerStep, OpenManifestStep,
           OpenTrigramStep, MatchStep, ScoreStep, ReadNodeStep, RecheckHitStep, ReportStep
           DEF Read

\* A step of one reader leaves what another keeps in order.
LEMMA ReadersStep ==
    ASSUME SearchInv, NEW r \in Readers, Read(r)
    PROVE  SearchInv'
<1>1. Own(r) /\ UNCHANGED writerVars
  BY ReadStepOK
<1>2. Inv'
  BY <1>1, NextOK DEF SearchInv
<1>3. ASSUME NEW q \in Readers \ {r} PROVE ReaderOK(q)'
  <2>1. /\ rpc'[q] = rpc[q] /\ search'[q] = search[q] /\ seen'[q] = seen[q]
        /\ UNCHANGED <<disk, published, source>> /\ ReaderOK(q)
    BY <1>1 DEF Own, writerVars, SearchInv
  <2>2. OpenedOK(q)' /\ HitsOK(q)' /\ MatchesOK(q)'
    BY <2>1 DEF ReaderOK, OpenedOK, HitsOK, MatchesOK, Named
  <2>3. SeenOK(q)'
    BY <2>1 DEF ReaderOK, SeenOK, Present
  <2> QED BY <2>2, <2>3 DEF ReaderOK
<1> QED BY <1>1, <1>2, <1>3 DEF SearchInv, Own

\* SearchInv holds at the start.
LEMMA SearchInitOK == SearchInit => SearchInv
<1> SUFFICES ASSUME SearchInit PROVE SearchInv
  OBVIOUS
<1>1. Inv
  BY InitOK DEF SearchInit
<1>2. SearchTypeOK
  BY NoSearchOK DEF SearchInit, SearchTypeOK, Labelled
<1>3. ASSUME NEW r \in Readers PROVE ReaderOK(r)
  BY DEF SearchInit, ReaderOK, OpenedOK, HitsOK, MatchesOK, SeenOK, Opened, NoSearch
<1> QED BY <1>1, <1>2, <1>3 DEF SearchInv

\* Every step keeps SearchInv.
LEMMA SearchNextOK == SearchInv /\ [SearchNext]_vars => SearchInv'
<1> SUFFICES ASSUME SearchInv, [SearchNext]_vars PROVE SearchInv'
  OBVIOUS
<1>1. CASE UNCHANGED vars
  <2>1. UNCHANGED <<rpc, search, seen, disk, published, source>> /\ UNCHANGED writerVars
    BY <1>1 DEF vars, readerVars, writerVars
  <2>2. Inv'
    BY <2>1, NextOK DEF SearchInv
  <2>3. ASSUME NEW r \in Readers PROVE ReaderOK(r)'
    <3>1. ReaderOK(r)
      BY DEF SearchInv
    <3>2. OpenedOK(r)' /\ HitsOK(r)' /\ MatchesOK(r)'
      BY <2>1, <3>1 DEF ReaderOK, OpenedOK, HitsOK, MatchesOK, Named
    <3>3. SeenOK(r)'
      BY <2>1, <3>1 DEF ReaderOK, SeenOK, Present
    <3> QED BY <3>2, <3>3 DEF ReaderOK
  <2> QED BY <2>1, <2>2, <2>3 DEF SearchInv, SearchTypeOK
<1> QED BY <1>1, WriterStep, EditSearchStep, ReadersStep, PowerLossStep DEF SearchNext

\* SearchInv holds in every reachable state.
LEMMA SearchInvariance == SearchSpec => []SearchInv
BY SearchInitOK, SearchNextOK, PTL DEF SearchSpec
---------------------------------------------------------------------------
(***************************************************************************)
(* The theorems.                                                           *)
(***************************************************************************)

\* Without restored contents, every text in a report is one that its source had
\* after the inference, whatever is edited, published or lost meanwhile.
THEOREM FreshAnswers == SearchSpec => [](Restores = FALSE => FreshEvidence)
<1>1. SearchInv => (Restores = FALSE => FreshEvidence)
  BY DEF SearchInv, ReaderOK, SeenOK, FreshEvidence, Reported
<1> QED BY <1>1, SearchInvariance, PTL

\* Every match of a regex search in the snapshot that it opened is reported, or its
\* document is reported stale, or the report says that it stopped at the limit.
THEOREM NothingMissed == SearchSpec => []NoSilentMiss
<1>1. SearchInv => NoSilentMiss
  BY DEF SearchInv, ReaderOK, MatchesOK, Matches, Hit, NoSilentMiss, Reported
<1> QED BY <1>1, SearchInvariance, PTL
---------------------------------------------------------------------------
(***************************************************************************)
(* The refinement: a store of whole snapshots.                             *)
(***************************************************************************)

View(r)   == Texts(search[r].base.manifest)
Answer(r) == IF Reported(r) THEN search[r].hits ELSE {}

\* A manifest with documents has texts.
LEMMA TextsOfSome == \A manifest : manifest # {} => Texts(manifest) # {}
<1> SUFFICES ASSUME NEW manifest, NEW e \in manifest PROVE Texts(manifest) # {}
  OBVIOUS
<1>1. [path |-> e.path, text |-> e.text] \in Texts(manifest)
  BY DEF Texts
<1> QED BY <1>1

\* What the store shows of a reader whose neighbours stay where they are.
LEMMA ShownStep ==
    ASSUME SearchInv, NEW r \in Readers, Own(r), UNCHANGED writerVars
    PROVE  /\ UNCHANGED Texts(current.manifest)
           /\ [q \in Readers |-> View(q)]' =
                 [[q \in Readers |-> View(q)] EXCEPT ![r] = View(r)']
           /\ [q \in Readers |-> Answer(q)]' =
                 [[q \in Readers |-> Answer(q)] EXCEPT ![r] = Answer(r)']
<1>1. \A q \in Readers \ {r} : View(q)' = View(q) /\ Answer(q)' = Answer(q)
  BY DEF Own, View, Answer, Reported
<1>2. UNCHANGED Texts(current.manifest)
  BY DEF writerVars
<1> QED BY <1>1, <1>2

\* A step that a reader takes between opening a snapshot and reporting on it.
LEMMA HiddenStep ==
    ASSUME SearchInv, NEW r \in Readers, Own(r), UNCHANGED writerVars,
           View(r)' = View(r), Answer(r)' = Answer(r)
    PROVE  UNCHANGED Store!vars
<1>1. /\ UNCHANGED Texts(current.manifest)
      /\ UNCHANGED [q \in Readers |-> View(q)] /\ UNCHANGED [q \in Readers |-> Answer(q)]
  BY ShownStep
<1> QED BY <1>1 DEF Store!vars, View, Answer

\* A reader that leaves closes its snapshot.
LEMMA CloseStep ==
    ASSUME SearchInv, NEW r \in Readers, Leave(r), UNCHANGED writerVars
    PROVE  Store!Close(r)
<1>1. View(r)' = {} /\ Answer(r)' = {}
  BY DEF Leave, Turn, NoSearch, NoPointer, View, Answer, Reported, Texts, SearchInv,
     SearchTypeOK
<1>2. Own(r)
  BY LeaveStep
<1> QED BY <1>1, <1>2, ShownStep DEF Store!Close, View, Answer

\* Each step of a reader opens, delivers, closes, or cannot be seen.
LEMMA ReadRefines ==
    ASSUME SearchInv, NEW r \in Readers, Read(r)
    PROVE  Store!Open(r) \/ Store!Deliver(r) \/ Store!Close(r) \/ UNCHANGED Store!vars
<1>1. Own(r) /\ UNCHANGED writerVars /\ ReaderOK(r) /\ search[r] \in Search
  BY ReadStepOK DEF SearchInv, SearchTypeOK
<1>2. CASE Leave(r)
  BY <1>1, <1>2, CloseStep
<1>3. CASE OpenPointer(r) /\ ~Leave(r)
  <2>1. /\ rpc[r] = "starting" /\ current # NoPointer
        /\ search'[r].base = current /\ rpc'[r] = "opening"
    BY <1>3 DEF OpenPointer, Turn, SearchInv, SearchTypeOK, Search
  <2>2. View(r) = {} /\ View(r)' = Texts(current.manifest)
    BY <1>1, <2>1 DEF ReaderOK, OpenedOK, View, NoPointer, Texts
  <2>3. Texts(current.manifest) # {}
    BY <2>1, TextsOfSome DEF SearchInv, Inv, DiskOK, Named
  <2>4. Answer(r)' = Answer(r)
    BY <2>1 DEF Answer, Reported
  <2>5. /\ [q \in Readers |-> View(q)]' =
              [[q \in Readers |-> View(q)] EXCEPT ![r] = Texts(current.manifest)]
        /\ UNCHANGED [q \in Readers |-> Answer(q)]
        /\ UNCHANGED Texts(current.manifest)
    BY <1>1, <2>2, <2>4, ShownStep
  <2> QED BY <2>2, <2>3, <2>5 DEF Store!Open, View, Answer
<1>4. CASE Report(r)
  <2>1. /\ rpc[r] = "rechecking" /\ rpc'[r] = "reported" /\ search'[r] = search[r]
    BY <1>4 DEF Report, Turn, SearchInv, SearchTypeOK
  <2>2. View(r)' = View(r) /\ Answer(r) = {} /\ Answer(r)' = search[r].hits
    BY <2>1 DEF View, Answer, Reported
  <2>3. View(r) # {} /\ search[r].hits \subseteq View(r)
    BY <1>1, <2>1, TextsOfSome DEF ReaderOK, OpenedOK, HitsOK, Opened, Named, View
  <2>4. /\ [q \in Readers |-> Answer(q)]' =
              [[q \in Readers |-> Answer(q)] EXCEPT ![r] = search[r].hits]
        /\ UNCHANGED [q \in Readers |-> View(q)]
        /\ UNCHANGED Texts(current.manifest)
    BY <1>1, <2>2, ShownStep
  <2> QED BY <2>2, <2>3, <2>4 DEF Store!Deliver, View, Answer
<1>5. CASE ~Leave(r) /\ ~OpenPointer(r) /\ ~Report(r)
  <2>1. search'[r].base = search[r].base
    <3>1. CASE StartSearch(r)
      <4>1. search[r].base = NoPointer
        <5>1. rpc[r] = "idle"
          BY <3>1 DEF StartSearch
        <5>2. search[r] = NoSearch
          BY <1>1, <5>1 DEF ReaderOK, OpenedOK
        <5> QED BY <5>2 DEF NoSearch
      <4>2. rpc'[r] = "starting" /\ ReaderOK(r)'
        BY <1>1, <3>1, TurnValues DEF StartSearch, Labelled, Own
      <4> QED BY <4>1, <4>2 DEF ReaderOK, OpenedOK
    <3>2. search \in [Readers -> Search]
      BY DEF SearchInv, SearchTypeOK
    <3>3. CASE OpenManifest(r) \/ OpenTrigram(r)
      BY <1>5, <3>2, <3>3 DEF OpenManifest, OpenTrigram, Search
    <3>4. CASE Match(r)
      BY <1>5, <3>2, <3>4 DEF Match, Search
    <3>5. CASE Score(r)
      <4>1. PICK kept \in SUBSET search[r].hits :
              search' = [search EXCEPT ![r].hits = kept, ![r].todo = Paths(kept)]
        BY <3>5 DEF Score
      <4> QED BY <3>2, <4>1 DEF Search
    <3>6. CASE ReadNode(r)
      BY <1>5, <3>2, <3>6 DEF ReadNode, Search
    <3>7. CASE RecheckHit(r)
      BY <1>5, <3>2, <3>7 DEF RecheckHit, Search
    <3> QED BY <1>5, <3>1, <3>3, <3>4, <3>5, <3>6, <3>7 DEF Read, EndSearch
  <2>2. ~Reported(r) /\ ~Reported(r)'
    BY <1>5 DEF Read, StartSearch, OpenManifest, OpenTrigram, Match, Score, ReadNode,
       RecheckHit, EndSearch, Reported, Turn, SearchInv, SearchTypeOK
  <2> QED BY <1>1, <2>1, <2>2, HiddenStep DEF View, Answer
<1> QED BY <1>2, <1>3, <1>4, <1>5

\* Each step of a writer publishes a snapshot or cannot be seen.
LEMMA WriteRefines ==
    ASSUME SearchInv, NEW w \in Writers, Write(w), UNCHANGED readerVars
    PROVE  Store!Publish \/ UNCHANGED Store!vars
<1>1. /\ UNCHANGED [r \in Readers |-> View(r)] /\ UNCHANGED [r \in Readers |-> Answer(r)]
  BY DEF readerVars, View, Answer, Reported
<1>2. CASE UNCHANGED current
  BY <1>1, <1>2 DEF Store!vars, View, Answer
<1>3. CASE PublishIndex(w)
  <2>1. /\ current' \in Pointer /\ current'.manifest # {} /\ Proper(current'.manifest)
    BY <1>3, PublishedIsWhole DEF SearchInv
  <2>2. Texts(current'.manifest) \in (SUBSET Text) \ {{}}
    <3>1. Texts(current'.manifest) # {}
      BY <2>1, TextsOfSome
    <3>2. \A e \in current'.manifest : [path |-> e.path, text |-> e.text] \in Text
      BY <2>1 DEF Text, Proper, Pointer, Entry
    <3> QED BY <3>1, <3>2 DEF Texts
  <2> QED BY <1>1, <2>2 DEF Store!Publish, View, Answer, Texts
<1> QED BY <1>2, <1>3, WritesStep DEF SearchInv, Writes, indexVars

\* Readers see one whole snapshot: the one that was current when they opened it,
\* through every publication, failed build, edit and power loss.
THEOREM Refinement == SearchSpec => ImplementsStore
<1>1. SearchInit => Store!Init
  <2> SUFFICES ASSUME SearchInit PROVE Store!Init
    OBVIOUS
  <2>1. Texts({}) = {}
    BY DEF Texts
  <2> QED BY <2>1 DEF SearchInit, Init, Store!Init, NoPointer, NoSearch, Reported
<1>2. SearchInv /\ [SearchNext]_vars => [Store!Next]_(Store!vars)
  <2> SUFFICES ASSUME SearchInv, [SearchNext]_vars
               PROVE  Store!Next \/ UNCHANGED Store!vars
    OBVIOUS
  <2>1. ASSUME NEW r \in Readers, Read(r)
        PROVE  Store!Next \/ UNCHANGED Store!vars
    BY <2>1, ReadRefines DEF Store!Next
  <2>2. ASSUME NEW w \in Writers, Write(w), UNCHANGED readerVars
        PROVE  Store!Next \/ UNCHANGED Store!vars
    BY <2>2, WriteRefines DEF Store!Next
  <2>3. ASSUME UNCHANGED <<current, rpc, search>> PROVE UNCHANGED Store!vars
    BY <2>3 DEF Store!vars, Reported
  <2>4. ASSUME NEW d \in Docs, Edit(d), UNCHANGED <<rpc, search>>
        PROVE  UNCHANGED Store!vars
    BY <2>3, <2>4 DEF Edit, indexVars
  <2>5. ASSUME PowerLoss PROVE Store!CloseAll
    <3>1. Texts({}) = {}
      BY DEF Texts
    <3> QED BY <2>5, <3>1 DEF PowerLoss, Store!CloseAll, NoSearch, NoPointer, Reported
  <2>6. CASE UNCHANGED vars
    BY <2>3, <2>6 DEF vars, writerVars, readerVars
  <2> QED BY <2>1, <2>2, <2>4, <2>5, <2>6 DEF SearchNext, Store!Next
<1> QED BY <1>1, <1>2, SearchInvariance, PTL
        DEF SearchSpec, ImplementsStore, Store!Spec
---------------------------------------------------------------------------
(***************************************************************************)
(* The hints that askers hand out, for any number of askers and writers.   *)
(*                                                                         *)
(* An asker validates the windows of a document between two looks at       *)
(* CURRENT.json.  The first cannot carry the argument: anything may happen *)
(* between it and the validation.  The second does: a generation that was  *)
(* published is never published again, so that a pointer which names the   *)
(* base now and named another one at the validation cannot be.  AskOK is   *)
(* that argument at each step of an asker.                                 *)
(***************************************************************************)

AskSteps == {"idle", "opening", "base_opened", "publication", "base_read", "overlay_read",
          "bound", "base_selected", "overlay_selected", "validating",
          "base_validated", "overlay_validated", "hinted"}

AskTypeOK ==
    /\ apc \in [Askers -> AskSteps]
    /\ bound \in [Askers -> [base : Pointer, overlay : Overlay, doc : Docs \cup {0},
                              witnessed : BOOLEAN]]

\* The base of an asker was published; that the validation found it current is
\* known once the pointer has named it again after that.
AskOK(r) ==
    /\ apc[r] # "idle" => bound[r].base # NoPointer /\ bound[r].base.gen \in published
    /\ apc[r] = "base_validated" /\ current = bound[r].base => bound[r].witnessed
    /\ apc[r] \in {"overlay_validated", "hinted"} => bound[r].witnessed

NavOK == navigation \in Overlay

AskInv == Inv /\ NavOK /\ AskTypeOK /\ \A r \in Askers : AskOK(r)
---------------------------------------------------------------------------

\* What a step of the writers does to the pointers: CURRENT.json names nothing
\* that was named before.
LEMMA PointersStep ==
    ASSUME Inv, NavOK, Next
    PROVE  /\ NavOK' /\ published \subseteq published'
           /\ current' = current \/ current'.gen \notin published
<1>1. ASSUME NEW d \in Docs, Edit(d)
      PROVE  UNCHANGED <<indexVars, navigation>>
  BY <1>1 DEF Edit, overlayVars
<1>2. ASSUME NEW w \in Writers, Write(w)
      PROVE  /\ navigation' = navigation \/ navigation' \in Overlay
             /\ published \subseteq published'
             /\ current' = current \/ current'.gen \notin published
  <2>1. navigation' = navigation \/ PublishOverlay(w)
    BY <1>2 DEF Write, StartIndex, StartOverlay, TakeLock, Fail, MakeGeneration, Walk,
       ReadSource, Parse, Recheck, WriteManifest, BuildTrigram, PublishIndex, OpenBase,
       ValidateDocument, RetainArtifact, CheckBase, overlayVars
  <2>2. PublishOverlay(w) => navigation' \in Overlay
    BY DEF PublishOverlay, Inv, TypeOK, Job
  <2>3. CASE PublishIndex(w)
    BY <2>1, <2>2, <2>3, PublishedIsWhole
  <2>4. CASE current' = current /\ published' = published
    BY <2>1, <2>2, <2>4
  <2> QED BY <1>2, <2>3, <2>4, WritesStep DEF Writes, indexVars
<1> QED BY <1>1, <1>2 DEF Next, NavOK, indexVars

\* The writers cannot make a base current again.
LEMMA WriterBesideAskers ==
    ASSUME AskInv, Next, UNCHANGED askerVars
    PROVE  AskInv'
<1>1. Inv'
  BY NextOK DEF AskInv
<1>2. /\ NavOK' /\ published \subseteq published'
      /\ current' = current \/ current'.gen \notin published
  BY PointersStep DEF AskInv
<1>3. ASSUME NEW r \in Askers
      PROVE  AskOK(r)'
  <2>1. apc[r] = "base_validated" /\ current' = bound[r].base => current = bound[r].base
    BY <1>2 DEF AskInv, AskOK
  <2> QED BY <1>2, <2>1 DEF AskInv, AskOK, askerVars
<1> QED BY <1>1, <1>2, <1>3 DEF AskInv, AskTypeOK, askerVars

Others(r) == \A q \in Askers \ {r} : apc'[q] = apc[q] /\ bound'[q] = bound[q]

\* An asker that drops its overlay keeps the invariant.
LEMMA DropStep ==
    ASSUME AskInv, NEW r \in Askers, Drop(r)
    PROVE  AskTypeOK' /\ Others(r) /\ AskOK(r)'
<1>1. Unbound \in [base : Pointer, overlay : Overlay, doc : Docs \cup {0},
                   witnessed : BOOLEAN]
  BY DEF Unbound, NoPointer, NoOverlay, Pointer, Overlay
<1>2. AskTypeOK' /\ Others(r) /\ apc'[r] = "idle"
  BY <1>1 DEF Drop, Move, AskInv, AskTypeOK, Others, AskSteps
<1> QED BY <1>2 DEF AskOK

\* A step of an asker keeps its own part.
LEMMA AskStep ==
    ASSUME AskInv, NEW r \in Askers, Ask(r)
    PROVE  AskTypeOK' /\ Others(r) /\ AskOK(r)' /\ UNCHANGED writerVars
<1> DEFINE Bind == [base : Pointer, overlay : Overlay, doc : Docs \cup {0},
                    witnessed : BOOLEAN]
<1> USE DEF Move
<1>0. /\ AskTypeOK /\ AskOK(r) /\ bound[r] \in Bind /\ apc[r] \in AskSteps
      /\ current \in Pointer /\ navigation \in Overlay
  BY DEF AskInv, AskTypeOK, Inv, TypeOK, NavOK
<1>1. UNCHANGED writerVars
  BY DEF Ask, BindPointer, OpenSnapshot, CheckCurrent, CheckPublication, ReadPublication,
     Select, ValidateWindows, Use
<1>2. current' = current /\ published' = published
  BY <1>1 DEF writerVars
<1>3. CASE Drop(r)
  BY <1>1, <1>3, DropStep
<1>4. ASSUME NEW label \in AskSteps, Move(r, label), bound' = bound,
             apc[r] # "idle", label # "base_validated",
             label \in {"overlay_validated", "hinted"} => bound[r].witnessed
      PROVE  AskTypeOK' /\ Others(r) /\ AskOK(r)'
  <2>1. AskTypeOK' /\ Others(r) /\ apc'[r] = label
    BY <1>0, <1>4 DEF AskTypeOK, Others
  <2> QED BY <1>0, <1>2, <1>4, <2>1 DEF AskOK
<1>5. CASE BindPointer(r)
  <2>1. current # NoPointer /\ current.gen \in published
    BY <1>5 DEF BindPointer, AskInv, Inv, DiskOK, Named
  <2>2. AskTypeOK' /\ Others(r) /\ apc'[r] = "opening" /\ bound'[r].base = current
    BY <1>0, <1>5 DEF BindPointer, AskTypeOK, Others, AskSteps
  <2> QED BY <1>1, <1>2, <2>1, <2>2 DEF AskOK
<1>6. CASE OpenSnapshot(r)
  BY <1>1, <1>3, <1>4, <1>6 DEF OpenSnapshot, AskSteps
<1>7. CASE CheckCurrent(r)
  <2>1. CASE current = bound[r].base /\ Move(r, AfterBase[apc[r]]) /\ UNCHANGED bound
    <3>1. apc[r] \in {"base_opened", "base_read", "base_selected", "base_validated"}
      BY <1>7 DEF CheckCurrent, AfterBase
    <3>2. AfterBase[apc[r]] = "overlay_validated" => apc[r] = "base_validated"
      BY <3>1 DEF AfterBase
    <3>3. AfterBase[apc[r]] \in AskSteps \ {"base_validated", "hinted"}
      BY <3>1 DEF AfterBase, AskSteps
    <3>4. AfterBase[apc[r]] = "overlay_validated" => bound[r].witnessed
      BY <1>0, <2>1, <3>2 DEF AskOK
    <3> QED BY <1>1, <1>4, <2>1, <3>1, <3>3, <3>4
  <2> QED BY <1>3, <1>7, <2>1 DEF CheckCurrent
<1>8. CASE CheckPublication(r)
  <2>1. CASE Move(r, AfterOverlay[apc[r]]) /\ UNCHANGED bound
    <3>1. apc[r] \in {"overlay_read", "overlay_selected", "overlay_validated"}
      BY <1>8 DEF CheckPublication, AfterOverlay
    <3>2. AfterOverlay[apc[r]] \in AskSteps \ {"base_validated", "overlay_validated"}
      BY <3>1 DEF AfterOverlay, AskSteps
    <3>3. AfterOverlay[apc[r]] = "hinted" => bound[r].witnessed
      BY <1>0, <3>1 DEF AfterOverlay, AskOK
    <3> QED BY <1>1, <1>4, <2>1, <3>1, <3>2, <3>3
  <2> QED BY <1>3, <1>8, <2>1 DEF CheckPublication
<1>9. CASE ReadPublication(r)
  <2>1. CASE bound' = [bound EXCEPT ![r].overlay = navigation] /\ Move(r, "base_read")
    <3>1. AskTypeOK' /\ Others(r) /\ apc'[r] = "base_read" /\ bound'[r].base = bound[r].base
      BY <1>0, <2>1 DEF AskTypeOK, Others, AskSteps
    <3> QED BY <1>0, <1>1, <1>2, <1>9, <3>1 DEF ReadPublication, AskOK
  <2> QED BY <1>3, <1>9, <2>1 DEF ReadPublication
<1>10. CASE Select(r)
  <2>1. PICK d \in bound[r].overlay.docs : bound' = [bound EXCEPT ![r].doc = d]
    BY <1>10 DEF Select
  <2>2. d \in Docs
    BY <1>0, <2>1 DEF Overlay
  <2>3. AskTypeOK' /\ Others(r) /\ apc'[r] = "base_selected" /\ bound'[r].base = bound[r].base
    BY <1>0, <1>10, <2>1, <2>2 DEF Select, AskTypeOK, Others, AskSteps
  <2> QED BY <1>0, <1>1, <1>2, <1>10, <2>3 DEF Select, AskOK
<1>11. CASE ValidateWindows(r)
  <2>1. CASE /\ bound' = [bound EXCEPT ![r].witnessed = (current = bound[r].base)]
             /\ Move(r, "base_validated")
    <3>1. /\ AskTypeOK' /\ Others(r) /\ apc'[r] = "base_validated"
          /\ bound'[r].base = bound[r].base
          /\ bound'[r].witnessed = (current = bound[r].base)
      BY <1>0, <2>1 DEF AskTypeOK, Others, AskSteps
    <3> QED BY <1>0, <1>1, <1>2, <1>11, <3>1 DEF ValidateWindows, AskOK
  <2> QED BY <1>3, <1>11, <2>1 DEF ValidateWindows
<1>12. CASE Use(r)
  <2>1. CASE /\ Move(r, "bound")
             /\ bound' = [bound EXCEPT ![r].doc = 0, ![r].witnessed = FALSE]
    <3>1. AskTypeOK' /\ Others(r) /\ apc'[r] = "bound" /\ bound'[r].base = bound[r].base
      BY <1>0, <2>1 DEF AskTypeOK, Others, AskSteps
    <3> QED BY <1>0, <1>1, <1>2, <1>12, <3>1 DEF Use, AskOK
  <2> QED BY <1>3, <1>12, <2>1 DEF Use
<1> QED BY <1>5, <1>6, <1>7, <1>8, <1>9, <1>10, <1>11, <1>12 DEF Ask

\* AskInv holds at the start.
LEMMA AskInitOK == HintInit => AskInv
<1> SUFFICES ASSUME HintInit PROVE AskInv
  OBVIOUS
<1>1. Inv
  BY InitOK DEF HintInit
<1>2. NavOK /\ Unbound \in [base : Pointer, overlay : Overlay, doc : Docs \cup {0},
                            witnessed : BOOLEAN]
  BY DEF HintInit, Init, NavOK, Unbound, NoPointer, NoOverlay, Pointer, Overlay
<1> QED BY <1>1, <1>2 DEF HintInit, AskInv, AskTypeOK, AskOK, AskSteps

\* Every step keeps AskInv.
LEMMA AskNextOK == AskInv /\ [HintNext]_hintVars => AskInv'
<1> SUFFICES ASSUME AskInv, [HintNext]_hintVars PROVE AskInv'
  OBVIOUS
<1>1. CASE Next /\ UNCHANGED askerVars
  BY <1>1, WriterBesideAskers
<1>2. ASSUME NEW r \in Askers, Ask(r)
      PROVE  AskInv'
  <2>1. AskTypeOK' /\ Others(r) /\ AskOK(r)' /\ UNCHANGED writerVars
    BY <1>2, AskStep
  <2>2. Inv' /\ NavOK'
    BY <2>1, NextOK DEF AskInv, NavOK, writerVars
  <2>3. ASSUME NEW q \in Askers \ {r} PROVE AskOK(q)'
    BY <2>1, <2>3 DEF AskInv, AskOK, Others, writerVars
  <2> QED BY <2>1, <2>2, <2>3 DEF AskInv
<1>3. CASE UNCHANGED hintVars
  <2>1. UNCHANGED writerVars /\ UNCHANGED askerVars
    BY <1>3 DEF hintVars
  <2>2. Inv' /\ NavOK'
    BY <2>1, NextOK DEF AskInv, NavOK, writerVars
  <2> QED BY <2>1, <2>2 DEF AskInv, AskTypeOK, AskOK, askerVars, writerVars
<1> QED BY <1>1, <1>2, <1>3 DEF HintNext
---------------------------------------------------------------------------

\* Askers change nothing that the writers share, so that everything proved of
\* the writers alone holds of them beside askers.
THEOREM ReadersOnlyRead == HintSpec => Spec
<1>1. HintInit => Init
  BY DEF HintInit
<1>2. AskInv /\ [HintNext]_hintVars => [Next]_writerVars
  BY AskStep DEF HintNext, hintVars
<1> QED BY <1>1, <1>2, AskInitOK, AskNextOK, PTL DEF HintSpec, Spec

\* Hints of a document are handed out only if its snapshot was the current one
\* when its source and its text were validated.
THEOREM Witnessed == HintSpec => []HintsWitnessed
<1>1. AskInv => HintsWitnessed
  BY DEF AskInv, AskOK, HintsWitnessed
<1> QED BY <1>1, AskInitOK, AskNextOK, PTL DEF HintSpec

\* The publications of the writers are sound beside any number of askers.
THEOREM PublicationBesideReaders ==
    HintSpec => PublicationSound /\ [](Restores = FALSE => CurrentComplete)
BY ReadersOnlyRead, Publication, WholeSnapshot
===============================================================================

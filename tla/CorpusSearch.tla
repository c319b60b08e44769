---------------------------- MODULE CorpusSearch ----------------------------
(***************************************************************************)
(* Searches and node reads (search_using_client, collect_candidate_view,   *)
(* finish_candidate_batch, read_node_window and Snapshot of                *)
(* gptgrep-core/src/lib.rs, search_with_document_and_predicate of          *)
(* gptgrep-index/src/lib.rs) beside the writers of IndexWriter, who may    *)
(* publish a new generation, and the user, who may edit the sources, at    *)
(* every step of them.                                                     *)
(*                                                                         *)
(* Three kinds of reader:                                                  *)
(*   regex   matches the texts of the query, up to the limit               *)
(*   hybrid  routes and reranks: any documents of the snapshot are its     *)
(*           candidates, a remote inference decides which it keeps         *)
(*   read    one document, which must be fresh before and after            *)
(* One document stands for one hit.                                        *)
(***************************************************************************)
EXTENDS IndexWriter

CONSTANTS Readers,      \* processes that search or read
          Queries,      \* sets of texts that a regex may match
          Limit,        \* --limit
          MaxSearches,  \* bound on the number of searches
          MaxOutages    \* bound on the number of power losses

ASSUME SearchAssumption ==
    /\ Limit \in Nat \ {0} /\ MaxSearches \in Nat /\ MaxOutages \in Nat

VARIABLES
    rpc,       \* where each reader is
    search,    \* its local variables
    seen,      \* history: the texts of the sources since the last inference
    searches, outages

readerVars == <<rpc, search, seen, searches, outages>>
vars == <<writerVars, readerVars>>

NoSearch == [mode |-> "none", query |-> {}, base |-> NoPointer, todo |-> {},
             stale |-> {}, hits |-> {}, truncated |-> FALSE]

SearchInit ==
    /\ Init
    /\ rpc = [r \in Readers |-> "idle"]
    /\ search = [r \in Readers |-> NoSearch]
    /\ seen = [r \in Readers |-> {}]
    /\ searches = 0 /\ outages = 0

Turn(r, label) == rpc' = [rpc EXCEPT ![r] = label]

Leave(r) ==
    /\ Turn(r, "idle")
    /\ search' = [search EXCEPT ![r] = NoSearch]
    /\ seen' = [seen EXCEPT ![r] = {}]

\* The texts that the sources of a snapshot have now.
Present(manifest) ==
    {[path |-> d, text |-> Extract(source[d])] : d \in Paths(manifest)}

---------------------------------------------------------------------------

StartSearch(r) ==
    /\ rpc[r] = "idle" /\ searches < MaxSearches
    /\ searches' = searches + 1
    /\ \/ \E query \in Queries :
            search' = [search EXCEPT ![r] = [NoSearch EXCEPT !.mode = "regex",
                                                             !.query = query]]
       \/ search' = [search EXCEPT ![r] = [NoSearch EXCEPT !.mode = "hybrid"]]
       \/ \E d \in Docs :
            search' = [search EXCEPT ![r] = [NoSearch EXCEPT !.mode = "read",
                                                             !.todo = {d}]]
    /\ Turn(r, "starting")
    /\ UNCHANGED <<writerVars, seen, outages>>

\* Snapshot::open reads CURRENT.json,
OpenPointer(r) ==
    /\ rpc[r] = "starting"
    /\ \/ /\ current # NoPointer
          /\ search' = [search EXCEPT ![r].base = current]
          /\ Turn(r, "opening")
          /\ UNCHANGED seen
       \/ current = NoPointer /\ Leave(r)
    /\ UNCHANGED <<writerVars, searches, outages>>

\* and the manifest it names, which must have the digest in the pointer.
OpenManifest(r) ==
    LET base == search[r].base IN
    /\ rpc[r] = "opening"
    /\ \/ /\ disk[base.gen].manifest = base.manifest
          /\ search[r].mode = "read" => search[r].todo \subseteq Paths(base.manifest)
          /\ Turn(r, "opened")
          /\ UNCHANGED <<search, seen>>
       \/ /\ \/ disk[base.gen].manifest # base.manifest
             \/ search[r].mode = "read"
                /\ ~(search[r].todo \subseteq Paths(base.manifest))
          /\ Leave(r)
    /\ UNCHANGED <<writerVars, searches, outages>>

\* The trigram index must be complete.  Its candidates are the documents with
\* a text of the query; a hybrid search looks at all it can route.
OpenTrigram(r) ==
    LET index == disk[search[r].base.gen].trigram IN
    /\ rpc[r] = "opened" /\ search[r].mode # "read"
    /\ \/ /\ index # {}
          /\ search' = [search EXCEPT ![r].todo =
                          IF search[r].mode = "hybrid" THEN Paths(index)
                          ELSE Paths({e \in index : e.text \in search[r].query})]
          /\ Turn(r, "matching")
          /\ UNCHANGED seen
       \/ index = {} /\ Leave(r)
    /\ UNCHANGED <<writerVars, searches, outages>>

\* Forgets to say that it stopped at the limit.
FaultyMatch(r) ==
    LET d == First(search[r].todo)
        base == search[r].base
        full == search[r].mode = "regex" /\ Cardinality(search[r].hits) = Limit IN
    /\ rpc[r] = "matching" /\ search[r].todo # {}
    /\ \/ /\ ~Fresh(base.manifest, d)
          /\ search' = [search EXCEPT ![r].todo = @ \ {d}, ![r].stale = @ \cup {d}]
          /\ UNCHANGED <<rpc, seen>>
       \/ /\ Fresh(base.manifest, d) /\ TextIntact(base.gen, base.manifest, d)
          /\ search' = [search EXCEPT
                ![r].todo = IF full THEN {} ELSE @ \ {d},
                ![r].hits = IF full THEN @ ELSE @ \cup TextOnDisk(base.gen, d)]
          /\ UNCHANGED <<rpc, seen>>
       \/ /\ Fresh(base.manifest, d) /\ ~TextIntact(base.gen, base.manifest, d)
          /\ Leave(r)
    /\ UNCHANGED <<writerVars, searches, outages>>

\* One candidate: a stale document is passed over before its text is opened and
\* takes nothing from the limit; a damaged text ends the search.
Match(r) ==
    LET d == First(search[r].todo)
        base == search[r].base
        full == search[r].mode = "regex" /\ Cardinality(search[r].hits) = Limit IN
    /\ rpc[r] = "matching" /\ search[r].todo # {}
    /\ \/ /\ ~Fresh(base.manifest, d)
          /\ search' = [search EXCEPT ![r].todo = @ \ {d}, ![r].stale = @ \cup {d}]
          /\ UNCHANGED <<rpc, seen>>
       \/ /\ Fresh(base.manifest, d) /\ TextIntact(base.gen, base.manifest, d)
          /\ search' = [search EXCEPT
                ![r].todo = IF full THEN {} ELSE @ \ {d},
                ![r].hits = IF full THEN @ ELSE @ \cup TextOnDisk(base.gen, d),
                ![r].truncated = full]
          /\ UNCHANGED <<rpc, seen>>
       \/ /\ Fresh(base.manifest, d) /\ ~TextIntact(base.gen, base.manifest, d)
          /\ Leave(r)
    /\ UNCHANGED <<writerVars, searches, outages>>

\* The reply of the reranking keeps some of the candidates, Limit at most; a
\* regex search has nothing to wait for.
Score(r) ==
    /\ rpc[r] = "matching" /\ search[r].todo = {}
    /\ \E kept \in SUBSET search[r].hits :
         /\ search[r].mode = "regex" => kept = search[r].hits
         /\ Cardinality(kept) <= Limit
         /\ search' = [search EXCEPT ![r].hits = kept, ![r].todo = Paths(kept)]
    /\ seen' = [seen EXCEPT ![r] = Present(search[r].base.manifest)]
    /\ Turn(r, "rechecking")
    /\ UNCHANGED <<writerVars, searches, outages>>

\* read_node_window: the document must be fresh before its text is read,
ReadNode(r) ==
    LET base == search[r].base
        d == First(search[r].todo)
        valid == Fresh(base.manifest, d) /\ TextIntact(base.gen, base.manifest, d) IN
    /\ rpc[r] = "opened" /\ search[r].mode = "read"
    /\ \/ /\ valid
          /\ search' = [search EXCEPT ![r].hits = TextOnDisk(base.gen, d)]
          /\ seen' = [seen EXCEPT ![r] = Present(base.manifest)]
          /\ Turn(r, "rechecking")
       \/ ~valid /\ Leave(r)
    /\ UNCHANGED <<writerVars, searches, outages>>

\* Trusts the check made before the inference.
FaultyRecheckHit(r) ==
    /\ rpc[r] = "rechecking" /\ search[r].todo # {}
    /\ search' = [search EXCEPT ![r].todo = {}]
    /\ UNCHANGED <<rpc, seen, writerVars, searches, outages>>

\* The selected sources are hashed again; a search drops the stale ones and
\* reports them, a read fails.
RecheckHit(r) ==
    LET d == First(search[r].todo)
        fresh == Fresh(search[r].base.manifest, d) IN
    /\ rpc[r] = "rechecking" /\ search[r].todo # {}
    /\ \/ /\ fresh
          /\ search' = [search EXCEPT ![r].todo = @ \ {d}]
          /\ UNCHANGED <<rpc, seen>>
       \/ /\ ~fresh /\ search[r].mode # "read"
          /\ search' = [search EXCEPT ![r].todo = @ \ {d},
                          ![r].stale = @ \cup {d},
                          ![r].hits = {e \in @ : e.path # d}]
          /\ UNCHANGED <<rpc, seen>>
       \/ ~fresh /\ search[r].mode = "read" /\ Leave(r)
    /\ UNCHANGED <<writerVars, searches, outages>>

Report(r) ==
    /\ rpc[r] = "rechecking" /\ search[r].todo = {}
    /\ Turn(r, "reported")
    /\ UNCHANGED <<writerVars, search, seen, searches, outages>>

\* The report has been printed, or the reader failed or was killed before:
\* an I/O error, a failed inference.
EndSearch(r) ==
    /\ rpc[r] # "idle"
    /\ Leave(r)
    /\ UNCHANGED <<writerVars, searches, outages>>

Read(r) ==
    \/ StartSearch(r) \/ OpenPointer(r) \/ OpenManifest(r) \/ OpenTrigram(r)
    \/ Match(r) \/ Score(r) \/ ReadNode(r) \/ RecheckHit(r) \/ Report(r)
    \/ EndSearch(r)

---------------------------------------------------------------------------

\* Of the texts in a directory some are lost and some of those hold something
\* else than was written.
Garbled(e) == [e EXCEPT !.text = 1 + Cardinality(Contents)]
Damage(texts) ==
    UNION {{(texts \ lost) \cup {Garbled(e) : e \in wrong} : wrong \in SUBSET lost} :
              lost \in SUBSET texts}

\* The pointers and the artifacts are synced, the files of a generation are
\* not: a power loss may take them, and it ends every process.
PowerLoss ==
    /\ outages < MaxOutages
    /\ outages' = outages + 1
    /\ \E g \in Gens :
         \E text \in Damage(disk[g].text),
            manifest \in {disk[g].manifest, {}},
            trigram \in {disk[g].trigram, {}} :
           disk' = [disk EXCEPT ![g].text = text, ![g].manifest = manifest,
                                ![g].trigram = trigram]
    /\ pc' = [w \in Writers |-> "idle"]
    /\ job' = [w \in Writers |-> NoJob]
    /\ lock' = NoOne
    /\ rpc' = [r \in Readers |-> "idle"]
    /\ search' = [r \in Readers |-> NoSearch]
    /\ seen' = [r \in Readers |-> {}]
    /\ UNCHANGED <<userVars, current, published, overlayVars, runs, searches>>

SearchNext ==
    \/ \E w \in Writers : Write(w) /\ UNCHANGED readerVars
    \/ \E d \in Docs :
         /\ Edit(d)
         /\ seen' = [r \in Readers |->
                       IF rpc[r] = "rechecking"
                       THEN seen[r] \cup {[path |-> d, text |-> Extract(source'[d])]}
                       ELSE seen[r]]
         /\ UNCHANGED <<rpc, search, searches, outages>>
    \/ \E r \in Readers : Read(r)
    \/ PowerLoss

SearchSpec == SearchInit /\ [][SearchNext]_vars
---------------------------------------------------------------------------

Reported(r) == rpc[r] = "reported"

\* "A stale or deleted source cannot appear as fresh evidence": every text in a
\* report is the text that its source had at some moment after the inference
\* (of a read: since the text was read), whatever was edited or reindexed.
FreshEvidence == \A r \in Readers : Reported(r) => search[r].hits \subseteq seen[r]

\* A negative answer is about the snapshot: a match of a regex search in the
\* snapshot that it opened is reported, or its document is reported stale, or
\* the report says that it was truncated.
NoSilentMiss ==
    \A r \in Readers :
        Reported(r) /\ search[r].mode = "regex" /\ ~search[r].truncated =>
            \A e \in search[r].base.manifest : e.text \in search[r].query =>
                \/ [path |-> e.path, text |-> e.text] \in search[r].hits
                \/ e.path \in search[r].stale

\* The texts that an answer may hold.
Text == [path : Docs, text : Nat \ {NoText}]

\* Readers see one whole snapshot: the one that was current when they opened
\* it, through every publication, failed build and power loss.
Store == INSTANCE SnapshotStore WITH
    Evidence <- Text,
    latest <- Texts(current.manifest),
    view <- [r \in Readers |-> Texts(search[r].base.manifest)],
    answer <- [r \in Readers |-> IF Reported(r) THEN search[r].hits ELSE {}]
ImplementsStore == Store!Spec
============================================================================

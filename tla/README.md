# TLA+ models of GPTgrep

This directory holds a formal model of GPTgrep: TLA+ modules translated from the
Rust sources under `src/crates`, TLC configurations that check them on small
instances, and proofs that TLAPS checks for every value of the constants.
`PROJECT.json` lists the components, the runs, the source lines behind each
definition, the hazards, the disagreements found, and the theorems.

Run a model with `tlc -config EnrichLedger.cfg MCEnrichLedger` (the other pairs
are in the table of runs) and a proof with `tlapm EnrichLedgerProofs.tla`.

## 1. The system

GPTgrep indexes a directory of documents and answers queries from the index,
with a remote model (Jev) that routes to documents and judges candidates, and a
local Codex process that reads evidence and writes answers. All state is in
files below `.gptgrep`; processes share nothing else.

| Component | State it keeps | Operations | Talks to |
|---|---|---|---|
| Index writer (`gptgrep-core/src/lib.rs`, `index_with_options`) | `write.lock`, generation directories (texts, manifest, trigram artifact), `CURRENT.json` | build a whole generation, publish it by renaming the pointer | the sources, the parsers, the trigram index |
| Snapshot reads and local search (`Snapshot`, `search_using_client`, `read_node_window`) | an opened manifest, per-search freshness and texts | open, search, recheck, read a window | the generation on disk, the sources |
| Candidate view (`collect_candidate_view`, `score_candidates`) | hits, coverage, metrics of one search | lexical lane, routing, tree lane, union, rerank, floor, limit | the Jev client |
| Trigram index (`gptgrep-index`) | artifact of one generation | build, filtered search | `tgrep-core` (a library) |
| Navigation overlay store (`navigation_overlay.rs`) | `NAVIGATION.json`, artifact files | publish under the lock, bind, select hints, check windows | the index pointer, the sources |
| Enrichment ledger (`enrich_accounting.rs`) | append-only file: calls, receipts, retries, windows, rebuilds, publication | reserve, finish, retry, complete, rebuild, prepare, publish, replay | the build |
| Enrichment build (`enrich.rs`) | the ledger handle, the plan, the artifact | reserve → call → receipt → validate → checkpoint → publish | builder model, Jev, overlay store |
| Planned search (`planned.rs`, `evidence_roles.rs`) | operations map, merged union, dispositions | two routing futures at a time, one rerank, delivery | candidate view, the caller's observer |
| Host workflow (`gptgrep-host/src/lib.rs`) | deadline, attempts, stage | navigation, planner, initial search, reader, citation check | everything below |
| Evidence (`retrieval.rs`) | known nodes, issued windows, receipts | tool calls, roll back, final citations | core reads and searches |
| Codex session (`protocol.rs`) | turn, call identifiers, tool budget, answer | message loop | Codex over JSON lines |
| Attempt accounting (`jev_accounting.rs`, `model_attempts.rs`) | one file per invocation, searches, attempts, terminal flag | reserve, update, finish, guards on drop | all of the host |
| Owned process group (`process_group.rs`) | group id, armed flag | SIGTERM, wait, SIGKILL, reap | the operating system |
| Hint navigation (`navigation.rs`) | batches and scores | admit, call, merge, bind a packet | overlay store, Jev, accounting |
| Structure trees (`gptgrep-pageindex`) | none: a tree is computed from a parsed document | sections from headings and bookmarks, merge optimizer | the index writer |
| Query planning (`query_plan.rs`), completions (`completion.rs`) | none | a session without tools, the validation of its answer | the session, planned search |
| Jev client, parsers, CLI, npm wrapper, Python evaluation | — | requests, extraction, arguments, packaging, benchmarks | — |

What is hard in it:

- **Paid calls and crashes.** Builds and searches make calls that cost money and
  cannot be repeated; the only memory is a file whose last write may have failed.
- **Readers without locks.** Readers take several files and the sources one
  after the other while writers publish, and sources are edited at any time.
- **Checks before and after an await.** Freshness, generations and overlays are
  checked, then a model is awaited for seconds or minutes.
- **An untrusted peer.** Codex may send any message at any time, never stop, or
  leave processes behind; what it cites must be what it was shown.
- **Budgets.** Calls, lines, bytes, candidates and documents are all bounded; a
  bound that bites in the wrong place loses paid work, evidence, or the truth of a
  report.
- **Cancellation.** Futures are dropped at any await; guards write on drop.
- **Boundaries.** Windows of bytes and lines, overlapping ranges, nested sections.

`PROJECT.json`, `hazards`, names each place and the properties about it. The
correctness of a component is the list of properties in the table of runs.

## 2. The modules

| Module | Models | State and actions |
|---|---|---|
| `LedgerRules` | the pure rules of `enrich_accounting.rs`: limits, admission, rebuild and retry eligibility, the effect of each record | a ledger is a record; `Can…` operators are guards, the others its changes |
| `LedgerEvents` | the ten records of the file, `apply` and the replay of `open_mode` | `Apply`, `Accepts`, `Residue` (what a refused event leaves in memory), `Replay` |
| `EnrichLedger` | the abstract ledger: what the file promises | one variable, one action per record |
| `EnrichBuild` | `enrich_with` in one or two processes, with the file, the lock, the pointers | `pc` per process; one action per step between two effects on files or providers |
| `IndexWriter` | `index_with_options` and `publish` of overlays, step by step | jobs, lock, disk, pointers, sources; edits as an external action |
| `SnapshotStore` | what readers are promised | open, deliver, close, publish |
| `CorpusSearch` | a search or a node read, beside `IndexWriter` | the reader's `rpc` and search record |
| `OverlayReaders` | the binding and the use of hints, beside `IndexWriter` | the asker's `apc` and bound pointers |
| `CandidateBatch` | what a batch of candidates is, for the two modules that extend it: `CandidateView` and `EvidenceUnion` | `hits`, `coverage`; the limits, the order and the floor |
| `CandidateView` | one search's stages | matches, lanes, scores, coverage |
| `PlannedSearch` | one planned search as a task: `planned.rs`, called by `bootstrap_planned` with the ledger of `jev_accounting.rs` | `pc` of the task, `stage` of each operation, the recorder's and the file's view of them; one action per step between two records or waits |
| `EvidenceUnion` | the data of that search: union, judgment, dispositions, packing, issue | the views' windows, the batch, the dispositions in the report and in the ledger |
| `HostSession` | one session with Codex: `run_observed`, `Evidence`, `run_process_until`, the process group, the final citations | `phase` of the host, the running call, known, issued and shown evidence, the turn, the budget, the group; one action per message, per part of a tool call, per signal, per citation |
| `AttemptLedger` | the ledger of one invocation: `State`, every operation of `Accounting`, `append_locked` | the state in memory, the last line of the file, the number of terminal lines |
| `HostRun` | `execute_with_client` and `navigation::run` seen from that ledger | `pc`, the live tracker; one action per line of the ledger or error between two lines |
| `PageTree` | `from_pages`, `build_nodes` and `optimize_merge` of `gptgrep-pageindex` | candidates, open sections, the forest; one action per section taken or merge made |
| `NodeWindows` | `read_node_window`, `TextView`, `hit_from_bytes` | the offset of a reader; one action per read |
| `HintScan` | `covered_bytes`, `batches`, `packet` | what a loop has not taken yet, its counts; one action per turn of a loop |
| `EnrichLedgerProofs`, `EnrichBuildProofs`, `PlannedSearchProofs`, `HostSessionProofs`, `HostRunProofs` | theorems about the module in their name | — |
| `IndexProofs` | theorems about `IndexWriter` and about `CorpusSearch` and `OverlayReaders`, which both add readers to it | — |
| `CandidateProofs` | theorems about `CandidateView` and `EvidenceUnion`, which share `CandidateBatch` | — |
| `AlgorithmProofs` | theorems about `NodeWindows`, `PageTree` and `HintScan` | — |
| `MC…` | instances for TLC | small sets, symmetry |

**Composition.** `EnrichBuild` extends the rules and records and implements
`EnrichLedger` with `ledger <- durable` (the replay of the file). `CorpusSearch`
and `OverlayReaders` extend `IndexWriter` and add readers; `CorpusSearch`
implements `SnapshotStore` with the texts of the current manifest as the latest
snapshot and those of the opened manifest as the view. `HostRun` extends
`AttemptLedger`: it is the program that calls its operations.

The host's workflow appears in four modules, each with one concern. `HostRun` has
the whole invocation and its ledger; between two lines anything may fail.
`PlannedSearch` is what happens in its phase `"search"` when there is a plan, and
`EvidenceUnion` the data of that search, with any step allowed to fail.
`HostSession` is what happens in `"reading"` (and, as a completion without tools,
in `"planning"`), from the first search to the validated answer. They share the
order of the steps; `IndexWriter`'s publications appear in them as `Reindex`.

`MCAlgorithms` is not a composition: `CandidateView`, `PageTree`, `NodeWindows`
and `HintScan` share no state, and one behaviour takes the steps of one of them
while the others rest. The properties of all four are theorems.

**Correspondence and abstractions.**

- A **call** is its kind and its unit of the plan; an **outcome** is `ok`,
  `transient` (an error that a rebuild or retry admits) or another failure.
  Digests are the values they are taken of. The byte size of a ledger is its
  number of records.
- In `EnrichLedger`, `calls` and `receipts` are the sequences of the code (call
  identifiers are positions, from 1), `committed` is the completed prefix,
  `windows` are completed windows with their ranges of calls, `rebuilds` and
  `retries` hold the failed calls.
- `EnrichBuild` splits the code at each effect: an append to the file (with the
  outcomes written, refused, failed before or after the bytes reached the file,
  torn), a call sent, an answer received, the pointer's rename. What lies between two effects
  is one step. A crash takes a process away at any point, and `Crash` during an
  append leaves the line whole, absent or torn.
- In `IndexWriter` a document's content is one of a few values, `TextOf` is the
  parser, a generation directory is what each of its files holds, and every file system
  effect is a step. The name of a generation (time and process) may be any; one
  that is taken fails the build.
- In `PlannedSearch` an operation runs alone between two waits, because the
  futures of one task do; `CanRun` says so, and `Startable` that
  `buffer_unordered(2)` starts views in order. Each `Emit` is one record, with
  the outcome that it is refused: then the recorder in memory already has the
  event, and the file has it or not (a line that was written may fail
  to sync). Errors whose cause is data (a damaged snapshot, a span conflict,
  a packet that does not fit) are a second disjunct of the step that meets
  them. `sent`, `replied`, `refused` and `readAt` are history variables; they
  guard nothing. With three views, the start of the third and a waiting reply
  may come in either order, which allows a little more than the executor does.
- In `EvidenceUnion` a span is a number in the order of source coordinates,
  several windows of a view may have the same one, and scores and roles
  are arbitrary. `found` is the report's copy of the dispositions and `kept` the
  ledger's; they differ between packing and issue, as in the code.
- In `CandidateView` documents have a number of leaf sections; matches, the
  routing order, the scores and the freshness of sources are arbitrary.
- In `HostSession` a **window** is a node, a part of its text, the generation it
  was read from and the version of the source. A message is its kind with the
  thread, turn and call identifiers it names; any may come at any time. A tool
  call has three steps (the check of the generation, the tool, and the second
  check with the roll back and the delivery), and edits, publications, the
  deadline and the drop of the future may come between them. The limits on
  messages and frames are one way in which `SessionBreaks`. The moves of the group's
  processes (`System`: the leader exits, a helper starts or exits, an orphan is
  reaped, the group id is used again) are taken while the group is being stopped
  and after the session has ended; what they did before counts as done at the
  stop. Who dies of SIGTERM is the argument of `SignalTerm`. `shown`,
  `heard`, `present` and `strayed` are history variables.
- In `AttemptLedger` a line is its event and the whole state, as in the code;
  so the file is its last line and the number of its terminal lines.
  `Appended` has the outcomes of `append_locked`: written; refused for its size
  or because the limit on lines is reached, so that nothing is counted; and
  counted although the write or the sync failed, in which case the line may be in
  the file.
- In `HostRun` the drop of the invocation's future at a wait is `Cancel`, its
  death `Killed`. The trackers are dropped before the ledger is closed, and
  the guard of the whole invocation last, as the scopes of the code have it. `sent`,
  `replied`, `started` and `squeezed` are history variables. A scan is configured
  (`navigation`) whether or not a hint is eligible for it: with no `batches` it still
  has its lines. A search that fails is delivered and has its receipt like any other; for
  the first one that is the end, while one of the reader ends the session only
  when it was assisted by the service, and otherwise the reader goes on. The mode of a search
  is not modelled, so both may follow (`FailedReceipt`).
- In `PageTree` whether a bookmark's title is found on its page is arbitrary; a
  title is only whether it equals another. In `NodeWindows` a character is its
  number of bytes and whether it ends a line. In `HintScan` a hint is its size, its
  score is arbitrary. A sort is the order in which the loop after it takes what is
  left, so that `sort_unstable` may leave equal windows in any order; a batch is its
  last candidate, and its bytes are the sum of its hints and what a request adds.

## 3. The runs

| Run | Module, configuration | What it shows |
|---|---|---|
| `ledger` | `MCEnrichLedger`, `EnrichLedger.cfg` | the admission rules: budgets, windows, retries, retirement, frozen history |
| `build` | `MCEnrichBuild`, `EnrichBuild.cfg` | one build over up to four runs with crashes, torn lines, rebuilds, a reindex and a foreign overlay: no repaid window, publication never lost or wrong, limits that stop it only between windows |
| `two` | `MCEnrichBuild`, `EnrichBuildTwo.cfg` | two processes on one file: creation race, lock, crashes; implements `EnrichLedger`; a run that is not killed ends |
| `search` | `MCCorpusSearch`, `CorpusSearch.cfg` | searches beside writers, edits and one power loss: fresh evidence, no silent miss; implements `SnapshotStore` |
| `hints` | `MCOverlayReaders`, `OverlayReaders.cfg` | a published generation is whole, faithful and immutable; overlays bind to the current one; hints are used only for a state that existed at one moment |
| `planned` | `PlannedSearch`, `PlannedSearch.cfg` | a planned search accounts for every request under refusals, failures, deadline and reindexing, delivers all or nothing, and ends |
| `evidence` | `MCEvidenceUnion`, `EvidenceUnion.cfg` | the capped union is fair to the views and counts spans; dispositions, anchors and order of delivery are true of what was issued, after success and failure |
| `session` | `MCHostSession`, `HostSession.cfg` | only what was sent to the model can be read or cited; citations are of the pinned generation and hold after the answer; budgets and the turn hold in every order of messages; no process of the group is left, no signal strays; a session ends |
| `attempts` | `HostRun`, `HostRun.cfg` | the file is never behind what was spent; a terminal line is one, last, and true; an admitted scan has room for its lines |
| `algorithms` | `MCAlgorithms`, `Algorithms.cfg` | the sequential parts over all of their small inputs |
| `restore`, `coverage` | `MCCorpusSearch`, `CorpusRestore.cfg`; `MCCandidateView`, `CandidateCoverage.cfg` | the disagreements of section 6, as violations |

Some properties are conjunctions of named parts, which the modules state and
comment one by one:

| Property | Parts |
|---|---|
| `HistorySound` | `WindowsSound`, `RetiredCallsUnused`, `RetryLinks` |
| `BuildKept` | `ResumeSafe`, `PreparedIsResumable`, `PublishedWasPrepared` |
| `FileGoverns` | `HandleMatchesLog`, `ReservedAndSentOnce` |
| `PublicationSound` | `PublishedNeverChanges`, `NavigationBound` |
| `RecordComplete`, `DeliverySound` | `CallsAccountedFor`, `OneCause`; `NoPartialSuccess`, `IssuedAsRecorded`, `DeliveredSnapshotCurrent` |
| `UnionSound`, `DeliveryExplained` | `UnionFair`, `OmissionsAreCap`; `OmissionsExplained`, `DeliveredInOrder` |
| `CandidatesKept` | `TreeLaneShare`, `CandidatesAccountedFor` |
| `TerminalTrue` | `ClosedOnce`, `NothingOpen`, `CompleteIsComplete` |
| `HintsExact` | `CoverExact`, `BatchesBest`, `PacketFair` |

A type invariant is checked in `ledger`; those of the other modules with
theorems are proved and not repeated in a run, and so are `OnePendingCall` and
`PreparedQuiescent` of the ledger.

**Bounds**, each a constant named in the configuration:

- `ledger`: one builder and one Jev call of budget, one support retry, two
  units. The limits are reached and extended by both rebuilds, and every record
  occurs in every order that the rules admit; the theorems cover other values.
- `build`: two units, budgets of two builder calls and one Jev call, two support
  retries, two windows per run, four starts, one reindex. The budgets
  and the seventeen records are so small that builds are stopped by each of them. `MaxRecords` is the code's byte limit, scaled to records, not a
  bound of the exploration. `two`: one unit, because the interplay of the
  processes is on the file and the lock and not on the units; three starts let a
  process run, die and resume while the other one starts.
- `hints`: two documents, two writers (builds, overlay publications or one of
  each), one reader, three generations, two edits, four runs: a build can overlap
  a failed one and be followed by others, a source can change before, between and
  after the reads of one build, and both pointers can be replaced while a reader
  is between them. One content cannot be parsed. `MaxFiles` is the code's limit of
  indexed files, scaled.
- `search`: one writer, one reader, two generations, two edits, one power loss; a
  search spans at most one publication with an edit before and after it.
- `planned`: two alternates, which is the code's limit, so that one view has to
  wait for a place and a sibling can fail before, while and after another waits;
  two hits, so that filtering, packing and issuing can stop halfway; one foreign
  generation at any step. Refusals are not bounded.
- `evidence`: two views of at most two windows over four spans of two sources
  with a cap of three: ties between views, repeated spans within and across views,
  and the cap inside a round all occur; a limit of two, scores on both sides of
  the floor and two roles, so that each disposition and each pair of ranks occurs.
- `session`: two nodes in two sources, one of which can be read in two windows,
  so that a read can be a continuation and a citation can be one of several; two
  admitted calls and two denials; one edit and one publication at any step, which
  is enough to separate each check from the step that relies on it. The theorems
  cover other values.
- `attempts`: limits of 11, 17 and 30 lines. The first is too low for any
  invocation, the second is reached during the reader's session of an invocation
  with a plan, the third hardly ever: with a scan of at most two batches, each line of
  the code is the first that does not fit in some behaviour. Two faults, each of a line
  too large, a write or a sync that failed, so that one can follow another. Of the
  reader's searches one is kept: those of a session run one after the other and
  nothing in the ledger relates them.
- `algorithms`: `CandidateView` with up to three documents, three candidates, two
  routed documents and two that are opened (`TopRanked`, eight in the code): each
  limit is reached from both sides. `PageTree` with four shapes of documents: few
  lines with up to four bookmarks, so that sections share lines, and up to five
  pages with two bookmarks, so that pages are left to their parent; two titles, two levels. `NodeWindows` with all
  texts of up to five characters of one and two bytes, all nodes of them and budgets
  of one, two and four bytes: a budget inside a character, at the end of a line and
  past the node. `HintScan` with up to three windows, equal ones among them, of four
  bytes (a pass remembers no more than a count and an end, so that three are enough for one to be
  merged into what the others left), four candidates of three sizes, and budgets that
  some divisions into batches keep and others do not.

A run stops when its starts, edits or searches are used up or its work is done,
which is why deadlock is not checked: a program that has ended may stay so.

**Fairness.** `two` assumes weak fairness of each process's `Step`, `planned` of
what the task does by itself (`Run`) and of the deadline (`Drop`), `session` of
the host's own steps (`Host`) and of the deadline (`TimeOut`); no other run assumes
any. In `planned` and `session` neither a service nor Codex owes a message: the
executor polls a task that can go on, and `timeout_at` drops one that waits. In
`two` the code justifies fairness since every wait of a run has an end: the lock is
taken with `try_lock`, provider calls and the builder have deadlines, and file
operations return or fail. Crashes are not fair: nothing has to crash, and a crashed
run is not required to end in any other way.

## 4. What is proved

`SnapshotStore` and `EnrichLedger` are the abstract specifications. They say in
a few actions what the detailed modules do in many: every step of a build that
changes the file is one record of the ledger or nothing, and a search delivers
parts of one snapshot or nothing. That the detailed modules implement them
(`ImplementsLedger`, `ImplementsStore`) is checked by TLC and proved (`FileIsLedger`,
`Refinement`), and it is proved that those who ask for hints leave the writers' specification
intact (`ReadersOnlyRead`).

| Module | Theorem | Property |
|---|---|---|
| `EnrichLedgerProofs` | `TypeCorrect`, `BudgetKept`, `HistoryIsSound`, `HistoryFrozen` | `TypeOK`, `CallBudget`, `HistorySound`, `PreparedFreezesHistory` |
| | `OneCallPending`, `PublicationQuiescent`, `RetryAlwaysFits` | `OnePendingCall`, `PreparedQuiescent`, `RetryFits` |
| | `WindowsAreSound`, `RetiredAreUnused`, `RetriesAreLinked` | the parts of `HistorySound` |
| `EnrichBuildProofs` | `FileIsLedger`, `FileHistory` | `ImplementsLedger`; `HistorySound` and `CallBudget` of the file |
| | `Governed`, `Kept`, `PaidOnce`, `NothingRefused` | `FileGoverns`, `BuildKept`, `NoRepaidWindow`, `NothingRefusedMidway` |
| `IndexProofs` | `WholeSnapshot`, `Publication` | `CurrentComplete` where edits restore nothing, `PublicationSound` |
| | `FreshAnswers`, `NothingMissed`, `Refinement` | `FreshEvidence` where edits restore nothing, `NoSilentMiss`, `ImplementsStore` |
| | `Witnessed`, `PublicationBesideReaders`, `ReadersOnlyRead` | `HintsWitnessed`, `PublicationSound` |
| `PlannedSearchProofs` | `Brackets`, `Complete`, `WholeDelivery`, `NothingAfterRefusal` | `LedgerBrackets`, `RecordComplete`, `DeliverySound`, `NoCallAfterRefusal` |
| | `Accounted`, `SingleCause`, `NoPartial`, `Recorded`, `Current` | their parts |
| `CandidateProofs` | `NothingLost`, `ClaimIsTrue` | `CandidatesKept`, `ExhaustiveWhenClaimed` |
| | `UnionIsSound`, `Explains`, `LedgerAgrees` | `UnionSound`, `DeliveryExplained`, `LedgerAgreesWithIssue` |
| `AlgorithmProofs` | `ReadsJoin`; `TreeIsCovered`, `SectionsKept`, `NoneDearer` | `WindowsJoin`; `TreeCovers`, `MergeKeeps`, `NeverDearer` |
| | `HintsAreExact`; `BytesCountedOnce`, `BudgetRefusedRightly`, `BestArePacked` | `HintsExact`; its parts |
| `HostSessionProofs` | `BudgetKept`, `TurnBound`, `GroupStopped`, `OnlyShownIsIssued`, `CitationsSound` | `BudgetTrue`, `OneTurn`, `GroupContained`, `IssuedWasShown`, `CitationsHold` |
| `HostRunProofs` | `Reserves`, `Terminal`, `Admitted` | `ReservedBeforeSpent`, `TerminalTrue`, `AdmittedScanFits` |

They hold for every value of the constants under the assumptions named in the
modules (`LedgerRules`, `EnrichLedger`, `EnrichBuild`, `IndexWriter`, `CorpusSearch`, `OverlayReaders`,
`PlannedSearch`, `CandidateBatch`, `CandidateView`, `EvidenceUnion`, `NodeWindows`, `PageTree`,
`HintScan`, `HostSession`, `AttemptLedger`), which say little more than that bounds are natural numbers. None of the properties is inductive as it stands.

- **`EnrichLedger`.** `CountInv` is the conjunction of the type invariant, the call
  limits, one pending call and a quiescent publication. `CallBudget` alone is not
  inductive: the limits grow with each rebuild and retry, so `CallLimits` says
  how far each counter may be for the rebuilds and retries there are. The
  properties about positions in the history are proved together with it, from
  the lemma `Growth`: a step extends calls, receipts, windows, rebuilds
  and retries by at most one element and never changes those that are there.
  Windows and retirements are proved side by side because a window must not
  claim a call retired earlier, and a retirement must not take a call that a
  window claims; both rest on the committed prefix only growing.
- **`EnrichBuild`.** `BuildInv` has three layers. What is in the file: `FileOK`, the
  ledger that its lines give, with its windows in the order of the plan, and `RoomOK`,
  the records that still fit. Who may change it: `LockOK` and `CreatedOK`; a file that
  was just created is nobody's until its first record is written, and no other run can
  take it, because an empty file is no ledger. What the run that holds
  the lock knows of it: `HandleOK`, `LoopOK`, `WindowOK` and `PublishOK`, of which
  `WindowOK` carries most. `Paying` says what the calls of the window in progress look
  like, and the room it leaves is the sum that `capacity_for_window` reserved, less the
  records written since: `7 + 2 * retries` before the window, `3` before its last record.
  `NothingRefusedMidway` is not inductive without these sums, nor `FileGoverns` without
  the knowledge of who can write. The proof has one lemma for what each record does to
  the fields of a ledger, one for what it leaves of the file, one for each step of the
  program, and four for the shapes that steps have (a record, a record that fails, a
  move without one, an end). `Replay` is a recursive function: `ReplayAppend` is proved
  from the well-ordering of the naturals, by the least length at which it would fail.
  Since every accepted record is a step of `EnrichLedger`, its theorems are
  then true of the file (`FileHistory`).
- **`IndexWriter`.** The holder of the lock works on a generation that was never
  published, and its directory holds what its job has written so far; what that
  is at each step is the long part of the invariant. That an edit gives a content
  no build has a digest of (`Restores = FALSE`) makes a digest that is found again
  mean that the file was not changed in between; the run `restore` shows the
  assumption is needed.
- **`OverlayReaders`.** An asker validates windows between two looks at
  `CURRENT.json`. The first cannot carry the argument, since anything may happen
  after it. The second does: a published generation is never published again, so
  the pointer cannot have named another one in between and the same one now.
- **`CorpusSearch`.** To the invariant of `IndexWriter`, `SearchInv` adds what a
  reader knows of the pointer it opened (`Named`: what holds of every snapshot ever
  published, which neither a writer nor a power loss can take back), that its hits are
  texts of that snapshot, that each match not reported is still to be looked at, or
  reported stale, or cut at the limit, and that a text looked at again was at that
  moment the source's. The refinement maps a step of a writer to a publication or to
  nothing; the step of the reader that opens `CURRENT.json` needs that the pointer
  names a whole generation.
- **`PlannedSearch`.** `IInv` adds to the types: `OperationsInv`, what each
  stage of an operation says of its event, its request, its reply and the file;
  `AloneInv`, that one operation at most runs and none after one has
  failed; `TaskInv`, which stages are possible where the task is; `RefusalInv`,
  that a refused record leaves a failing or failed operation behind as long as
  operations can run; and `HostInv`, for issue, status and generation.
- **`CandidateView`.** `ViewInv` ties the stages together: `LaneOK` what the lexical
  lane gave, `RouteOK` that a routing reply that is called complete names every document.
  `AllJudged` carries the claim of an exhaustive search: as long as nothing was cut and
  every document of the scope is opened, every node of the scope is among the
  candidates. The claim itself is made only at the end, when the list has lost most
  nodes, so what was complete must be remembered from the union of the lanes
  (`JoinedFacts`, which counts both halves of the candidate budget) to the judgment, and
  `JudgedList` then says that the list is the judged candidates that pass the floor, in
  order. The limit and the last look at the sources drop hits from it; `CutAndLook`
  shows that they drop those past the limit and those whose source has changed, and
  that the counters say how many.
- **`EvidenceUnion`.** The orders in the code are sorts, and a sort is stated here as
  some sequence of a set that is in order. `SortExists` proves that there is one for
  every finite set with a total order: an element's position is the number of those
  before it. From it come what the union takes (`SelectedFacts`: the spans whose first
  place is earliest, each once), what the ranks give (`RankedFacts`) and what is left
  after stale sources (`KeepingFacts`). `UnionInv` follows the batch:
  `HitsOK` and `JudgedOK` say that each span stands in it once and keeps its anchor,
  `DraftOK` what is on record before the ranking, and `FinalOK` what is after it:
  `Explained` gives, for each disposition and each step from there to the receipt, what
  is true of the candidate that has it, such as that more than the limit rank before
  it, or that what packing kept ranks before it. `DeliveryExplained` speaks only of the
  end, when most of the batch that these reasons are about is gone; that is why the
  reasons must be carried along. `HostOK` ties the ledger and what was issued to them.
- **`NodeWindows`.** The ends of the characters come from a recursive function. That it
  exists and ascends (`EndsFacts`) is shown by the least place where it would not.
  From it come the largest end within a budget (`CutFacts`), with which a second read
  of a window cuts at the same place, and the lines of a byte (`LineFacts`): the number
  of starts up to it, which grows by one at each start, so that a node's bytes have the
  node's lines. `ReadInv` adds to the property that the reader stands at the end of the
  last character it has read, within the node, and not at its end unless it is told so.
- **`PageTree`.** The ancestors of a node come from a recursive function, too; what is
  true of a node whenever it is true of its parent is shown by the least node of which it
  is not. `TreeInv` has one part for each stage. `BuildOK`, while sections are added: no
  section starts after a candidate that is left, and `Growing`, that the open
  sections reach to the end of the document and lie in one another. The second part is
  why the roots cover every line at all times: a root that is closed has closed the
  sections in it, so that nothing is open and the next section is a root itself. `TreeOK`:
  the complete tree is one that the optimizer accepts, and `Promoted` is needed for it,
  since a bookmark whose place on its page is not known lets the section before it end
  with that page, past its own parent. `MergeOK`: each pass leaves a tree that is accepted,
  and `Kept`. A section is kept by the first of its group when leaves are merged
  (`SiblingsMerged`; leaves with the same pages are all that a group has, so the lines
  grow within the parent), and by the topmost section that collapses above
  it (`SubtreesMerged`), which exists because ancestors lie in a line. `CostOK` is about
  prices. What a section's frontier costs is one more than the largest of what its
  children and the pages outside them cost (`FrontierStep`), because a way to a node below
  a child is one step longer than the child's own; what the optimizer computes is
  the lesser of that and the section's pages (`CostStep`). By the last section of which
  it is not so, the two agree after a pass and are no more than before
  (`SiblingsCheaper`, where the first leaf of a group stands for the others, and
  `SubtreesCheaper`). `CostOK` compares each pass with the tree that was built and adds, for the
  last one, that no collapse would pay.
- **`HintScan`.** `CoverOK` adds to the count that the windows taken start before those
  that are left and that the largest of their ends is known, so that what the next one
  adds is what it has after that end (`WindowAdds`): a byte before it that no window
  had would have to be before all of them. `BatchOK` adds that no batch could
  be longer (`Greedy`). By the first batch of which it is not so, the batches then reach
  at least as far as those of any division (`GreedyAhead`), there are at most as many of
  them, and since the sums of the volumes are one frame for each batch and each
  candidate once (`PlannedFacts`), they cost no more; a division that keeps the budget
  would therefore admit the next batch (`Affords`). `PacketOK` gives for each omitted
  candidate how many of the chosen ones were there when it was considered (`LeftOut`): those are the better
  ones, because candidates are taken in the order of their scores.
- **`HostSession`.** `CallOK` says in which phases a call runs and what it started
  from, `EvidenceOK` that whatever it has added is undone by its snapshots or is of
  the generation that the second check finds unchanged: generations only grow, so one
  that is the pinned one afterwards was so all along. `GroupOK` says that while
  the group is armed its leader has not been reaped, so that its identifier cannot
  belong to others. `BudgetOK`, `TurnOK` and `CheckOK` are about the budget, the turn
  and the validation.
- **`HostRun`.** `RoomOK` gives, for each place of an admitted scan, the room that is
  left: three lines for each batch to come, one for the completion and one for a
  failure. `LineOK` says that the last line covers what was sent and started, which
  is preserved when a line is refused, because the code then sends nothing. `ScanOK`
  relates the counters of the report to requests and replies; `TrackOK` and `DoneOK`
  say what has been done where the invocation is, and `CloseOK` what holds from the
  terminal line on. The last part of `DoneOK` follows the reader's search: between two
  calls of the session (`"reading"`) it is open only if a line was lost before, which is what
  the completed ledger inherits and `NothingOpen` states as its exception.

Only model-checked: liveness (`RunsEnd`, `SearchEnds`, `SessionEnds`), which the
proof system does not reach. Every invariant and action property of the runs that pass is a
theorem. Recursive definitions (`Ends`, `Ancestors`,
`Cost`, `Sums`) are reasoned about one by one, since induction over data needs an
operator as a parameter, which the provers cannot instantiate: each proof shows that the
function exists and then takes the least argument of which a claim would not hold.

## 5. What is not modelled

- In the modelled parts: prompts and schemas, the text of documents, digests,
  formatting, the walk of a directory and its ignore rules, symbolic links and
  permissions, the trigram filter (taken to be a superset of the matches), the
  10,000-line cap of the lexical lane, the choice of the best window for a lexical
  hit, the columns and pages of a citation, the structural checks of a published
  overlay (`validate_structure`, a precondition of publication), the arguments of tool
  calls and the classification of errors.
- A power loss is modelled for readers (`CorpusSearch`): the pointer is synced, the
  files of a generation are not, so some of them may be damaged or
  missing afterwards. Readers then fail on a digest and never answer
  from damaged files. The ledgers sync each record; that a synced record stays
  is assumed.
- Query planning (`query_plan.rs`): descriptors and the validation of the planner's
  answer are sequential and their results appear as the views of `PlannedSearch` or as
  an error of `HostRun`. The Jev client appears where it is called, as an answer or a
  failure. The command line's only interplay, the race of a workflow with a
  shutdown signal, is `Cancel` of `HostSession` and `HostRun`.
- Left out for good: packaging, evaluation scripts, trace files and
  argument parsing (no state of their own), other systems than Unix in the process
  group, and the libraries (`tgrep-core`, the PDF extractor).

## 6. Where the code and its documents disagree

1. **Restored source** (`restore`, `lib.rs:612`). A build takes a source's
   digest, parses the file by its name, and checks the digest again. A source
   that is changed before the parse and changed back before the check gives a
   snapshot whose text is of the other content, under the first digest.
   Afterwards it is reported as fresh, against `SPEC.md:43`. Without restored
   contents (`Restores = FALSE`) the property holds in the run `search`.
2. **Unannounced truncation** (`coverage`, `lib.rs:1525`). Literal matches cut by
   the lexical half of the candidate budget do not set `coverage.truncated`,
   against `docs/architecture.md:111`. `ExhaustiveWhenClaimed` shows what the
   report does guarantee: when, in addition, every document of the scope could be
   opened, all nodes were judged.

Two more were met while modelling and have no run of their own:

3. **Lost anchor** (`lib.rs:1525`, `lib.rs:1671`). A proven literal match cut from
   the lexical half can return through the tree lane without its anchor and is then
   filtered for its score, whereas `docs/architecture.md:122` gives anchors as the
   way not to let a judgment erase a proven match. `CandidatesKept` therefore
   speaks of the anchors that hits have.
4. **A full ledger stays open** (`jev_accounting.rs:150`). The comment on the guard
   says that dropping the workflow leaves a durable incomplete marker. When the
   limit of 1024 lines is reached, or the line is too large, the terminal line is
   refused as well. `ClosedOnce` says so: `closings = 1 \/ mem.events = limit`.

One behaviour is not against any document, and a reader of a ledger should know of it. A
search of the reader is kept in memory before its first line is written
(`jev_accounting.rs:429-446`), and the error of that line comes before the search is
marked as fatal (`retrieval.rs:798`). So when the write fails, the reader is told that
there is no evidence and goes on, and the ledger may be closed as completed with that
search `running`. Its accounting is then not complete, and says so (`CompleteIsComplete`).

## 7. Plan

Done: (1) enrichment ledger and build; (2) index writer, snapshot reads, search and
overlay readers; (3) candidate view; (4) planned search with its evidence roles;
(5) the host: session, evidence, process group, attempt ledger, invocation and scan;
(6) the algorithms of trees, windows and hints; (7) theorems about the ledgers, the
writers, their readers and askers, searches, planned search and its union, the session,
the invocation, the builder on its file, windows, trees and hints; (8) both refinements.

What would come next: `validate_structure` and the best window of a lexical hit as
algorithms with reference definitions.

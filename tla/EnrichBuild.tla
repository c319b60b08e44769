---------------------------- MODULE EnrichBuild ----------------------------
(***************************************************************************)
(* The navigation builder (enrich_with and process_window of               *)
(* gptgrep-host/src/enrich.rs) on top of its append-only ledger file       *)
(* (gptgrep-host/src/enrich_accounting.rs): processes that start, resume   *)
(* or rebuild a build on one ledger path, take the file lock, replay the   *)
(* file, reserve and make provider calls, checkpoint, publish the overlay  *)
(* and end, with a crash or a failed write possible at every point.        *)
(*                                                                         *)
(* A step is the code between two points at which another process, a       *)
(* provider or a crash can interfere: an append to the file, a provider    *)
(* call, the publication.  Every deadline and every local validation that  *)
(* the code ends with `?` may go either way.                               *)
(***************************************************************************)
EXTENDS LedgerEvents

CONSTANTS
    Procs,        \* processes that may run the builder on this ledger
    UnitCount,    \* plan.unit_count: source windows of the plan
    RunWindows,   \* max_windows_per_run
    MaxRecords,   \* max_ledger_bytes in records of MAX_RECORD_BYTES
    MaxStarts,    \* bound on the number of runs started
    MaxReindex    \* bound on the number of times the index is rebuilt

ASSUME BuildAssumption ==
    /\ UnitCount \in Nat \ {0} /\ RunWindows \in Nat \ {0}
    /\ MaxRecords \in Nat /\ MaxRecords >= 8
    /\ MaxStarts \in Nat /\ MaxReindex \in Nat
    /\ "none" \notin Procs

NoProc == "none"
Gens   == 1..(1 + MaxReindex)

\* The overlay is made from the plan, the windows and the call summary of the
\* ledger.  Its digest is told apart by the generation and the Jev calls; an
\* overlay that someone else publishes has a digest of its own.
Artifact(l, gen) == <<gen, l.jevCalls>>
ForeignArtifact(gen) == <<gen, MaxJev + MaxRebuilds + SupportRetries + 1>>
ArtifactSet == Gens \X (0..(MaxJev + MaxRebuilds + SupportRetries))

VARIABLES
    exists,      \* the ledger file has been created
    log,         \* its complete lines
    torn,        \* it ends with a partial line
    lock,        \* holder of the operating system's lock on the file
    generation,  \* generation of CURRENT.json
    pointer,     \* artifact of NAVIGATION.json, NoArtifact if there is none
    pc,          \* where each process is
    mem,         \* its Ledger handle
    poisoned,    \* failed_write of that handle
    run,         \* its local variables
    starts,      \* runs started so far
    report,      \* how the last run to hold the lock ended
    sent         \* history: the calls handed to a provider

fileVars == <<exists, log, torn>>
world    == <<generation, pointer>>
vars == <<exists, log, torn, lock, generation, pointer, pc, mem, poisoned,
          run, starts, report, sent>>

NoRun == [mode |-> "none", gen |-> 0, reused |-> 0, ordinal |-> 0,
          rebuild |-> 0, retry |-> 0]

Init ==
    /\ exists = FALSE /\ log = <<>> /\ torn = FALSE
    /\ lock = NoProc
    /\ generation = 1 /\ pointer = NoArtifact
    /\ pc = [p \in Procs |-> "idle"]
    /\ mem = [p \in Procs |-> EmptyLedger]
    /\ poisoned = [p \in Procs |-> FALSE]
    /\ run = [p \in Procs |-> NoRun]
    /\ starts = 0 /\ report = "none" /\ sent = <<>>

Goto(p, label) == pc' = [pc EXCEPT ![p] = label]
Unit(p)        == run[p].ordinal + 1
LastCall(p)    == Len(mem[p].calls)
Set(p, field, value) == run' = [run EXCEPT ![p][field] = value]

---------------------------------------------------------------------------
(* Ledger::append.                                                         *)

Refuses(p, e) ==
    \/ poisoned[p]
    \/ Len(log) >= MaxRecords
    \/ ~Accepts(mem[p], e, run[p].gen)

\* The record is validated, applied to the handle, written and synced.
Appended(p, e) ==
    /\ ~Refuses(p, e)
    /\ mem' = [mem EXCEPT ![p] = Apply(@, e)]
    /\ log' = Append(log, e)
    /\ UNCHANGED <<torn, poisoned, exists>>

\* Nothing is written; only a refused support retry leaves a trace.
AppendRefused(p, e) ==
    /\ Refuses(p, e)
    /\ mem' = [mem EXCEPT ![p] =
                 IF poisoned[p] \/ Len(log) >= MaxRecords
                 THEN @ ELSE Residue(@, e)]
    /\ UNCHANGED <<log, torn, poisoned, exists>>

\* The write or the sync fails: the line may be absent, partial or complete.
WriteFailed(p, e) ==
    /\ ~Refuses(p, e)
    /\ mem' = [mem EXCEPT ![p] = Apply(@, e)]
    /\ poisoned' = [poisoned EXCEPT ![p] = TRUE]
    /\ \/ log' = log /\ torn' \in BOOLEAN
       \/ log' = Append(log, e) /\ torn' = FALSE
    /\ UNCHANGED exists

AppendError(p, e) == AppendRefused(p, e) \/ WriteFailed(p, e)

\* The run ends and the process with it: the handle and the lock are dropped.
Exit(p, status) ==
    /\ Goto(p, "idle")
    /\ mem' = [mem EXCEPT ![p] = EmptyLedger]
    /\ poisoned' = [poisoned EXCEPT ![p] = FALSE]
    /\ run' = [run EXCEPT ![p] = NoRun]
    /\ lock' = IF lock = p THEN NoProc ELSE lock
    /\ report' = IF lock = p THEN status ELSE report

---------------------------------------------------------------------------
(* Starting a run and opening the ledger.                                  *)

\* The command line names a mode, and for a rebuild the failed call; the
\* source plan is bound to the generation of the moment.
Start(p) ==
    /\ pc[p] = "idle" /\ starts < MaxStarts
    /\ starts' = starts + 1
    /\ \E mode \in {"new", "resume", "rebuild"} :
         \E call \in IF mode = "rebuild" THEN 1..Len(Replay(log).calls) ELSE {0} :
           run' = [run EXCEPT ![p] = [NoRun EXCEPT !.mode = mode,
                                        !.gen = generation, !.rebuild = call]]
    /\ Goto(p, "planned")
    /\ UNCHANGED <<fileVars, world, lock, mem, poisoned, report, sent>>

Create(p) ==
    /\ pc[p] = "planned" /\ run[p].mode = "new"
    /\ \/ /\ ~exists
          /\ exists' = TRUE
          /\ Goto(p, "created")
          /\ UNCHANGED <<lock, mem, poisoned, run, report>>
       \/ /\ exists
          /\ Exit(p, "error")
          /\ UNCHANGED exists
    /\ UNCHANGED <<log, torn, world, starts, sent>>

\* Does not try the lock.
FaultyLockNew(p) ==
    /\ pc[p] = "created"
    /\ lock' = p /\ report' = "running"
    /\ \/ Appended(p, Bound(run[p].gen)) /\ Goto(p, "loop")
       \/ WriteFailed(p, Bound(run[p].gen)) /\ Goto(p, "abandoned")
    /\ UNCHANGED <<run, world, starts, sent>>

\* try_lock, then the Bound record; the file stays as it is on any error.
LockNew(p) ==
    /\ pc[p] = "created"
    /\ \/ /\ lock = NoProc
          /\ lock' = p /\ report' = "running"
          /\ \/ Appended(p, Bound(run[p].gen)) /\ Goto(p, "loop")
             \/ WriteFailed(p, Bound(run[p].gen)) /\ Goto(p, "abandoned")
          /\ UNCHANGED run
       \/ /\ lock # NoProc
          /\ Exit(p, "error")
          /\ UNCHANGED fileVars
    /\ UNCHANGED <<world, starts, sent>>

\* Opens the file while another run has it open.
FaultyLockExisting(p) ==
    /\ pc[p] = "planned" /\ run[p].mode # "new" /\ exists
    /\ lock' = p /\ report' = "running"
    /\ Goto(p, "replaying")
    /\ UNCHANGED <<mem, poisoned, run, fileVars, world, starts, sent>>

LockExisting(p) ==
    /\ pc[p] = "planned" /\ run[p].mode # "new"
    /\ \/ /\ exists /\ lock = NoProc
          /\ lock' = p /\ report' = "running"
          /\ Goto(p, "replaying")
          /\ UNCHANGED <<mem, poisoned, run>>
       \/ /\ ~exists \/ lock # NoProc
          /\ Exit(p, "error")
    /\ UNCHANGED <<fileVars, world, starts, sent>>

\* The whole file is replayed and must end with a complete record; a plain
\* resume needs a quiescent ledger, a rebuild one failed window at its end.
Admits(p) ==
    /\ ~torn /\ log # <<>>
    /\ ReplayAccepts(log, run[p].gen)
    /\ Settled(Replay(log))
    /\ IF run[p].mode = "rebuild"
       THEN CanRebuild(Replay(log), run[p].rebuild)
       ELSE Resumable(Replay(log))

\* Starts again at the first window of the plan.
FaultyReplayFile(p) ==
    /\ pc[p] = "replaying"
    /\ \/ /\ Admits(p)
          /\ mem' = [mem EXCEPT ![p] = Replay(log)]
          /\ Goto(p, "loop")
          /\ UNCHANGED <<lock, poisoned, run, report>>
       \/ ~Admits(p) /\ Exit(p, "error")
    /\ UNCHANGED <<fileVars, world, starts, sent>>

ReplayFile(p) ==
    /\ pc[p] = "replaying"
    /\ \/ /\ Admits(p)
          /\ mem' = [mem EXCEPT ![p] = Replay(log)]
          /\ Set(p, "reused", Len(Replay(log).windows))
          /\ Goto(p, "loop")
          /\ UNCHANGED <<lock, poisoned, report>>
       \/ ~Admits(p) /\ Exit(p, "error")
    /\ UNCHANGED <<fileVars, world, starts, sent>>

\* Opening failed after the lock was taken; no Failed record is attempted.
Abandon(p) ==
    /\ pc[p] = "abandoned"
    /\ Exit(p, "error")
    /\ UNCHANGED <<fileVars, world, starts, sent>>

---------------------------------------------------------------------------
(* The loop over the windows of the plan.                                  *)

MoreWindows(p) == run[p].ordinal < UnitCount
IsNew(p)       == run[p].ordinal >= run[p].reused
SourceOk(p)    == generation = run[p].gen

\* A stale source, a changed plan or any other local check that fails.
LoopError(p) ==
    /\ pc[p] = "loop"
    /\ Goto(p, "failing")
    /\ UNCHANGED <<fileVars, world, lock, mem, poisoned, run, starts, report, sent>>

\* verify_completed: a committed window is checked against the source again
\* and costs no call.
Reuse(p) ==
    /\ pc[p] = "loop" /\ MoreWindows(p) /\ ~IsNew(p) /\ SourceOk(p)
    /\ mem[p].windows[Unit(p)].unit = Unit(p)
    /\ Set(p, "ordinal", run[p].ordinal + 1)
    /\ UNCHANGED <<fileVars, world, lock, pc, mem, poisoned, starts, report, sent>>

\* The pending rebuild is consumed at the first new window and must be for
\* that window.
AdmitRebuild(p) ==
    LET call == run[p].rebuild IN
    /\ pc[p] = "loop" /\ MoreWindows(p) /\ IsNew(p) /\ call # 0
    /\ SourceOk(p)
    /\ Set(p, "rebuild", 0)
    /\ \/ /\ CanRebuild(mem[p], call)
          /\ mem[p].calls[call].unit = Unit(p)
          /\ CapacityForWindow(mem[p], Len(log), MaxRecords)
          /\ \/ Appended(p, RebuildAdmitted(call)) /\ UNCHANGED pc
             \/ AppendError(p, RebuildAdmitted(call)) /\ Goto(p, "failing")
       \/ /\ \/ ~CanRebuild(mem[p], call)
             \/ mem[p].calls[call].unit # Unit(p)
             \/ ~CapacityForWindow(mem[p], Len(log), MaxRecords)
          /\ Goto(p, "failing")
          /\ UNCHANGED <<fileVars, mem, poisoned>>
    /\ UNCHANGED <<world, lock, starts, report, sent>>

AtNewWindow(p) ==
    pc[p] = "loop" /\ MoreWindows(p) /\ IsNew(p) /\ run[p].rebuild = 0

\* The stop reasons the ledger and the run decide.
MustStop(p) ==
    \/ run[p].ordinal - run[p].reused >= RunWindows
    \/ \E kind \in Kinds :
          AttemptCount(mem[p], kind) >= EffectiveCallLimit(mem[p], kind)
    \/ ~CapacityForWindow(mem[p], Len(log), MaxRecords)

\* Besides those, the deadline and the overlay's own capacity stop a run.
StopRun(p) ==
    /\ AtNewWindow(p)
    /\ Goto(p, "stopping")
    /\ UNCHANGED <<fileVars, world, lock, mem, poisoned, run, starts, report, sent>>

\* Makes the call although its reservation failed.
FaultyReserveBuilder(p) ==
    /\ AtNewWindow(p) /\ ~MustStop(p) /\ SourceOk(p)
    /\ \/ Appended(p, CallReserved("builder", Unit(p)))
       \/ AppendError(p, CallReserved("builder", Unit(p)))
    /\ Goto(p, "builder_reserved")
    /\ UNCHANGED <<world, lock, run, starts, report, sent>>

ReserveBuilder(p) ==
    /\ AtNewWindow(p) /\ ~MustStop(p) /\ SourceOk(p)
    /\ \/ /\ Appended(p, CallReserved("builder", Unit(p)))
          /\ Goto(p, "builder_reserved")
       \/ /\ AppendError(p, CallReserved("builder", Unit(p)))
          /\ Goto(p, "failing")
    /\ UNCHANGED <<world, lock, run, starts, report, sent>>

---------------------------------------------------------------------------
(* process_window.                                                         *)

ReservedPc == [builder |-> "builder_reserved", jev |-> "jev_reserved"]
SentPc     == [builder |-> "builder_sent", jev |-> "jev_sent"]

\* The request leaves for the provider.
Send(p) ==
    \E kind \in Kinds :
      /\ pc[p] = ReservedPc[kind]
      /\ sent' = Append(sent, [call |-> LastCall(p), kind |-> kind,
                               unit |-> Unit(p)])
      /\ Goto(p, SentPc[kind])
      /\ UNCHANGED <<fileVars, world, lock, mem, poisoned, run, starts, report>>

\* The answer, a failure or the call's deadline; drafts that validate lead to
\* the support call, an empty list of drafts completes the window without it.
BuilderReply(p) ==
    /\ pc[p] = "builder_sent"
    /\ \E outcome \in Outcomes :
         \/ /\ Appended(p, CallFinished(outcome))
            /\ IF outcome = "ok"
               THEN \E label \in {"support", "window"} : Goto(p, label)
               ELSE Goto(p, "failing")
         \/ /\ AppendError(p, CallFinished(outcome))
            /\ Goto(p, "failing")
    /\ UNCHANGED <<world, lock, run, starts, report, sent>>

\* Reserve the support call, or its retry after the backoff.
ReserveSupport(p) ==
    /\ pc[p] = "support"
    /\ LET e == IF run[p].retry = 0
                THEN CallReserved("jev", Unit(p))
                ELSE RetryReserved(run[p].retry, Unit(p))
       IN \/ Appended(p, e) /\ Goto(p, "jev_reserved")
          \/ AppendError(p, e) /\ Goto(p, "failing")
    /\ Set(p, "retry", 0)
    /\ UNCHANGED <<world, lock, starts, report, sent>>

\* The deadline leaves no room for the call or its backoff, or the request
\* can no longer be prepared as planned.
SupportError(p) ==
    /\ pc[p] = "support"
    /\ Goto(p, "failing")
    /\ UNCHANGED <<fileVars, world, lock, mem, poisoned, run, starts, report, sent>>

SupportReply(p) ==
    /\ pc[p] = "jev_sent"
    /\ \E outcome \in Outcomes :
         \/ /\ Appended(p, CallFinished(outcome))
            /\ IF outcome = "ok"
               THEN Goto(p, "window") /\ UNCHANGED run
               ELSE IF CanRetry(mem'[p], LastCall(p))
               THEN Goto(p, "support") /\ Set(p, "retry", LastCall(p))
               ELSE Goto(p, "failing") /\ UNCHANGED run
         \/ /\ AppendError(p, CallFinished(outcome))
            /\ Goto(p, "failing")
            /\ UNCHANGED run
    /\ UNCHANGED <<world, lock, starts, report, sent>>

FinishWindow(p) ==
    /\ pc[p] = "window"
    /\ \/ /\ Appended(p, WindowCompleted(Unit(p), LastCall(p)))
          /\ Set(p, "ordinal", run[p].ordinal + 1)
          /\ Goto(p, "loop")
       \/ /\ AppendError(p, WindowCompleted(Unit(p), LastCall(p)))
          /\ Goto(p, "failing")
          /\ UNCHANGED run
    /\ UNCHANGED <<world, lock, starts, report, sent>>

---------------------------------------------------------------------------
(* Publication.                                                            *)

\* Publishes although the preparation was not recorded.
FaultyPreparePublication(p) ==
    LET e == PublicationPrepared(Artifact(mem[p], run[p].gen)) IN
    /\ pc[p] = "loop" /\ ~MoreWindows(p)
    /\ \/ mem[p].prepared # NoArtifact /\ UNCHANGED <<fileVars, mem, poisoned>>
       \/ mem[p].prepared = NoArtifact /\ (Appended(p, e) \/ AppendError(p, e))
    /\ Goto(p, "publishing")
    /\ UNCHANGED <<world, lock, run, starts, report, sent>>

PreparePublication(p) ==
    LET artifact == Artifact(mem[p], run[p].gen) IN
    /\ pc[p] = "loop" /\ ~MoreWindows(p)
    /\ run[p].ordinal = Len(mem[p].windows)
    /\ \/ /\ mem[p].prepared = artifact
          /\ Goto(p, "publishing")
          /\ UNCHANGED <<fileVars, mem, poisoned>>
       \/ /\ mem[p].prepared = NoArtifact
          /\ \/ Appended(p, PublicationPrepared(artifact)) /\ Goto(p, "publishing")
             \/ AppendError(p, PublicationPrepared(artifact)) /\ Goto(p, "failing")
    /\ UNCHANGED <<world, lock, run, starts, report, sent>>

\* The active overlay is this artifact already: the publication is recorded
\* (or, when it was recorded, confirmed) without publishing again.
FindPublished(p) ==
    /\ pc[p] = "publishing"
    /\ pointer = mem[p].prepared /\ SourceOk(p)
    /\ IF mem[p].published
       THEN Exit(p, "complete")
       ELSE /\ Goto(p, "recording")
            /\ UNCHANGED <<lock, mem, poisoned, run, report>>
    /\ UNCHANGED <<fileVars, world, starts, sent>>

\* publish_navigation_overlay, one step under the writer lock of the index.
PublishOverlay(p) ==
    /\ pc[p] = "publishing"
    /\ ~mem[p].published /\ pointer # mem[p].prepared
    /\ SourceOk(p)
    /\ pointer' = mem[p].prepared
    /\ Goto(p, "recording")
    /\ UNCHANGED <<fileVars, generation, lock, mem, poisoned, run, starts,
                   report, sent>>

\* Has no answer when a published overlay is no longer the active one.
FaultyPublishError(p) ==
    /\ pc[p] = "publishing" /\ ~mem[p].published
    /\ Goto(p, "failing")
    /\ UNCHANGED <<fileVars, world, lock, mem, poisoned, run, starts, report, sent>>

\* A held writer lock, a stale source or another overlay where this one was;
\* or the pointer has been renamed and syncing its directory fails.
PublishError(p) ==
    /\ pc[p] = "publishing"
    /\ Goto(p, "failing")
    /\ \/ UNCHANGED pointer
       \/ /\ ~mem[p].published /\ pointer # mem[p].prepared /\ SourceOk(p)
          /\ pointer' = mem[p].prepared
    /\ UNCHANGED <<fileVars, generation, lock, mem, poisoned, run, starts,
                   report, sent>>

RecordPublication(p) ==
    LET e == Published(mem[p].prepared) IN
    /\ pc[p] = "recording"
    /\ \/ Appended(p, e) /\ Goto(p, "complete")
       \/ AppendError(p, e) /\ Goto(p, "failing")
    /\ UNCHANGED <<world, lock, run, starts, report, sent>>

---------------------------------------------------------------------------
(* How a run ends.                                                         *)

Complete(p) ==
    /\ pc[p] = "complete"
    /\ Exit(p, "complete")
    /\ UNCHANGED <<fileVars, world, starts, sent>>

\* Ignores the result of the append.
FaultyWriteCheckpoint(p) ==
    /\ pc[p] = "stopping"
    /\ Appended(p, Checkpoint) \/ AppendError(p, Checkpoint)
    /\ Goto(p, "incomplete")
    /\ UNCHANGED <<world, lock, run, starts, report, sent>>

\* The report says incomplete and resume_safe once the checkpoint is written.
WriteCheckpoint(p) ==
    /\ pc[p] = "stopping"
    /\ \/ Appended(p, Checkpoint) /\ Goto(p, "incomplete")
       \/ AppendError(p, Checkpoint) /\ Goto(p, "abandoned")
    /\ UNCHANGED <<world, lock, run, starts, report, sent>>

EndIncomplete(p) ==
    /\ pc[p] = "incomplete"
    /\ Exit(p, "incomplete")
    /\ UNCHANGED <<fileVars, world, starts, sent>>

\* Marks the ledger failed after the publication was prepared, too.
FaultyWriteFailure(p) ==
    /\ pc[p] = "failing"
    /\ Appended(p, Failed) \/ AppendError(p, Failed)
    /\ Goto(p, "failed")
    /\ UNCHANGED <<world, lock, run, starts, report, sent>>

\* An error before the publication was prepared marks the ledger failed if it
\* can; the result of that append is ignored.
WriteFailure(p) ==
    /\ pc[p] = "failing"
    /\ IF ~mem[p].published /\ mem[p].prepared = NoArtifact
       THEN Appended(p, Failed) \/ AppendError(p, Failed)
       ELSE UNCHANGED <<fileVars, mem, poisoned>>
    /\ Goto(p, "failed")
    /\ UNCHANGED <<world, lock, run, starts, report, sent>>

EndFailed(p) ==
    /\ pc[p] = "failed"
    /\ Exit(p, "failed")
    /\ UNCHANGED <<fileVars, world, starts, sent>>

---------------------------------------------------------------------------
(* The environment.                                                        *)

\* A killed process leaves what it wrote; one killed inside a write is one
\* whose write failed before.
Crash(p) ==
    /\ pc[p] # "idle"
    /\ Exit(p, "crashed")
    /\ UNCHANGED <<fileVars, world, starts, sent>>

\* `gptgrep index` publishes another generation.
Reindex ==
    /\ generation < 1 + MaxReindex
    /\ generation' = generation + 1
    /\ UNCHANGED <<fileVars, lock, pointer, pc, mem, poisoned, run, starts,
                   report, sent>>

\* Another overlay is published for the current generation.
PublishForeign ==
    /\ pointer # ForeignArtifact(generation)
    /\ pointer' = ForeignArtifact(generation)
    /\ UNCHANGED <<fileVars, lock, generation, pc, mem, poisoned, run, starts,
                   report, sent>>

\* What the program does by itself once a run has started.
Step(p) ==
    \/ Create(p) \/ LockNew(p) \/ LockExisting(p) \/ ReplayFile(p) \/ Abandon(p)
    \/ LoopError(p) \/ Reuse(p) \/ AdmitRebuild(p) \/ StopRun(p)
    \/ ReserveBuilder(p) \/ Send(p) \/ BuilderReply(p)
    \/ ReserveSupport(p) \/ SupportError(p) \/ SupportReply(p) \/ FinishWindow(p)
    \/ PreparePublication(p) \/ FindPublished(p) \/ PublishOverlay(p)
    \/ PublishError(p) \/ RecordPublication(p) \/ Complete(p)
    \/ WriteCheckpoint(p) \/ EndIncomplete(p) \/ WriteFailure(p) \/ EndFailed(p)

Next ==
    \/ \E p \in Procs : Start(p) \/ Step(p) \/ Crash(p)
    \/ Reindex
    \/ PublishForeign

Spec == Init /\ [][Next]_vars

\* Every wait of a run is bounded by a deadline of its own, so a started run
\* keeps moving unless it is killed.
FairSpec == Spec /\ \A p \in Procs : WF_vars(Step(p))
---------------------------------------------------------------------------

durable == Replay(log)

\* The phases in which a process works on an opened ledger.
OpenPhases == {"loop", "builder_reserved", "builder_sent", "support",
               "jev_reserved", "jev_sent", "window", "publishing", "recording",
               "complete", "stopping", "incomplete", "failing", "failed"}

\* Whatever another process, a failed write or a crash did before, the handle a
\* run works with (unless a write of its own has failed) is exactly what a
\* replay of the file would give, and nobody else has the file open.
HandleMatchesLog ==
    \A p \in Procs : pc[p] \in OpenPhases =>
        /\ lock = p
        /\ poisoned[p] \/ (mem[p] = durable /\ ~torn)

\* No provider call without a durable reservation for that very call, and no
\* reservation is ever used for a second call: "No provider call follows a
\* failed reservation" (Ledger::append), also across restarts.
ReservedAndSentOnce ==
    \A i \in 1..Len(sent) :
        /\ sent[i].call \in 1..Len(durable.calls)
        /\ durable.calls[sent[i].call] = [kind |-> sent[i].kind,
                                          unit |-> sent[i].unit]
        /\ \A j \in 1..(i - 1) : sent[j].call < sent[i].call

\* The file governs: each process that has it open knows what is in it, and each call
\* that leaves is the one that is in it.
FileGoverns == HandleMatchesLog /\ ReservedAndSentOnce

\* A call is only made for a window that has not been paid for: never for a
\* completed window, and never after the publication was prepared.
NoRepaidWindow ==
    [][sent' # sent =>
         /\ durable.prepared = NoArtifact
         /\ \A i \in 1..Len(durable.windows) :
               durable.windows[i].unit # sent'[Len(sent')].unit]_vars

\* The stop checks before a window leave room for all of it and for what ends
\* the run: once a window has been started no record is refused, neither for
\* the call budgets nor for the size of the file, so the limits take effect
\* only between windows and never cost a paid window or its publication.
NothingRefusedMidway ==
    \A p \in Procs :
        /\ pc[p] = "builder_sent" => ~Refuses(p, CallFinished("ok"))
        /\ pc[p] = "support" =>
             ~Refuses(p, IF run[p].retry = 0
                         THEN CallReserved("jev", Unit(p))
                         ELSE RetryReserved(run[p].retry, Unit(p)))
        /\ pc[p] = "jev_sent" => ~Refuses(p, CallFinished("ok"))
        /\ pc[p] = "window" => ~Refuses(p, WindowCompleted(Unit(p), LastCall(p)))
        /\ pc[p] = "failing" /\ ~poisoned[p] /\ ~Quiescent(mem[p])
           /\ ~mem[p].failed => ~Refuses(p, Failed)
        /\ pc[p] = "loop" /\ ~MoreWindows(p) /\ mem[p].prepared = NoArtifact =>
             ~Refuses(p, PublicationPrepared(Artifact(mem[p], run[p].gen)))
        /\ pc[p] = "recording" => ~Refuses(p, Published(mem[p].prepared))

\* A run that reports incomplete (resume_safe = true) leaves a file that a
\* plain resume accepts.
ResumeSafe ==
    report = "incomplete" =>
        /\ ~torn /\ durable.bound
        /\ Resumable(durable)

\* The publication is never lost with the calls that paid for it: once it is
\* prepared, every crash and every error leave the file resumable, unless a
\* write tore it.
PreparedIsResumable ==
    durable.prepared # NoArtifact /\ ~torn => Resumable(durable)

\* An overlay of this build is active only if it is the one durably prepared.
PublishedWasPrepared ==
    pointer \in ArtifactSet => pointer = durable.prepared

\* What a build has paid for is kept: it can be resumed whenever the program says so,
\* and what becomes active is what was prepared.
BuildKept == ResumeSafe /\ PreparedIsResumable /\ PublishedWasPrepared

\* The file is a history of the abstract ledger.
Abs == INSTANCE EnrichLedger WITH ledger <- durable, Units <- 1..UnitCount,
                                  Artifacts <- ArtifactSet
ImplementsLedger == Abs!Spec

\* A run that has started comes to an end.
RunsEnd == \A p \in Procs : pc[p] # "idle" ~> pc[p] = "idle"
============================================================================

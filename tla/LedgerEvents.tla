---------------------------- MODULE LedgerEvents ---------------------------
(***************************************************************************)
(* The events of an enrichment ledger (enum Event of                       *)
(* gptgrep-host/src/enrich_accounting.rs), Ledger::apply as a function of  *)
(* the ledger and an event, and the replay of a file of events.            *)
(***************************************************************************)
EXTENDS LedgerRules

Bound(gen)           == [event |-> "bound", gen |-> gen]
CallReserved(kind, unit) ==
    [event |-> "call_reserved", kind |-> kind, unit |-> unit]
CallFinished(outcome) == [event |-> "call_finished", outcome |-> outcome]
RetryReserved(call, unit) ==
    [event |-> "support_retry_reserved", call |-> call, unit |-> unit]
WindowCompleted(unit, last) ==
    [event |-> "window_completed", unit |-> unit, last |-> last]
Checkpoint           == [event |-> "checkpoint"]
Failed               == [event |-> "failed"]
RebuildAdmitted(call) == [event |-> "window_rebuild_admitted", call |-> call]
PublicationPrepared(artifact) ==
    [event |-> "publication_prepared", artifact |-> artifact]
Published(artifact)  == [event |-> "published", artifact |-> artifact]

\* The event in the ledger bound to generation gen.
Accepts(l, e, gen) ==
    CASE e.event = "bound"         -> ~l.bound /\ e.gen = gen
      [] e.event = "call_reserved" -> CanReserve(l, e.kind)
      [] e.event = "call_finished" -> CanFinish(l)
      [] e.event = "support_retry_reserved" ->
            /\ Live(l) /\ CanRetry(l, e.call)
            /\ e.unit = l.calls[e.call].unit
            /\ CanReserve(AdmitRetry(l, e.call), "jev")
      [] e.event = "window_completed" -> CanCompleteWindow(l, e.unit, e.last)
      [] e.event = "checkpoint"       -> CanCheckpoint(l)
      [] e.event = "failed"           -> Live(l)
      [] e.event = "window_rebuild_admitted" -> CanRebuild(l, e.call)
      [] e.event = "publication_prepared"    -> CanPrepare(l)
      [] e.event = "published"        -> CanPublish(l, e.artifact)

Apply(l, e) ==
    CASE e.event = "bound"         -> [l EXCEPT !.bound = TRUE]
      [] e.event = "call_reserved" -> Reserve(l, e.kind, e.unit)
      [] e.event = "call_finished" -> Finish(l, e.outcome)
      [] e.event = "support_retry_reserved" ->
            Reserve(AdmitRetry(l, e.call), "jev", e.unit)
      [] e.event = "window_completed" -> CompleteWindow(l, e.unit, e.last)
      [] e.event = "checkpoint"       -> l
      [] e.event = "failed"           -> [l EXCEPT !.failed = TRUE]
      [] e.event = "window_rebuild_admitted" -> Rebuild(l, e.call)
      [] e.event = "publication_prepared"    -> [l EXCEPT !.prepared = e.artifact]
      [] e.event = "published"        -> [l EXCEPT !.published = TRUE]

\* What a refused event leaves behind: a support retry is pushed before the
\* reservation nested in it is examined, and is not taken back.
Residue(l, e) ==
    IF /\ e.event = "support_retry_reserved"
       /\ Live(l) /\ CanRetry(l, e.call) /\ e.unit = l.calls[e.call].unit
       /\ ~CanReserve(AdmitRetry(l, e.call), "jev")
    THEN AdmitRetry(l, e.call) ELSE l

\* The handle that open_mode rebuilds from the complete lines of the file.
Replay(log) ==
    LET after[i \in 0..Len(log)] ==
          IF i = 0 THEN EmptyLedger ELSE Apply(after[i - 1], log[i])
    IN after[Len(log)]

\* Every line of the file is accepted where it stands.
ReplayAccepts(log, gen) ==
    \A i \in 1..Len(log) : Accepts(Replay(SubSeq(log, 1, i - 1)), log[i], gen)
============================================================================

---------------------------- MODULE LedgerRules ----------------------------
(***************************************************************************)
(* The state of one enrichment ledger (struct Ledger of                    *)
(* gptgrep-host/src/enrich_accounting.rs) as a record, and the rules by    *)
(* which Ledger::apply accepts an event and changes that state.  The rules *)
(* have no variables: EnrichLedger turns them into a state machine, and    *)
(* LedgerEvents into the events of the file, which EnrichBuild writes and  *)
(* replays.                                                                *)
(*                                                                         *)
(* Calls are numbered from 1 (call_id k of the code is call k + 1 here),   *)
(* so 0 stands for "no call".  A request is identified by the window       *)
(* ("unit") it is made for: anchor id, digest and size of a request are    *)
(* functions of the unit.  A receipt is one of three outcomes:             *)
(*   ok         no error_code, an observation is present                   *)
(*   transient  a call failure that FailureInfo::allows_rebuild accepts    *)
(*   final      any other failure (validation, protocol, HTTP 4xx)         *)
(*                                                                         *)
(* Operators named Faulty... are deliberate faults: each is the operator   *)
(* after it with one mistake, used to see that the properties notice it.   *)
(***************************************************************************)
EXTENDS Naturals, Sequences

CONSTANTS MaxBuilder,      \* binding.max_builder_calls
          MaxJev,          \* binding.max_jev_calls
          SupportRetries   \* binding.support_retries

ASSUME BudgetAssumption ==
    /\ MaxBuilder \in Nat
    /\ MaxJev \in Nat
    /\ SupportRetries \in 0..2

MaxRebuilds == 2

Kinds    == {"builder", "jev"}
Outcomes == {"ok", "transient", "final"}
NoArtifact == <<>>

EmptyLedger ==
    [bound     |-> FALSE,
     calls     |-> <<>>,          \* reservations
     receipts  |-> <<>>,
     windows   |-> <<>>,
     committed |-> 0,             \* committed_calls
     builderCalls |-> 0,
     jevCalls  |-> 0,
     rebuilds  |-> <<>>,          \* failed call of each admitted rebuild
     retries   |-> <<>>,          \* failed call of each support retry
     failed    |-> FALSE,
     prepared  |-> NoArtifact,
     published |-> FALSE]

AttemptCount(l, kind) == IF kind = "builder" THEN l.builderCalls ELSE l.jevCalls

EffectiveCallLimit(l, kind) ==
    IF kind = "builder"
    THEN MaxBuilder + Len(l.rebuilds)
    ELSE MaxJev + Len(l.rebuilds) + Len(l.retries)

\* Every reservation has its receipt and belongs to a committed window.
Quiescent(l) == Len(l.calls) = l.committed

Settled(l) == Len(l.calls) = Len(l.receipts)

Retried(l, call) == \E i \in 1..Len(l.retries) : l.retries[i] = call

---------------------------------------------------------------------------
(* What apply accepts.                                                     *)

\* The first check of apply: a published ledger is closed, a failed one is
\* closed to everything but a rebuild admission.
Live(l) == l.bound /\ ~l.published /\ ~l.failed

\* Forgets the budget, or the prepared publication.
FaultyCanReserveUnbudgeted(l, kind) ==
    Live(l) /\ l.prepared = NoArtifact /\ Settled(l)
FaultyCanReservePrepared(l, kind) ==
    /\ Live(l) /\ Settled(l)
    /\ AttemptCount(l, kind) < EffectiveCallLimit(l, kind)

CanReserve(l, kind) ==
    /\ Live(l)
    /\ l.prepared = NoArtifact
    /\ Settled(l)
    /\ AttemptCount(l, kind) < EffectiveCallLimit(l, kind)

CanFinish(l) ==
    /\ Live(l)
    /\ Len(l.calls) = Len(l.receipts) + 1

\* Also retries a builder call.
FaultyCanRetryAnyKind(l, call) ==
    /\ Len(l.retries) < SupportRetries
    /\ Settled(l) /\ call = Len(l.calls) /\ call > 0
    /\ l.receipts[call] = "transient"

\* Ledger::support_retry: the last call is a failed Jev call that may be
\* sent again.
CanRetry(l, call) ==
    /\ Len(l.retries) < SupportRetries
    /\ Settled(l)
    /\ call = Len(l.calls) /\ call > 0
    /\ l.calls[call].kind = "jev"
    /\ l.receipts[call] = "transient"

\* Does not look at the window that the calls were made for.
FaultyCanCompleteWindow(l, unit, last) ==
    LET first == l.committed + 1 IN
    /\ Live(l) /\ Len(l.calls) = last /\ Settled(l)
    /\ first <= last /\ last <= l.committed + 2 + SupportRetries
    /\ \A c \in first..last :
         /\ l.calls[c].kind = IF c = first THEN "builder" ELSE "jev"
         /\ IF c \in {first, last}
            THEN l.receipts[c] = "ok"
            ELSE l.receipts[c] # "ok" /\ Retried(l, c)

CanCompleteWindow(l, unit, last) ==
    LET first == l.committed + 1 IN
    /\ Live(l)
    /\ Len(l.calls) = last /\ Settled(l)
    /\ first <= last /\ last <= l.committed + 2 + SupportRetries
    /\ \A c \in first..last :
         /\ l.calls[c].unit = unit
         /\ l.calls[c].kind = IF c = first THEN "builder" ELSE "jev"
         /\ IF c \in {first, last}
            THEN l.receipts[c] = "ok"
            ELSE l.receipts[c] # "ok" /\ Retried(l, c)

CanCheckpoint(l) == Live(l) /\ Quiescent(l)

\* Ledger::rebuild_admission: the uncommitted tail is one failed window.
CanRebuild(l, call) ==
    LET first == l.committed + 1 IN
    /\ l.bound /\ ~l.published /\ l.prepared = NoArtifact
    /\ Len(l.rebuilds) < MaxRebuilds
    /\ Settled(l) /\ call = Len(l.calls) /\ call > 0
    /\ first <= call /\ call <= l.committed + 2 + SupportRetries
    /\ l.calls[first].kind = "builder"
    /\ \/ call = first
       \/ /\ l.receipts[first] = "ok"
          /\ \A c \in (first + 1)..call : l.calls[c].kind = "jev"
          /\ \A c \in (first + 1)..(call - 1) : Retried(l, c)
    /\ l.receipts[call] = "transient"
    /\ \A c \in first..call : l.calls[c].unit = l.calls[first].unit

CanPrepare(l) == Live(l) /\ Quiescent(l) /\ l.prepared = NoArtifact

CanPublish(l, artifact) ==
    Live(l) /\ l.prepared = artifact /\ artifact # NoArtifact

\* The checks of open_mode after the replay.
Resumable(l) == Settled(l) /\ ~l.failed /\ Quiescent(l)

\* Reserves no room for support retries.
FaultyCapacityForWindow(l, records, maxRecords) == records + 7 <= maxRecords

\* Ledger::capacity_for_window, one record weighing MAX_RECORD_BYTES.
CapacityForWindow(l, records, maxRecords) ==
    LET retries == IF Len(l.retries) <= SupportRetries
                   THEN SupportRetries - Len(l.retries) ELSE 0
    IN records + 7 + 2 * retries <= maxRecords

---------------------------------------------------------------------------
(* What apply does with an accepted event.                                 *)

Reserve(l, kind, unit) ==
    [l EXCEPT !.calls = Append(@, [kind |-> kind, unit |-> unit]),
              !.builderCalls = IF kind = "builder" THEN @ + 1 ELSE @,
              !.jevCalls     = IF kind = "jev" THEN @ + 1 ELSE @]

Finish(l, outcome) == [l EXCEPT !.receipts = Append(@, outcome)]

AdmitRetry(l, call) == [l EXCEPT !.retries = Append(@, call)]

\* Takes the index of the first call for its count.
FaultyCompleteWindow(l, unit, last) ==
    [l EXCEPT !.windows = Append(@, [unit |-> unit, first |-> l.committed - 1,
                                     last |-> last]),
              !.committed = last]

CompleteWindow(l, unit, last) ==
    [l EXCEPT !.windows = Append(@, [unit |-> unit, first |-> l.committed + 1,
                                     last |-> last]),
              !.committed = last]

\* Leaves the retired calls in the tail of the next window.
FaultyRebuild(l, call) ==
    [l EXCEPT !.failed = FALSE, !.rebuilds = Append(@, call)]

Rebuild(l, call) ==
    [l EXCEPT !.committed = Len(l.calls),
              !.failed = FALSE,
              !.rebuilds = Append(@, call)]
============================================================================

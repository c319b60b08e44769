---------------------------- MODULE EnrichLedger ---------------------------
(***************************************************************************)
(* The abstract specification of the enrichment ledger: every sequence of  *)
(* events that Ledger::apply accepts, one action per event, whoever writes *)
(* them and however often the process is restarted in between.  What holds *)
(* here holds of every ledger file that open_mode can replay.              *)
(*                                                                         *)
(* A checkpoint event is accepted only when CanCheckpoint holds and leaves *)
(* the ledger as it is: it is a stuttering step and has no action.         *)
(***************************************************************************)
EXTENDS LedgerRules

CONSTANTS Units,        \* source windows a call can be made for
          Artifacts     \* overlay artifacts, by digest

ASSUME ArtifactAssumption == NoArtifact \notin Artifacts

VARIABLE ledger

vars == <<ledger>>

Init == ledger = EmptyLedger

Bind == ~ledger.bound /\ ledger' = [ledger EXCEPT !.bound = TRUE]

ReserveCall(kind, unit) ==
    CanReserve(ledger, kind) /\ ledger' = Reserve(ledger, kind, unit)

FinishCall(outcome) ==
    CanFinish(ledger) /\ ledger' = Finish(ledger, outcome)

ReserveRetry ==
    LET call == Len(ledger.calls) IN
    /\ Live(ledger)
    /\ CanRetry(ledger, call)
    /\ CanReserve(AdmitRetry(ledger, call), "jev")
    /\ ledger' = Reserve(AdmitRetry(ledger, call), "jev",
                         ledger.calls[call].unit)

Complete(unit) ==
    LET last == Len(ledger.calls) IN
    /\ CanCompleteWindow(ledger, unit, last)
    /\ ledger' = CompleteWindow(ledger, unit, last)

Fail == Live(ledger) /\ ledger' = [ledger EXCEPT !.failed = TRUE]

AdmitRebuild ==
    LET call == Len(ledger.calls) IN
    CanRebuild(ledger, call) /\ ledger' = Rebuild(ledger, call)

Prepare(artifact) ==
    CanPrepare(ledger) /\ ledger' = [ledger EXCEPT !.prepared = artifact]

Publish ==
    /\ CanPublish(ledger, ledger.prepared)
    /\ ledger' = [ledger EXCEPT !.published = TRUE]

Next ==
    \/ Bind
    \/ \E kind \in Kinds, unit \in Units : ReserveCall(kind, unit)
    \/ \E outcome \in Outcomes : FinishCall(outcome)
    \/ ReserveRetry
    \/ \E unit \in Units : Complete(unit)
    \/ Fail
    \/ AdmitRebuild
    \/ \E artifact \in Artifacts : Prepare(artifact)
    \/ Publish

Spec == Init /\ [][Next]_vars

---------------------------------------------------------------------------

Call   == [kind : Kinds, unit : Units]
Window == [unit : Units, first : Nat, last : Nat]
LedgerType ==
    [bound : BOOLEAN,
     calls : Seq(Call), receipts : Seq(Outcomes), windows : Seq(Window),
     committed : Nat, builderCalls : Nat, jevCalls : Nat,
     rebuilds : Seq(Nat), retries : Seq(Nat),
     failed : BOOLEAN,
     prepared : Artifacts \cup {NoArtifact}, published : BOOLEAN]

\* The fields of a ledger have their types (struct Ledger).
TypeOK == ledger \in LedgerType

\* Over the whole life of a ledger, through every resume and rebuild, the
\* provider calls it admits stay within the budgets of the build, extended by
\* one builder and one Jev call per rebuild (at most two) and one Jev call per
\* support retry (at most SupportRetries); every call is counted once.
CallBudget ==
    /\ Len(ledger.calls) = ledger.builderCalls + ledger.jevCalls
    /\ ledger.builderCalls <= MaxBuilder + MaxRebuilds
    /\ ledger.jevCalls <= MaxJev + MaxRebuilds + SupportRetries

\* Never two calls in flight, and a receipt always has its reservation; the
\* committed prefix contains no call without a receipt.
OnePendingCall ==
    /\ ledger.committed <= Len(ledger.receipts)
    /\ Len(ledger.receipts) <= Len(ledger.calls)
    /\ Len(ledger.calls) <= Len(ledger.receipts) + 1

\* Completed windows take disjoint, ascending ranges of calls, each one
\* builder call followed by Jev calls for the same window, the first and the
\* last of them successful.
WindowsSound ==
    \A i \in 1..Len(ledger.windows) :
        LET w == ledger.windows[i] IN
        /\ 1 <= w.first /\ w.first <= w.last /\ w.last <= ledger.committed
        /\ \A j \in 1..(i - 1) : ledger.windows[j].last < w.first
        /\ ledger.receipts[w.first] = "ok" /\ ledger.receipts[w.last] = "ok"
        /\ \A c \in w.first..w.last :
             /\ ledger.calls[c].unit = w.unit
             /\ ledger.calls[c].kind = IF c = w.first THEN "builder" ELSE "jev"

\* A call retired by a rebuild failed in a way that allows it, is committed,
\* and belongs to no completed window.
RetiredCallsUnused ==
    \A i \in 1..Len(ledger.rebuilds) :
        LET c == ledger.rebuilds[i] IN
        /\ c \in 1..ledger.committed
        /\ ledger.receipts[c] = "transient"
        /\ \A j \in 1..Len(ledger.windows) :
             c \notin ledger.windows[j].first..ledger.windows[j].last

\* A support retry is the reservation right after a failed Jev call, for the
\* same window, and no call is retried twice.
RetryLinks ==
    \A i \in 1..Len(ledger.retries) :
        LET c == ledger.retries[i] IN
        /\ c >= 1 /\ c < Len(ledger.calls)
        /\ ledger.calls[c].kind = "jev"
        /\ ledger.receipts[c] = "transient"
        /\ ledger.calls[c + 1] = ledger.calls[c]
        /\ \A j \in 1..(i - 1) : ledger.retries[j] < c

\* Every sequence of events that is admitted is a sound history: what a window
\* claims, a rebuild retires and a retry repeats are calls that allow it.
HistorySound == WindowsSound /\ RetiredCallsUnused /\ RetryLinks

\* From the moment a publication is prepared no call is pending or
\* uncommitted, and a published ledger was prepared first.
PreparedQuiescent ==
    /\ ledger.prepared # NoArtifact => Quiescent(ledger) /\ Settled(ledger)
    /\ ledger.published => ledger.prepared # NoArtifact

\* A support retry that the failed call admits is never refused for want of
\* budget, so the partial update of SupportRetryReserved is never left behind.
RetryFits ==
    LET call == Len(ledger.calls) IN
    Live(ledger) /\ CanRetry(ledger, call) /\ ledger.prepared = NoArtifact
        => CanReserve(AdmitRetry(ledger, call), "jev")

\* Once prepared, the calls, receipts and windows that the artifact was made
\* from never change again.
PreparedFreezesHistory ==
    [][ledger.prepared # NoArtifact =>
          /\ ledger'.prepared = ledger.prepared
          /\ ledger'.calls = ledger.calls
          /\ ledger'.receipts = ledger.receipts
          /\ ledger'.windows = ledger.windows]_vars
============================================================================

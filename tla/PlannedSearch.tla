---------------------------- MODULE PlannedSearch ---------------------------
(***************************************************************************)
(* One planned search, from the snapshot to the reader's first evidence:   *)
(* search_planned_with_policy_and_observer of gptgrep-core/src/planned.rs, *)
(* called by bootstrap_planned of gptgrep-host/src/retrieval.rs, with the  *)
(* ledger of gptgrep-host/src/jev_accounting.rs as its observer.           *)
(*                                                                         *)
(* The search is one asynchronous task.  Its views run at most MaxInFlight *)
(* at a time and wait only for replies of the Jev service; between two     *)
(* waits a view runs alone, but each record in the ledger may be refused   *)
(* and other processes may publish a new generation at any time.  The      *)
(* caller's deadline drops the task while it waits.  Which spans a view    *)
(* finds and which of them survive the judgment is data here, counted      *)
(* only: EvidenceUnion models it.                                          *)
(*                                                                         *)
(* Operations are numbered: 0 is q0.route, the original question, 1 and 2  *)
(* the alternates, and the last one is union.rerank.                       *)
(***************************************************************************)
EXTENDS Naturals, FiniteSets

CONSTANTS
    Alternates,    \* alternate queries of the plan (at most 2 in the code)
    MaxInFlight,   \* buffer_unordered(2)
    MaxHits,       \* bound on the candidates of the union
    MaxReindex     \* bound on the generations that others publish

ASSUME PlanAssumption ==
    /\ Alternates \in Nat /\ MaxInFlight \in Nat \ {0}
    /\ MaxHits \in Nat /\ MaxReindex \in Nat

Routes == 0..Alternates
Union  == Alternates + 1
Ops    == 0..(Alternates + 1)
Pinned == 0      \* the generation that the host opened

VARIABLES
    current,  \* generation in CURRENT.json
    readAt,   \* history: current at the last read of the sources
    roles,    \* PlannedScoringPolicy::EvidenceRoles
    pc,       \* where the task is
    stage,    \* where each operation is
    ops,      \* Recorder.operations, also kept by the ledger's state
    ledger,   \* what the ledger file holds of the search
    status,   \* SearchTelemetry.status
    hits,     \* number of hits
    issued,   \* hits issued as citable evidence
    sent,     \* history: operations whose request was sent
    replied,  \* history: operations whose reply arrived
    refused   \* history: the ledger refused a record

callVars == <<stage, ops, sent, replied, refused>>
hostVars == <<status, issued>>
vars == <<current, readAt, roles, pc, stage, ops, ledger, status, hits, issued,
          sent, replied, refused>>

NoEvent == [event |-> "none", attempted |-> 0, requests |-> 0]

Init ==
    /\ current = Pinned /\ readAt = Pinned
    /\ roles \in BOOLEAN
    /\ pc = "open"
    /\ stage = [o \in Ops |-> "waiting"]
    /\ ops = [o \in Ops |-> NoEvent]
    /\ ledger = [ops |-> ops, status |-> "running"]
    /\ status = "running"
    /\ hits = 0 /\ issued = 0
    /\ sent = {} /\ replied = {} /\ refused = FALSE
---------------------------------------------------------------------------
\* The ledger.  A record is kept in memory before it is appended; a line of the
\* file holds the whole search, so it brings the file up to date.  A refused line
\* is in the file all the same when it was written and could not be synced.

Append(ok) ==
    \/ ledger' = [ops |-> ops', status |-> status']
    \/ ~ok /\ UNCHANGED ledger

\* Recorder::record and plan_event.
Record(o, event, ok) ==
    /\ ops' = [ops EXCEPT ![o] = event]
    /\ refused' = (refused \/ ~ok)
    /\ Append(ok)

\* Counts the attempt only with the reply.
FaultyProgress(o, event) ==
    [event     |-> event,
     attempted |-> IF event = "after_reply" THEN 1 ELSE ops[o].attempted,
     requests  |-> IF event = "after_reply" THEN 1 ELSE ops[o].requests]

\* Operation::current with the event to be reported and its metrics.
Progress(o, event) ==
    [event     |-> event,
     attempted |-> IF event = "before_call" THEN 1 ELSE ops[o].attempted,
     requests  |-> IF event = "after_reply" THEN 1 ELSE ops[o].requests]

\* Goes on when the record is refused.
FaultyEmit(o, event, next) ==
    /\ UNCHANGED status
    /\ \E ok \in BOOLEAN :
         /\ Record(o, Progress(o, event), ok)
         /\ stage' = [stage EXCEPT ![o] = next]

\* Emits an event and goes on to the next stage, or fails when it is refused.
Emit(o, event, next) ==
    /\ UNCHANGED status
    /\ \E ok \in BOOLEAN :
         /\ Record(o, Progress(o, event), ok)
         /\ stage' = [stage EXCEPT ![o] = IF ok THEN next ELSE "failing"]

\* Moves without a record.
Goto(o, next) ==
    /\ stage' = [stage EXCEPT ![o] = next]
    /\ UNCHANGED <<ops, ledger, refused, status>>
---------------------------------------------------------------------------
\* Scheduling: an operation that waits for a reply is suspended, every other
\* unfinished one runs until it waits or ends.

Ended     == {"finished", "failed", "interrupted"}
Suspended == {o \in Ops : stage[o] = "asked"}
Running   == {o \in Ops : stage[o] \notin {"waiting", "asked"} \cup Ended}
InFlight  == {o \in Routes : stage[o] \notin {"waiting", "finished"}}

\* Polls the siblings of a failed view to their end.
FaultyCanRun(o) == pc \in {"routing", "judging"} /\ Running \subseteq {o}

CanRun(o) ==
    /\ pc \in {"routing", "judging"}
    /\ Running \subseteq {o}
    /\ \A p \in Ops : stage[p] # "failed"

\* The views start in order, as places become free.
Startable(o) ==
    /\ pc = "routing" /\ o \in Routes
    /\ stage[o] = "waiting"
    /\ \A p \in Routes : p < o => stage[p] # "waiting"
    /\ Cardinality(InFlight) < MaxInFlight

\* Trusts the check before the reads.
FaultyStillPinned == pc = "confirming" \/ current = Pinned

\* ensure_generation.
StillPinned == current = Pinned

\* A new generation is published by another process.
Reindex ==
    /\ current < MaxReindex
    /\ current' = current + 1
    /\ UNCHANGED <<readAt, roles, pc, callVars, ledger, hostVars, hits>>

\* Snapshot::open and the checks of the options.
Open ==
    /\ pc = "open"
    /\ \/ StillPinned /\ pc' = "routing"
       \/ pc' = "failing"
    /\ UNCHANGED <<current, readAt, roles, callVars, ledger, hostVars, hits>>

\* Operation::new and its first event.
Start(o) ==
    /\ Startable(o) /\ CanRun(o)
    /\ Emit(o, "admitted", "admitted")
    /\ UNCHANGED <<current, readAt, roles, pc, hits, issued, sent, replied>>

\* ensure_generation and the local part of collect_candidate_view, which fails
\* on a damaged snapshot and needs no reply when all documents are stale.
Collect(o) ==
    /\ CanRun(o) /\ o \in Routes /\ stage[o] = "admitted"
    /\ \/ StillPinned /\ \E next \in {"asking", "collected"} : Goto(o, next)
       \/ Goto(o, "failing")
    /\ UNCHANGED <<current, readAt, roles, pc, hits, issued, sent, replied>>

\* before_call, then the request.
Ask(o) ==
    /\ CanRun(o) /\ stage[o] = "asking"
    /\ Emit(o, "before_call", "asked")
    /\ sent' = IF stage'[o] = "asked" THEN sent \cup {o} ELSE sent
    /\ UNCHANGED <<current, readAt, roles, pc, hits, issued, replied>>

\* A reply is validated and recorded.  Views that can start are polled before
\* the task waits.
Reply(o) ==
    /\ CanRun(o) /\ stage[o] = "asked"
    /\ \A p \in Ops : p < MaxInFlight => ~Startable(p)
    /\ replied' = replied \cup {o}
    /\ Emit(o, "after_reply", "collected")
    /\ UNCHANGED <<current, readAt, roles, pc, hits, issued, sent>>

\* An error status, a broken transport or an invalid reply.  Nothing is retried.
CallFails(o) ==
    /\ CanRun(o) /\ stage[o] = "asked"
    /\ \A p \in Ops : p < MaxInFlight => ~Startable(p)
    /\ Goto(o, "failing")
    /\ UNCHANGED <<current, readAt, roles, pc, hits, issued, sent, replied>>

\* The last event of a view.
Finish(o) ==
    /\ CanRun(o) /\ o \in Routes /\ stage[o] = "collected"
    /\ Emit(o, "finished", "finished")
    /\ UNCHANGED <<current, readAt, roles, pc, hits, issued, sent, replied>>
---------------------------------------------------------------------------
\* The union of the views and its one judgment.

\* Judges what has been found so far.
FaultyMerge ==
    /\ pc = "routing" /\ CanRun(Union)
    /\ \E o \in Routes : stage[o] = "finished"
    /\ \/ /\ StillPinned /\ pc' = "judging"
          /\ hits' \in 0..MaxHits
       \/ pc' = "failing" /\ UNCHANGED hits
    /\ UNCHANGED <<current, readAt, roles, callVars, ledger, hostVars>>

\* All views are in: ensure_generation and merge_candidates, which refuses
\* spans that conflict.
Merge ==
    /\ pc = "routing"
    /\ \A o \in Routes : stage[o] = "finished"
    /\ \/ /\ StillPinned /\ pc' = "judging"
          /\ hits' \in 0..MaxHits
       \/ pc' = "failing" /\ UNCHANGED hits
    /\ UNCHANGED <<current, readAt, roles, callVars, ledger, hostVars>>

AdmitUnion ==
    /\ pc = "judging" /\ stage[Union] = "waiting"
    /\ Emit(Union, "admitted", "admitted")
    /\ UNCHANGED <<current, readAt, roles, pc, hits, issued, sent, replied>>

\* Without candidates there is nothing to judge, which is an error; the request
\* for evidence roles must fit its bounds.
PrepareUnion ==
    /\ CanRun(Union) /\ stage[Union] = "admitted"
    /\ \/ hits > 0 /\ Goto(Union, "asking")
       \/ (hits = 0 \/ roles) /\ Goto(Union, "failing")
    /\ UNCHANGED <<current, readAt, roles, pc, hits, issued, sent, replied>>

\* The relevance floor, then the last event; a judgment of the wrong shape is
\* an error.
Judge ==
    /\ CanRun(Union) /\ stage[Union] = "collected"
    /\ \/ /\ hits' \in 0..hits
          /\ Emit(Union, "finished", "finished")
       \/ /\ Goto(Union, "failing")
          /\ UNCHANGED hits
    /\ UNCHANGED <<current, readAt, roles, pc, issued, sent, replied>>

\* ensure_generation before the last look at the sources.
CheckUnion ==
    /\ pc = "judging" /\ stage[Union] = "finished"
    /\ pc' = IF StillPinned THEN "rechecking" ELSE "failing"
    /\ UNCHANGED <<current, readAt, roles, callVars, ledger, hostVars, hits>>

\* finish_candidate_batch: the limit and the freshness of what is left.
Recheck ==
    /\ pc = "rechecking"
    /\ hits' \in 0..hits
    /\ readAt' = current
    /\ pc' = "confirming"
    /\ UNCHANGED <<current, roles, callVars, ledger, hostVars>>

\* ensure_generation once more; roles record which candidates were stale.
Confirm ==
    /\ pc = "confirming"
    /\ IF ~StillPinned
       THEN pc' = "failing" /\ UNCHANGED <<callVars, ledger, status>>
       ELSE IF roles
       THEN /\ UNCHANGED <<stage, sent, replied, status>>
            /\ \E ok \in BOOLEAN :
                 /\ Record(Union, ops[Union], ok)
                 /\ pc' = IF ok THEN "fusing" ELSE "failing"
       ELSE pc' = "fusing" /\ UNCHANGED <<callVars, ledger, status>>
    /\ UNCHANGED <<current, readAt, roles, hits, issued>>
---------------------------------------------------------------------------
\* Delivery by the host, without a wait.

\* Goes on with pc if the line was appended, fails if not.
Persist(next) ==
    \E ok \in BOOLEAN :
        /\ Append(ok)
        /\ pc' = IF ok THEN next ELSE "failing"

\* ensure_generation of the host, its checks of the report, planned_success.
\* An index that is gone or a navigation overlay that has changed is an error
\* whatever the generation is.
Fuse ==
    /\ pc = "fusing"
    /\ \/ /\ StillPinned
          /\ status' = "awaiting_delivery"
          /\ UNCHANGED callVars
          /\ Persist("packing")
       \/ /\ pc' = "failing"
          /\ UNCHANGED <<status, callVars, ledger>>
    /\ UNCHANGED <<current, readAt, roles, hits, issued>>

\* Trailing hits are dropped until the reply fits, but not all of them; roles
\* append role_delivery_prepared.
Pack ==
    /\ pc = "packing"
    /\ \/ /\ hits' \in (IF hits = 0 THEN {0} ELSE 1..hits)
          /\ UNCHANGED <<status, callVars>>
          /\ IF roles THEN Persist("issuing")
                      ELSE pc' = "issuing" /\ UNCHANGED ledger
       \/ /\ pc' = "failing"
          /\ UNCHANGED <<hits, status, callVars, ledger>>
    /\ UNCHANGED <<current, readAt, roles, issued>>

\* Hits are issued one by one, until one has no place in its node.
Issue ==
    /\ pc = "issuing"
    /\ \/ issued' = hits /\ pc' = "delivering"
       \/ hits > 0 /\ issued' \in 0..(hits - 1) /\ pc' = "failing"
    /\ UNCHANGED <<current, readAt, roles, callVars, ledger, status, hits>>

Deliver ==
    /\ pc = "delivering"
    /\ status' = IF issued = 0 THEN "filtered_all" ELSE "reranked"
    /\ UNCHANGED callVars
    /\ Persist("receipting")
    /\ UNCHANGED <<current, readAt, roles, hits, issued>>

\* The receipt, and with it the payload that the reader starts from.
Receipt ==
    /\ pc = "receipting"
    /\ UNCHANGED <<callVars, status>>
    /\ Persist("ready")
    /\ UNCHANGED <<current, readAt, roles, hits, issued>>
---------------------------------------------------------------------------
\* Failure and cancellation.

\* Operation::fail: whether or not its record is accepted.
Fail(o) ==
    /\ stage[o] = "failing"
    /\ UNCHANGED status
    /\ \E ok \in BOOLEAN : Record(o, Progress(o, "failed"), ok)
    /\ stage' = [stage EXCEPT ![o] = "failed"]
    /\ UNCHANGED <<current, readAt, roles, pc, hits, issued, sent, replied>>

\* Drops a view without its record.
FaultyInterrupt(o) ==
    /\ stage[o] = "asked"
    /\ pc = "dropping" \/ \E p \in Ops : stage[p] = "failed"
    /\ stage' = [stage EXCEPT ![o] = "interrupted"]
    /\ UNCHANGED <<current, readAt, roles, pc, ops, ledger, refused, status, hits,
                   issued, sent, replied>>

\* Drop of an Operation that waits, with a failed sibling or with the task.
Interrupt(o) ==
    /\ stage[o] = "asked"
    /\ pc = "dropping" \/ \E p \in Ops : stage[p] = "failed"
    /\ UNCHANGED status
    /\ \E ok \in BOOLEAN :
          Record(o, Progress(o, "interrupted"), ok)
    /\ stage' = [stage EXCEPT ![o] = "interrupted"]
    /\ UNCHANGED <<current, readAt, roles, pc, hits, issued, sent, replied>>

\* The search returns its error when the other views are gone.
Abandon ==
    /\ pc \in {"routing", "judging"}
    /\ \E o \in Ops : stage[o] = "failed"
    /\ Suspended = {}
    /\ pc' = "failing"
    /\ UNCHANGED <<current, readAt, roles, callVars, ledger, hostVars, hits>>

\* Puts the routes alone under the deadline.
FaultyDrop ==
    /\ pc = "routing" /\ CanRun(Union) /\ Running = {} /\ Suspended # {}
    /\ \A o \in Routes : ~Startable(o)
    /\ pc' = "dropping"
    /\ UNCHANGED <<current, readAt, roles, callVars, ledger, hostVars, hits>>

\* The absolute deadline, or the caller, drops the task while it waits.
Drop ==
    /\ CanRun(Union) /\ Running = {} /\ Suspended # {}
    /\ \A o \in Routes : ~Startable(o)
    /\ pc' = "dropping"
    /\ UNCHANGED <<current, readAt, roles, callVars, ledger, hostVars, hits>>

Dropped ==
    /\ pc = "dropping" /\ Suspended = {}
    /\ pc' = "closing"
    /\ UNCHANGED <<current, readAt, roles, callVars, ledger, hostVars, hits>>

\* Leaves what was issued.
FaultyHostFail ==
    /\ pc = "failing"
    /\ status' = "failed"
    /\ UNCHANGED callVars
    /\ \E ok \in BOOLEAN : Append(ok)
    /\ pc' = "closing"
    /\ UNCHANGED <<current, readAt, roles, hits, issued>>

\* The host takes back what it issued and records the failure.
HostFail ==
    /\ pc = "failing"
    /\ issued' = 0
    /\ status' = "failed"
    /\ UNCHANGED callVars
    /\ \E ok \in BOOLEAN : Append(ok)
    /\ pc' = "closing"
    /\ UNCHANGED <<current, readAt, roles, hits>>

\* Accounting::finish, as failed or as interrupted.
Close ==
    /\ pc = "closing"
    /\ status' = IF status \in {"running", "awaiting_delivery"} THEN "failed" ELSE status
    /\ UNCHANGED callVars
    /\ \E ok \in BOOLEAN : Append(ok)
    /\ pc' = "closed"
    /\ UNCHANGED <<current, readAt, roles, hits, issued>>
---------------------------------------------------------------------------

RunView(o) == Start(o) \/ Collect(o) \/ Finish(o)
RunCall(o) == Ask(o) \/ Fail(o) \/ Interrupt(o)
Service(o) == Reply(o) \/ CallFails(o)

\* What the task does by itself.
Run ==
    \/ Open \/ Merge \/ AdmitUnion \/ PrepareUnion \/ Judge
    \/ CheckUnion \/ Recheck \/ Confirm
    \/ Fuse \/ Pack \/ Issue \/ Deliver \/ Receipt
    \/ Abandon \/ Dropped \/ HostFail \/ Close
    \/ \E o \in Routes : RunView(o)
    \/ \E o \in Ops : RunCall(o)

Next == Run \/ Drop \/ Reindex \/ \E o \in Ops : Service(o)

Spec == Init /\ [][Next]_vars

\* A task that can run is run, and the deadline comes: neither the service nor
\* anybody else owes it a step.
FairSpec == Spec /\ WF_vars(Run) /\ WF_vars(Drop)
---------------------------------------------------------------------------

Event == [event : {"none", "admitted", "before_call", "after_reply", "finished",
                   "failed", "interrupted"},
          attempted : 0..1, requests : 0..1]

TypeOK ==
    /\ current \in 0..MaxReindex /\ readAt \in 0..MaxReindex
    /\ roles \in BOOLEAN /\ refused \in BOOLEAN
    /\ pc \in {"open", "routing", "judging", "rechecking", "confirming", "fusing",
               "packing", "issuing", "delivering", "receipting", "ready",
               "failing", "dropping", "closing", "closed"}
    /\ stage \in [Ops -> {"waiting", "admitted", "asking", "asked", "collected",
                          "failing"} \cup Ended]
    /\ ops \in [Ops -> Event]
    /\ ledger.ops \in [Ops -> Event]
    /\ {status, ledger.status} \subseteq
          {"running", "awaiting_delivery", "filtered_all", "reranked", "failed"}
    /\ hits \in 0..MaxHits /\ issued \in 0..MaxHits
    /\ sent \subseteq Ops /\ replied \subseteq Ops

\* The ledger file brackets what the service was asked, at every moment and so
\* after every crash: a request that may have been billed is on record as an
\* attempt before it leaves, and no reply is on record that did not come.
LedgerBrackets ==
    \A o \in Ops :
        /\ o \in sent => ledger.ops[o].attempted = 1
        /\ ledger.ops[o].requests = 1 => o \in replied

\* "Dropping the whole plan (or a failed sibling) drops this guard and
\* synchronously records interruption": when the search is over, by whatever
\* way, each request that was sent belongs to an operation that says how it
\* ended, and the replies that came are counted, those of the siblings of a
\* failed view included.
CallsAccountedFor ==
    pc \in {"ready", "closed"} =>
        \A o \in Ops :
            /\ ops[o].event # "none" => ops[o].event \in Ended
            /\ o \in sent => ops[o].attempted = 1
            /\ (o \in replied) = (ops[o].requests = 1)

\* "No failed route can produce a partial-success report or issue evidence":
\* what the reader may cite comes from a union of all views, each of them
\* finished, with every request that was sent answered and all of it on file.
NoPartialSuccess ==
    issued > 0 \/ pc = "ready" =>
        /\ \A o \in Ops : ops[o].event = "finished" /\ ledger.ops[o] = ops[o]
        /\ sent = replied

\* A failed or interrupted search leaves nothing to cite, and a successful one
\* everything that the ledger says was delivered.
IssuedAsRecorded ==
    /\ pc = "closed" => issued = 0 /\ status = "failed"
    /\ pc = "ready" => /\ ledger.status = status
                       /\ status = IF issued = 0 THEN "filtered_all" ELSE "reranked"
                       /\ issued = hits

\* "Check the pointer again after them so a concurrently published generation
\* cannot be delivered": the sources of a delivered report were read while the
\* pinned generation was the current one.
DeliveredSnapshotCurrent ==
    pc \in {"fusing", "packing", "issuing", "delivering", "receipting", "ready"} =>
        readAt = Pinned

\* The stage that the error names is the cause: only one operation fails, and
\* the ones that end with it are interrupted, not failed.
OneCause == Cardinality({o \in Ops : ops[o].event = "failed"}) <= 1

\* The record of a search that is over is complete, and says what ended it.
RecordComplete == CallsAccountedFor /\ OneCause

\* What is delivered is all of one result, as recorded, of the pinned generation.
DeliverySound == NoPartialSuccess /\ IssuedAsRecorded /\ DeliveredSnapshotCurrent

\* "Planned search observer failed; no further calls admitted": after the ledger
\* has refused a record, be it the one of the request itself, no request leaves,
\* of any view.
NoCallAfterRefusal == [][refused' => sent' = sent]_vars

\* Every planned search ends within its deadline, delivered or closed.
SearchEnds == <>(pc \in {"ready", "closed"})
============================================================================

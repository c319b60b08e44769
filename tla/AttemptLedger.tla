---------------------------- MODULE AttemptLedger ----------------------------
(***************************************************************************)
(* The ledger of one host invocation, jev_accounting.rs, with the attempts *)
(* of model_attempts.rs and the navigation report of navigation.rs: the    *)
(* state in memory, what each operation may and does change in it, and the *)
(* append of a line to the file.  A line holds the whole state, so the     *)
(* file is described by its last line and by its terminal lines.           *)
(***************************************************************************)
EXTENDS Naturals, FiniteSets, Sequences

CONSTANTS
    EventLimits,  \* lines a ledger may have; 1024 in the code
    MaxBatches,   \* bound on the batches of a navigation scan
    MaxFaults     \* bound on the lines that fail below their limit

ASSUME LedgerAssumption ==
    /\ EventLimits \subseteq Nat /\ MaxBatches \in Nat /\ MaxFaults \in Nat

Roles     == {"query_planner", "final_reader"}
Searches  == {"initial", "tool"}
Terminals == {"completed", "failed", "interrupted"}

NoAttempt == [status |-> "none", thread |-> FALSE, turn |-> FALSE, usage |-> FALSE,
              complete |-> FALSE]
NoSearch  == [status |-> "none", complete |-> FALSE]
NoScan    == [status |-> "none", batches |-> <<>>, attempted |-> 0, requests |-> 0,
              metered |-> 0, scanned |-> FALSE]

VARIABLES
    mem,       \* State of Accounting
    limit,     \* the limit on lines
    durable,   \* the last line of the file
    closings,  \* number of terminal lines in the file
    faults     \* history: lines too large, and writes and syncs that failed

ledgerVars == <<mem, limit, durable, closings, faults>>

NoLine == [event |-> "none", mem |-> "none", complete |-> FALSE]

LedgerInit ==
    /\ mem = [events |-> 0, terminal |-> FALSE, bound |-> FALSE, max |-> 1,
              attempts |-> [r \in Roles |-> NoAttempt],
              searches |-> [s \in Searches |-> NoSearch], scan |-> NoScan]
    /\ limit \in EventLimits
    /\ durable = NoLine /\ closings = 0 /\ faults = 0
---------------------------------------------------------------------------
\* JevReport.accounting_complete of summarize_state: every search has finished
\* with its calls answered and metered, and so has the scan, if there is one.
ScanComplete(n) ==
    n.scanned /\ n.attempted = n.requests /\ n.metered = Len(n.batches)

Started(m) == {s \in Searches : m.searches[s].status # "none"}

AccountingComplete(m) ==
    /\ Started(m) # {}
    /\ \A s \in Started(m) : m.searches[s].complete
    /\ m.scan = NoScan \/ ScanComplete(m.scan)

\* Claims completeness before the end.
FaultyLine(event, m) ==
    [event |-> event, mem |-> m, complete |-> AccountingComplete(m)]

Line(event, m) ==
    [event |-> event, mem |-> m,
     complete |-> event = "completed" /\ AccountingComplete(m)]

\* append_locked.  The state has been changed before, and the line is counted
\* before it is written.  A refused line, also one that is too large, is neither
\* counted nor written; one whose write or sync failed may be in the file.
Counted(m, closes) ==
    mem' = [m EXCEPT !.events = @ + 1, !.terminal = @ \/ closes]

Written(event, m) ==
    /\ durable' = Line(event, m)
    /\ closings' = closings + (IF event \in Terminals THEN 1 ELSE 0)

Fault == faults < MaxFaults /\ faults' = faults + 1

Appended(event, m, ok) ==
    /\ limit' = limit
    /\ \/ /\ ok /\ m.events < limit
          /\ Counted(m, event \in Terminals) /\ Written(event, m) /\ UNCHANGED faults
       \/ /\ ~ok /\ m.events < limit /\ Fault
          /\ Counted(m, FALSE) /\ (Written(event, m) \/ UNCHANGED <<durable, closings>>)
       \/ /\ ~ok /\ mem' = m /\ UNCHANGED <<durable, closings>>
          /\ IF m.events = limit THEN UNCHANGED faults ELSE Fault

\* An operation whose conditions do not hold is an error and changes nothing.
Refused(ok) == ~ok /\ UNCHANGED ledgerVars

Operation(condition, event, m, ok) ==
    IF condition THEN Appended(event, m, ok) ELSE Refused(ok)
---------------------------------------------------------------------------
\* bind_workflow, set_model_attempt_limit.
NoAttempts(m) == \A r \in Roles : m.attempts[r] = NoAttempt

BindWorkflow(ok) ==
    Operation(~mem.terminal /\ NoAttempts(mem), "workflow_bound",
              [mem EXCEPT !.bound = TRUE], ok)

SetLimit(n, ok) ==
    Operation(~mem.terminal /\ NoAttempts(mem), "model_attempt_budget",
              [mem EXCEPT !.max = n], ok)

\* reserve_model_attempt: the attempt is kept before its line is written.
Reserved(m) == {r \in Roles : m.attempts[r] # NoAttempt}

Reserve(r, ok) ==
    Operation(/\ ~mem.terminal /\ mem.bound
              /\ Cardinality(Reserved(mem)) < mem.max /\ r \notin Reserved(mem),
              "model_attempt_reserved",
              [mem EXCEPT !.attempts[r].status = "reserved"], ok)

\* ModelAttemptObserver::update and record_model_attempt.
Update(r, attempt, ok) ==
    Operation(~mem.terminal /\ r \in Reserved(mem), "model_attempt_updated",
              [mem EXCEPT !.attempts[r] = attempt], ok)

\* ModelAttemptTracker::finish.
FinishedAttempt(a, error) ==
    [a EXCEPT !.status = IF error THEN "failed" ELSE "completed",
              !.complete = ~error /\ a.thread /\ a.turn /\ a.usage]

\* start_search, progress and plan_event, success or planned_success, failure,
\* delivery.
SearchEvent(s, event, search, ok) ==
    Appended(event, [mem EXCEPT !.searches[s] = search], ok)

\* navigation_admit: room for three lines of each batch and for two more.
\* Forgets the line of a reply.
FaultyRoomFor(batches) == mem.events + 2 * batches + 2 < limit

RoomFor(batches) == mem.events + 3 * batches + 2 < limit

\* navigation_update.
Regressed(n) == n.attempted < mem.scan.attempted \/ n.requests < mem.scan.requests

ScanEvent(event, n, ok) ==
    Operation(/\ ~mem.terminal /\ mem.bound /\ ~Regressed(n)
              /\ n.requests <= n.attempted /\ n.attempted <= Len(n.batches),
              event, [mem EXCEPT !.scan = n], ok)

\* finish: unless the ledger is closed, what is open is closed with it.
Open == {"reserved", "running", "process_completed"}

InterruptedScan(n) ==
    IF n.status = "running"
    THEN [n EXCEPT !.status = "interrupted",
                   !.batches = [i \in DOMAIN @ |->
                       IF @[i] = "reserved" THEN "interrupted" ELSE @[i]]]
    ELSE n

ClosedSearch(search) ==
    IF search.status \in {"running", "awaiting_delivery"}
    THEN [status |-> "failed", complete |-> FALSE] ELSE search

\* Leaves the attempts to their trackers.
FaultyClosed(m, status) ==
    IF status = "completed" THEN m
    ELSE [m EXCEPT !.scan = InterruptedScan(@),
                   !.searches = [s \in Searches |-> ClosedSearch(@[s])]]

Closed(m, status) ==
    IF status = "completed" THEN m
    ELSE [m EXCEPT
            !.scan = InterruptedScan(@),
            !.searches = [s \in Searches |-> ClosedSearch(@[s])],
            !.attempts = [r \in Roles |->
                IF @[r].status \in Open
                THEN [@[r] EXCEPT !.status = IF status = "interrupted" THEN status
                                                                       ELSE "failed",
                                  !.complete = FALSE]
                ELSE @[r]]]

\* Does not look whether the ledger is closed already.
FaultyFinish(status, ok) == Appended(status, Closed(mem, status), ok)

Finish(status, ok) ==
    IF mem.terminal THEN ok /\ UNCHANGED ledgerVars
                    ELSE Appended(status, Closed(mem, status), ok)
===============================================================================

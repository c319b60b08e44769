------------------------------- MODULE HostRun -------------------------------
(***************************************************************************)
(* One invocation of the host, execute_with_client of lib.rs, seen from    *)
(* its ledger: the navigation scan (navigation.rs, run), the planner, the  *)
(* first search, the reader, and the closing of the ledger when the        *)
(* invocation returns, fails, is dropped by its caller at a wait, or is    *)
(* killed.  Any line of the ledger may be refused or fail to be written,   *)
(* and every provider may fail or never answer.                            *)
(*                                                                         *)
(* What the reader does between two lines is in HostSession, what the      *)
(* first search of a plan does in PlannedSearch.                           *)
(***************************************************************************)
EXTENDS AttemptLedger

VARIABLES
    planned,     \* config.query_plan
    navigation,  \* config.navigation
    batches,     \* batches the scan will need, none when no hint is eligible
    pc,          \* where the invocation is
    next,        \* what follows when the trackers are dropped
    tracker,     \* the role whose tracker is live and not finished
    sent, replied,  \* history: requests of the scan that were sent, answered
    started,     \* history: roles whose process was started
    squeezed     \* history: a line of an admitted scan met the limit

runVars  == <<planned, navigation, batches>>
pastVars == <<sent, replied, started, squeezed>>
vars == <<ledgerVars, runVars, pc, next, tracker, pastVars>>

Init ==
    /\ LedgerInit
    /\ planned \in BOOLEAN /\ navigation \in BOOLEAN /\ (navigation => planned)
    /\ batches \in 0..MaxBatches /\ (batches > 0 => navigation)
    /\ pc = "create" /\ next = "fail" /\ tracker = "none"
    /\ sent = 0 /\ replied = 0 /\ started = {} /\ squeezed = FALSE

\* An error unwinds the trackers, then the ledger is closed as failed.
Goto(ok, where) == pc' = IF ok THEN where ELSE "unwind"
Step(ok, where) == Goto(ok, where) /\ UNCHANGED <<runVars, next, tracker, pastVars>>
\* An error between two lines: the scope, a configuration, a snapshot that has changed,
\* a plan or a first search without candidates that is refused, or the deadline.
Error ==
    /\ pc \in {"bind", "scan", "plan", "search", "read"}
    /\ pc' = "unwind"
    /\ UNCHANGED <<ledgerVars, runVars, next, tracker, pastVars>>
---------------------------------------------------------------------------
\* Accounting::create.  Before the guard exists an error just returns.
Create(ok) ==
    /\ pc = "create"
    /\ Appended("created", mem, ok)
    /\ pc' = IF ok THEN "bind" ELSE "gone"
    /\ UNCHANGED <<runVars, next, tracker, pastVars>>

Bind(ok) == pc = "bind" /\ BindWorkflow(ok) /\ Step(ok, "limit")

LimitAttempts(ok) ==
    /\ pc = "limit"
    /\ SetLimit(IF planned THEN 2 ELSE 1, ok)
    /\ Step(ok, CASE navigation -> "scan"
                  [] ~navigation /\ planned -> "plan"
                  [] OTHER -> "search")
---------------------------------------------------------------------------
\* navigation::run.  Every error but that of the first line is itself recorded.
ScanStep(ok, where) ==
    /\ pc' = IF ok THEN where ELSE "scan failed"
    /\ UNCHANGED <<runVars, next, tracker>>

ScanLine(event, n, ok) ==
    /\ ScanEvent(event, n, ok)
    /\ squeezed' = (squeezed \/ (mem.scan.batches # <<>> /\ mem.events = limit))

StartScan(ok) ==
    /\ pc = "scan"
    /\ ScanEvent("navigation_started", [NoScan EXCEPT !.status = "running"], ok)
    /\ Step(ok, "prepare")

\* The overlay is read, the batches fit their own budget, then the ledger's.
Prepare ==
    /\ pc = "prepare"
    /\ \E ok \in BOOLEAN : ScanStep(ok, "admit")
    /\ UNCHANGED <<ledgerVars, pastVars>>

Admit(ok) ==
    LET n == [mem.scan EXCEPT !.batches = [i \in 1..batches |-> "prepared"]] IN
    /\ pc = "admit"
    /\ IF RoomFor(batches) THEN ScanLine("navigation_admitted", n, ok)
                           ELSE Refused(ok) /\ UNCHANGED squeezed
    /\ ScanStep(ok, "before")
    /\ UNCHANGED <<sent, replied, started>>

\* The attempt is counted and recorded before the request is sent.  The deadline
\* is checked first.
Current == mem.scan.attempted

\* Sends the request whether its line was written or not.
FaultyBeforeCall(ok) ==
    /\ pc = "before" /\ Current < batches
    /\ ScanLine("navigation_before_call",
                [mem.scan EXCEPT !.batches[Current + 1] = "reserved",
                                 !.attempted = @ + 1], ok)
    /\ ScanStep(TRUE, "send")
    /\ UNCHANGED <<sent, replied, started>>

BeforeCall(ok) ==
    /\ pc = "before" /\ Current < batches
    /\ ScanLine("navigation_before_call",
                [mem.scan EXCEPT !.batches[Current + 1] = "reserved",
                                 !.attempted = @ + 1], ok)
    /\ ScanStep(ok, "send")
    /\ UNCHANGED <<sent, replied, started>>

ScanDeadline ==
    /\ pc = "before" /\ Current < batches
    /\ pc' = "scan failed"
    /\ UNCHANGED <<ledgerVars, runVars, next, tracker, pastVars>>

Send ==
    /\ pc = "send" /\ pc' = "await"
    /\ sent' = sent + 1
    /\ UNCHANGED <<ledgerVars, runVars, next, tracker, replied, started, squeezed>>

CallFails(ok) ==
    /\ pc = "await"
    /\ ScanLine("navigation_after_call",
                [mem.scan EXCEPT !.batches[Current] = "failed"], ok)
    /\ ScanStep(FALSE, "scan failed")
    /\ UNCHANGED <<sent, replied, started>>

\* A reply counts as soon as it is there, whether its usage and scores are valid.
Reply(metered, ok) ==
    /\ pc = "await" /\ replied' = replied + 1
    /\ ScanLine("navigation_after_reply",
                [mem.scan EXCEPT !.batches[Current] = "reply_received",
                                 !.requests = @ + 1,
                                 !.metered = @ + (IF metered THEN 1 ELSE 0)], ok)
    /\ ScanStep(ok, "score")
    /\ UNCHANGED <<sent, started>>

Score(ok) ==
    /\ pc = "score"
    /\ ScanLine("navigation_after_call",
                [mem.scan EXCEPT !.batches[Current] = "completed"], ok)
    /\ ScanStep(ok, "before")
    /\ UNCHANGED <<sent, replied, started>>

InvalidScores ==
    /\ pc = "score" /\ pc' = "scan failed"
    /\ UNCHANGED <<ledgerVars, runVars, next, tracker, pastVars>>

\* The overlay is checked again, the packet is made.
CompleteScan(ok) ==
    /\ pc = "before" /\ Current = batches
    /\ ScanLine("navigation_completed",
                [mem.scan EXCEPT !.status = "completed", !.scanned = TRUE], ok)
    /\ ScanStep(ok, "plan")
    /\ UNCHANGED <<sent, replied, started>>

ScanChanged ==
    /\ pc = "before" /\ Current = batches
    /\ pc' = "scan failed"
    /\ UNCHANGED <<ledgerVars, runVars, next, tracker, pastVars>>

\* The report keeps the batches that were prepared before the failure.
ScanFailed(ok) ==
    /\ pc = "scan failed"
    /\ \E n \in IF mem.scan.batches = <<>> THEN 0..batches ELSE {Len(mem.scan.batches)} :
         ScanLine("navigation_failed",
             [mem.scan EXCEPT !.status = "failed",
                              !.batches = IF @ = <<>> THEN [i \in 1..n |-> "prepared"]
                                                      ELSE @], ok)
    /\ pc' = "unwind"
    /\ UNCHANGED <<runVars, next, tracker, sent, replied, started>>
---------------------------------------------------------------------------
\* A model attempt: a tracker is reserved, the process is recorded as running
\* before it is started, and the session reports to the tracker.

RoleOf == IF pc \in {"plan", "planning"} THEN "query_planner" ELSE "final_reader"
Own    == mem.attempts[RoleOf]
After  == IF RoleOf = "query_planner" THEN "search" ELSE "close"

ReserveAttempt(ok) ==
    /\ pc \in {"plan", "read"}
    /\ Reserve(RoleOf, ok)
    /\ tracker' = IF ok THEN RoleOf ELSE "none"
    /\ Goto(ok, IF pc = "plan" THEN "planning" ELSE "reading")
    /\ UNCHANGED <<runVars, next, pastVars>>

InSession == pc \in {"planning", "reading"}

\* Any error of the session, also that of a refused line.
SessionError ==
    /\ InSession /\ Own.status \in {"reserved", "running", "process_completed"}
    /\ pc' = "attempt failed"
    /\ UNCHANGED <<ledgerVars, runVars, next, tracker, pastVars>>

Report(attempt, ok) ==
    /\ Update(RoleOf, attempt, ok)
    /\ pc' = IF ok THEN pc ELSE "attempt failed"
    /\ UNCHANGED <<runVars, next, tracker>>

Running(ok) ==
    /\ InSession /\ Own.status = "reserved"
    /\ Report([Own EXCEPT !.status = "running"], ok)
    /\ started' = IF ok THEN started \cup {RoleOf} ELSE started
    /\ UNCHANGED <<sent, replied, squeezed>>

InTurn == InSession /\ Own.status = "running" /\ RoleOf \in started

Observe(ok) ==
    /\ InTurn
    /\ \/ ~Own.thread /\ Report([Own EXCEPT !.thread = TRUE], ok)
       \/ Own.thread /\ ~Own.turn /\ Report([Own EXCEPT !.turn = TRUE], ok)
       \/ Own.turn /\ Report([Own EXCEPT !.usage = TRUE], ok)
    /\ UNCHANGED pastVars

ProcessCompleted(ok) ==
    /\ InTurn /\ Own.turn
    /\ Report([Own EXCEPT !.status = "process_completed"], ok)
    /\ UNCHANGED pastVars

\* The planner's answer or the reader's citations are valid.
FinishAttempt(ok) ==
    /\ InSession /\ Own.status = "process_completed"
    /\ Update(RoleOf, FinishedAttempt(Own, FALSE), ok)
    /\ tracker' = IF ok THEN "none" ELSE tracker
    /\ Goto(ok, After)
    /\ UNCHANGED <<runVars, next, pastVars>>

FailAttempt(ok) ==
    /\ pc = "attempt failed"
    /\ Update(tracker, FinishedAttempt(mem.attempts[tracker], TRUE), ok)
    /\ tracker' = IF ok THEN "none" ELSE tracker
    /\ pc' = "unwind"
    /\ UNCHANGED <<runVars, next, pastVars>>
---------------------------------------------------------------------------
\* A search: the first one, or one that the reader asks for, which is a tool call
\* between two messages of its session.  With a plan the first one is fused before
\* it is delivered.

First     == tracker = "none"
Fused     == First /\ planned
SearchOf  == IF First THEN "initial" ELSE "tool"
Status    == mem.searches[SearchOf].status
Searching == pc \in {"search", "calling"}
OnError   == IF First THEN "unwind" ELSE "attempt failed"

Then(where) == pc' = where /\ UNCHANGED <<runVars, next, tracker, pastVars>>

SearchLine(event, search, ok, where) ==
    SearchEvent(SearchOf, event, search, ok) /\ Then(where)

\* A tool call whose search has no telemetry, since this line or that of its end was
\* not written, is answered as one without evidence.
StartSearch(ok) ==
    /\ pc = "search" \/ (pc = "reading" /\ InTurn /\ Own.turn)
    /\ Status = "none"
    /\ SearchLine("search_started", [status |-> "running", complete |-> FALSE], ok,
                  CASE ok /\ First  -> "search"
                    [] ok /\ ~First -> "calling"
                    [] ~ok /\ Fused -> "unwind"
                    [] OTHER        -> "failed receipt")

\* Progress, the events of a plan, and the roles of a packet before its delivery.
SearchProgress(ok) ==
    /\ Searching /\ Status \in {"running", "awaiting_delivery"}
    /\ SearchLine("progress", mem.searches[SearchOf], ok, IF ok THEN pc ELSE "failing")

\* success, or planned_success; `metered` when all its calls are answered and
\* their usage is known.
SearchSucceeds(metered, ok) ==
    /\ Searching /\ Status = "running"
    /\ IF Fused
       THEN SearchLine("plan_fused", [status |-> "awaiting_delivery", complete |-> FALSE],
                       ok, IF ok THEN pc ELSE "failing")
       ELSE SearchLine("search_finished", [status |-> "reranked", complete |-> metered],
                       ok, IF ok THEN pc ELSE "failed receipt")

\* delivery, after which a fused search has its status as well.
Deliver(metered, ok) ==
    /\ Searching /\ Status \in {"awaiting_delivery", "reranked"}
    /\ SearchLine("delivery",
           [status |-> "delivered",
            complete |-> IF Status = "reranked" THEN mem.searches[SearchOf].complete
                                                ELSE metered],
           ok, CASE ok /\ First  -> "receipt"
                 [] ok /\ ~First -> pc
                 [] ~ok /\ Fused -> "failing"
                 [] OTHER        -> OnError)

\* The receipt of a search, or of a call of the reader that is none.
Receipt(ok) ==
    /\ \/ pc = "receipt"
       \/ pc = "calling" /\ Status = "delivered"
       \/ pc = "reading" /\ InTurn /\ Own.turn
    /\ Appended("receipt", mem, ok)
    /\ Then(CASE ok /\ First  -> "read"
              [] ok /\ ~First -> "reading"
              [] ~ok /\ Fused -> "failing"
              [] OTHER        -> OnError)

\* failure.  A fused search fails for any error up to its receipt.
SearchFails(ok) ==
    /\ pc = "failing" \/ (Searching /\ Status \in {"running", "awaiting_delivery"})
    /\ SearchLine("search_failed", [status |-> "failed", complete |-> FALSE], ok,
                  CASE ok /\ ~Fused -> "failed delivery"
                    [] ~ok /\ Fused -> "unwind"
                    [] OTHER        -> "failed receipt")

\* The failed search is delivered as well, without hits.
FailedDelivery(ok) ==
    /\ pc = "failed delivery"
    /\ SearchLine("delivery", mem.searches[SearchOf], ok,
                  IF ok THEN "failed receipt" ELSE OnError)

\* Only an assisted search is fatal: after a regex or lexical one the reader goes on.
FailedReceipt(ok) ==
    /\ pc = "failed receipt"
    /\ Appended("receipt", mem, ok)
    /\ Then(OnError) \/ (ok /\ ~First /\ Then("reading"))

\* The deadline, or a snapshot that has changed when the tool returns: nothing more is
\* written of the call.
CallError ==
    /\ pc \in {"calling", "failed delivery", "failed receipt"} /\ ~Fused
    /\ Then(OnError) /\ UNCHANGED ledgerVars
---------------------------------------------------------------------------
\* Closing.  The trackers are dropped first, then the ledger is finished, then
\* the guard of the whole invocation is dropped.

\* Drop of ModelAttemptTracker.
Unwind(ok) ==
    /\ pc = "unwind"
    /\ IF tracker = "none"
       THEN ok /\ UNCHANGED ledgerVars
       ELSE Update(tracker, [mem.attempts[tracker] EXCEPT !.status = "interrupted",
                                                          !.complete = FALSE], ok)
    /\ tracker' = "none" /\ pc' = next
    /\ UNCHANGED <<runVars, next, pastVars>>

CloseCompleted(ok) ==
    /\ pc = "close" /\ Finish("completed", ok)
    /\ pc' = IF ok THEN "drop" ELSE "fail"
    /\ UNCHANGED <<runVars, next, tracker, pastVars>>

CloseFailed(ok) ==
    /\ pc = "fail" /\ Finish("failed", ok) /\ pc' = "drop"
    /\ UNCHANGED <<runVars, next, tracker, pastVars>>

\* Drop of AttemptGuard.
DropGuard(ok) ==
    /\ pc = "drop" /\ Finish("interrupted", ok) /\ pc' = "ended"
    /\ UNCHANGED <<runVars, next, tracker, pastVars>>

\* The caller drops the future where it waits: for a scan's reply, in a session or
\* in a search.
Cancel ==
    /\ pc \in {"await", "planning", "reading"} \/ (Searching /\ Status = "running")
    /\ pc' = "unwind" /\ next' = "drop"
    /\ UNCHANGED <<ledgerVars, runVars, tracker, pastVars>>

Killed ==
    /\ pc \notin {"ended", "gone"} /\ pc' = "gone"
    /\ UNCHANGED <<ledgerVars, runVars, next, tracker, pastVars>>

Next ==
    \/ \E ok \in BOOLEAN :
         \/ Create(ok) \/ Bind(ok) \/ LimitAttempts(ok)
         \/ StartScan(ok) \/ Admit(ok) \/ BeforeCall(ok) \/ CallFails(ok)
         \/ Score(ok) \/ CompleteScan(ok) \/ ScanFailed(ok)
         \/ ReserveAttempt(ok) \/ Running(ok) \/ Observe(ok)
         \/ ProcessCompleted(ok) \/ FinishAttempt(ok) \/ FailAttempt(ok)
         \/ StartSearch(ok) \/ SearchProgress(ok) \/ Receipt(ok) \/ SearchFails(ok)
         \/ FailedDelivery(ok) \/ FailedReceipt(ok)
         \/ Unwind(ok) \/ CloseCompleted(ok) \/ CloseFailed(ok) \/ DropGuard(ok)
         \/ \E m \in BOOLEAN :
              Reply(m, ok) \/ SearchSucceeds(m, ok) \/ Deliver(m, ok)
    \/ Prepare \/ ScanDeadline \/ Send \/ InvalidScores \/ ScanChanged
    \/ Error \/ SessionError \/ CallError \/ Cancel \/ Killed

Spec == Init /\ [][Next]_vars
---------------------------------------------------------------------------
\* The lines of the file agree with what has been paid for, at every moment and so
\* after a crash: the file counts each request of the scan before it is sent and
\* each attempt before its process is started, whatever writes fail.
ReservedBeforeSpent ==
    /\ sent > 0 => durable.mem.scan.attempted >= sent
    /\ \A r \in started : durable.mem.attempts[r] # NoAttempt
    /\ replied <= mem.scan.attempted /\ mem.scan.requests = replied

\* Nothing follows a terminal line, and an invocation that returns, fails or is
\* dropped has written one, unless the limit on lines or a failed write prevents it.
ClosedOnce ==
    faults = 0 =>
        /\ closings <= 1
        /\ closings = 1 => durable.event \in Terminals
        /\ pc = "ended" => closings = 1 \/ mem.events = limit

\* When it has ended in one of these ways, no attempt, search or batch is open in
\* memory, and the outcome says what happened to the attempts.  There is one exception:
\* when the first line of a search of the reader cannot be written, the reader is told
\* that there is no evidence and goes on, and a completed ledger has the search running.
NothingOpen ==
    pc = "ended" =>
        /\ \A r \in Roles : mem.attempts[r].status \notin Open
        /\ \A s \in Searches : mem.searches[s].status \in {"running", "awaiting_delivery"} =>
               s = "tool" /\ faults > 0 /\ durable.event = "completed"
        /\ mem.scan.status # "running"
        /\ mem.scan.status = "interrupted" => "reserved" \notin
               {mem.scan.batches[i] : i \in DOMAIN mem.scan.batches}
        /\ durable.event = "completed" /\ faults = 0 =>
               \A r \in Roles : mem.attempts[r].status \in {"none", "completed"}

\* A line that claims complete accounting belongs to an invocation whose scan sent
\* every batch and had every request answered, whose first search was delivered, and
\* which started no process but those of the attempts that completed.
CompleteIsComplete ==
    durable.complete =>
        /\ sent = replied /\ sent = batches
        /\ mem.searches["initial"].status = "delivered"
        /\ started = {r \in Roles : mem.attempts[r].status = "completed"}

\* A terminal line is the last one, leaves nothing open and claims no more than what
\* happened.
TerminalTrue == ClosedOnce /\ NothingOpen /\ CompleteIsComplete

\* A scan that was admitted never meets the limit on lines, so that it is not
\* stopped between a paid call and the record of its reply.
AdmittedScanFits == ~squeezed
===============================================================================

---------------------------- MODULE HostRunProofs ----------------------------
(***************************************************************************)
(* The safety properties of HostRun for every limit on lines, every number *)
(* of batches and every number of failed lines.  Inv is inductive: types,  *)
(* the room that an admitted scan has left (RoomOK), the counts of its     *)
(* requests (ScanOK), what the last line covers (LineOK), the trackers     *)
(* (TrackOK), what has been done when the invocation gets somewhere        *)
(* (DoneOK), and the closing (CloseOK).                                    *)
(***************************************************************************)
EXTENDS HostRun, TLAPS

Attempt == [status : {"none", "reserved", "running", "process_completed", "completed",
                      "failed", "interrupted"},
            thread : BOOLEAN, turn : BOOLEAN, usage : BOOLEAN, complete : BOOLEAN]
Search  == [status : {"none", "running", "awaiting_delivery", "reranked", "delivered",
                      "failed"}, complete : BOOLEAN]
Batch   == {"prepared", "reserved", "reply_received", "completed", "failed", "interrupted"}
Scan    == [status : {"none", "running", "completed", "failed", "interrupted"},
            batches : Seq(Batch), attempted : Nat, requests : Nat, metered : Nat,
            scanned : BOOLEAN]
Mem     == [events : Nat, terminal : BOOLEAN, bound : BOOLEAN, max : Nat,
            attempts : [Roles -> Attempt], searches : [Searches -> Search], scan : Scan]

Asking  == {"send", "await"}
Scanning == {"before", "score"} \cup Asking
Preparing == {"prepare", "admit"}
Failing == {"failing", "failed delivery", "failed receipt"}
Late    == {"receipt", "read", "reading", "calling", "close"}
Planned == {"plan", "planning", "search"} \cup Late \cup Failing
Closing == {"unwind", "fail", "drop", "ended", "gone"}
Places  == {"create", "bind", "limit", "scan", "scan failed", "attempt failed"}
             \cup Preparing \cup Scanning \cup Planned \cup Closing

TypeOK ==
    /\ mem \in Mem /\ limit \in Nat /\ closings \in Nat /\ faults \in Nat
    /\ planned \in BOOLEAN /\ navigation \in BOOLEAN /\ batches \in Nat
    /\ (navigation => planned) /\ (~navigation => batches = 0)
    /\ pc \in Places /\ next \in {"fail", "drop"} /\ tracker \in Roles \cup {"none"}
    /\ sent \in Nat /\ replied \in Nat /\ started \subseteq Roles

\* Three lines of each batch to come, the completion and a failure still fit.
Left == 3 * (batches - mem.scan.attempted)

RoomOK ==
    /\ squeezed = FALSE
    /\ pc \in {"scan"} \cup Preparing \cup Scanning => navigation
    /\ pc \in {"scan"} \cup Preparing => mem.scan.batches = <<>>
    /\ pc \in Scanning => mem.scan.attempted <= batches
    /\ pc = "before" => mem.events + Left + 1 < limit
    /\ pc \in Asking => mem.events + Left + 3 < limit
    /\ pc = "score"  => mem.events + Left + 2 < limit
    /\ pc = "scan failed" /\ mem.scan.batches # <<>> => mem.events < limit

ScanOK ==
    /\ replied <= mem.scan.attempted /\ mem.scan.requests = replied
    /\ pc \in {"create", "bind", "limit", "scan"} \cup Preparing => sent = 0 /\ replied = 0
    /\ pc \in {"create", "bind", "limit", "scan"} => mem.scan = NoScan
    /\ pc \in Preparing \cup {"before"} => mem.scan.attempted = sent /\ replied = sent
    /\ pc = "score" => mem.scan.attempted = sent /\ replied = sent
    /\ pc = "send" => mem.scan.attempted = sent + 1 /\ replied = sent
    /\ pc = "await" => mem.scan.attempted = sent /\ replied + 1 = sent
    /\ pc \in Scanning => Len(mem.scan.batches) = batches
    /\ pc \in Preparing \cup Scanning => mem.scan.status = "running"
    /\ pc \in {"limit", "scan"} \cup Preparing \cup Scanning \cup Planned => mem.bound
    /\ pc \in Planned => sent = batches /\ replied = batches
                         /\ mem.scan.status \notin {"running", "interrupted"}

\* A state that is written counts what has been sent and started.
Covers(m) == sent <= m.scan.attempted /\ \A r \in started : m.attempts[r].status # "none"

LineOK ==
    /\ Covers(mem)
    /\ durable.event = "none" => sent = 0 /\ started = {} /\ ~durable.complete
    /\ durable.event # "none" => durable.mem \in Mem /\ Covers(durable.mem)
    /\ pc = "send" => durable.event # "none" /\ sent < durable.mem.scan.attempted

TrackOK ==
    /\ pc = "planning" => tracker = "query_planner"
    /\ pc \in {"reading", "calling"} => tracker = "final_reader"
    /\ pc \in Failing => tracker # "query_planner"
    /\ pc = "attempt failed" => tracker # "none"
    /\ tracker # "none" =>
         /\ pc \in {"planning", "reading", "calling", "attempt failed", "unwind", "gone"}
                     \cup Failing
         /\ mem.attempts[tracker].status # "none"

\* An attempt in its session.
Tracked(r) ==
    /\ mem.attempts[r].status \in {"reserved", "running", "process_completed"}
    /\ mem.attempts[r].status = "reserved" => r \notin started
    /\ mem.attempts[r].status = "process_completed" => r \in started

Untouched(r) == mem.attempts[r] = NoAttempt /\ r \notin started
Finished(r)  == mem.attempts[r].status = "completed" /\ r \in started

\* The reader's session runs, and waits for a message or for its tool.
InRead == pc \in {"reading", "calling"} \/ (pc \in Failing /\ tracker = "final_reader")

OpenSearch == {"running", "awaiting_delivery"}

\* A search of the reader is left open only if a line of it was not written.
DoneOK ==
    /\ pc \in Places \ (Planned \cup Closing \cup {"attempt failed"}) =>
         Untouched("query_planner")
    /\ pc = "plan" => Untouched("query_planner") /\ planned
    /\ pc = "planning" => Tracked("query_planner") /\ planned
    /\ InRead \/ pc \in {"search", "receipt", "read", "close"} =>
         IF planned THEN Finished("query_planner") ELSE Untouched("query_planner")
    /\ pc \in Places \ ({"reading", "calling", "close", "attempt failed"}
                          \cup Failing \cup Closing) =>
         Untouched("final_reader") /\ mem.searches["tool"].status = "none"
    /\ InRead => Tracked("final_reader")
    /\ InRead \/ pc \in {"receipt", "read", "close"} =>
         mem.searches["initial"].status = "delivered"
    /\ pc = "close" => Finished("final_reader")
    /\ tracker = "final_reader" \/ pc = "close" =>
         (mem.searches["tool"].status \in OpenSearch =>
            /\ pc \in {"reading", "close"} => faults # 0
            /\ pc = "failed receipt" => faults # 0 \/ mem.events = limit
            /\ pc # "failed delivery")

\* What is true of an invocation that has got to its end.
Whole ==
    /\ sent = replied /\ sent = batches
    /\ mem.searches["initial"].status = "delivered"
    /\ started = {r \in Roles : mem.attempts[r].status = "completed"}

Quiet ==
    /\ \A r \in Roles : mem.attempts[r].status \notin Open
    /\ \A s \in Searches : mem.searches[s].status \in {"running", "awaiting_delivery"} =>
           s = "tool" /\ faults > 0 /\ durable.event = "completed"
    /\ mem.scan.status # "running"

CloseOK ==
    /\ mem.terminal => pc \in {"drop", "ended", "gone"} /\ Quiet
    /\ pc = "ended" => Quiet
    /\ mem.scan.status = "interrupted" =>
         \A i \in DOMAIN mem.scan.batches : mem.scan.batches[i] # "reserved"
    /\ faults = 0 =>
         /\ closings = IF mem.terminal THEN 1 ELSE 0
         /\ mem.terminal => durable.event \in Terminals
         /\ pc = "ended" => mem.terminal \/ mem.events = limit
         /\ durable.event = "completed" => mem.terminal /\
              \A r \in Roles : mem.attempts[r].status \in {"none", "completed"}
    /\ durable.complete => Whole /\ pc \in {"fail", "drop", "ended", "gone"}

Inv == /\ TypeOK /\ RoomOK /\ ScanOK /\ LineOK /\ TrackOK /\ DoneOK /\ CloseOK
---------------------------------------------------------------------------
(***************************************************************************)
(* The append of a line.                                                   *)
(***************************************************************************)

\* What Appended does, part by part.
Effect(event, m, ok) ==
    /\ mem' \in Mem /\ mem'.scan = m.scan /\ mem'.attempts = m.attempts
    /\ mem'.searches = m.searches /\ mem'.bound = m.bound
    /\ limit' = limit /\ closings' \in Nat /\ faults' \in Nat
    /\ mem'.terminal <=> m.terminal \/ (ok /\ event \in Terminals)
    /\ mem'.events \in {m.events, m.events + 1}
    /\ ok => /\ durable' = Line(event, m) /\ faults' = faults /\ m.events < limit
             /\ closings' = closings + (IF event \in Terminals THEN 1 ELSE 0)
    /\ ~ok /\ faults' = 0 => m.events = limit /\ mem'.events = limit
                             /\ UNCHANGED <<durable, closings>>
    /\ durable' = durable \/ durable' = Line(event, m)
    /\ faults' = 0 => faults = 0

\* A line is written and counted, counted only, or neither.
LEMMA AppendedEffect ==
    ASSUME TypeOK, NEW event, NEW m \in Mem, NEW ok \in BOOLEAN, Appended(event, m, ok)
    PROVE  Effect(event, m, ok)
<1>1. limit' = limit /\ limit \in Nat /\ faults \in Nat /\ closings \in Nat /\ m.events \in Nat
  BY DEF Appended, TypeOK, Mem
<1>2. ASSUME NEW b \in BOOLEAN, mem' = [m EXCEPT !.events = @ + 1, !.terminal = b]
      PROVE  /\ mem' \in Mem /\ mem'.scan = m.scan /\ mem'.attempts = m.attempts
             /\ mem'.searches = m.searches /\ mem'.bound = m.bound
             /\ mem'.terminal = b /\ mem'.events = m.events + 1
  <2> DEFINE n == m.events + 1
  <2>1. n \in Nat /\ mem' = [m EXCEPT !.events = n, !.terminal = b]
    BY <1>1, <1>2
  <2> HIDE DEF n
  <2>2. /\ mem' \in Mem /\ mem'.events = n /\ mem'.terminal = b /\ mem'.scan = m.scan
        /\ mem'.attempts = m.attempts /\ mem'.searches = m.searches
        /\ mem'.bound = m.bound
    BY <1>2, <2>1 DEF Mem
  <2> QED BY <2>2 DEF n
<1>0. m.terminal \in BOOLEAN /\ (m.terminal \/ FALSE) = m.terminal
  BY DEF Mem
<1>3. CASE ok /\ m.events < limit /\ Counted(m, event \in Terminals) /\ Written(event, m)
           /\ UNCHANGED faults
  <2>1. CASE event \in Terminals
    <3>1. (m.terminal \/ event \in Terminals) = TRUE
      BY <2>1
    <3>2. mem' = [m EXCEPT !.events = @ + 1, !.terminal = TRUE]
      BY <1>3, <3>1 DEF Counted
    <3>3. /\ durable' = Line(event, m) /\ faults' = faults /\ closings' \in Nat
          /\ closings' = closings + (IF event \in Terminals THEN 1 ELSE 0)
      BY <1>1, <1>3 DEF Written
    <3>4. /\ mem' \in Mem /\ mem'.scan = m.scan /\ mem'.attempts = m.attempts
          /\ mem'.searches = m.searches /\ mem'.bound = m.bound
          /\ mem'.terminal = TRUE /\ mem'.events = m.events + 1
      BY <1>2, <3>2
    <3> QED BY <1>1, <1>3, <2>1, <3>3, <3>4 DEF Effect
  <2>2. CASE event \notin Terminals
    <3>1. (m.terminal \/ event \in Terminals) = m.terminal
      BY <1>0, <2>2
    <3>2. mem' = [m EXCEPT !.events = @ + 1, !.terminal = m.terminal]
      BY <1>3, <3>1 DEF Counted
    <3>3. /\ durable' = Line(event, m) /\ faults' = faults /\ closings' \in Nat
          /\ closings' = closings + (IF event \in Terminals THEN 1 ELSE 0)
      BY <1>1, <1>3 DEF Written
    <3>4. /\ mem' \in Mem /\ mem'.scan = m.scan /\ mem'.attempts = m.attempts
          /\ mem'.searches = m.searches /\ mem'.bound = m.bound
          /\ mem'.terminal = m.terminal /\ mem'.events = m.events + 1
      BY <1>0, <1>2, <3>2
    <3> QED BY <1>1, <1>3, <2>2, <3>3, <3>4 DEF Effect
  <2> QED BY <2>1, <2>2
<1>4. CASE ~ok /\ m.events < limit /\ Fault /\ Counted(m, FALSE)
           /\ (Written(event, m) \/ UNCHANGED <<durable, closings>>)
  <2>1. mem' = [m EXCEPT !.events = @ + 1, !.terminal = m.terminal]
    BY <1>0, <1>4 DEF Counted
  <2>2. /\ mem' \in Mem /\ mem'.scan = m.scan /\ mem'.attempts = m.attempts
        /\ mem'.searches = m.searches /\ mem'.bound = m.bound
        /\ mem'.terminal = m.terminal /\ mem'.events = m.events + 1
    BY <1>0, <1>2, <2>1
  <2>3. /\ faults' = faults + 1 /\ closings' \in Nat
        /\ durable' = durable \/ durable' = Line(event, m)
    BY <1>1, <1>4 DEF Fault, Written
  <2> QED BY <1>1, <1>4, <2>2, <2>3 DEF Effect
<1>5. CASE /\ ~ok /\ mem' = m /\ UNCHANGED <<durable, closings>>
           /\ IF m.events = limit THEN UNCHANGED faults ELSE Fault
  BY <1>1, <1>5 DEF Effect, Fault
<1> QED BY <1>3, <1>4, <1>5 DEF Appended

\* A line before the end keeps what lines must cover and leaves the ledger open.
LEMMA OpenLine ==
    ASSUME Inv, NEW event, event \notin Terminals, event # "none",
           NEW m \in Mem, NEW ok \in BOOLEAN, Effect(event, m, ok),
           m.terminal = mem.terminal, pc \notin {"fail", "drop", "ended", "gone"},
           pc' # "ended", sent' = sent, Covers(m)', ok \/ started' = started,
           m.scan.status = "interrupted" => m.scan = mem.scan,
           pc' = "send" => ok /\ sent < m.scan.attempted
    PROVE  LineOK' /\ CloseOK'
<1>1. ~mem.terminal /\ ~mem'.terminal
  BY DEF Effect, Inv, CloseOK
<1>3. /\ Line(event, m).event = event /\ Line(event, m).mem = m
      /\ ~Line(event, m).complete
  <2>1. (event = "completed" /\ AccountingComplete(m)) = FALSE
    BY DEF Terminals
  <2>2. Line(event, m) = [event |-> event, mem |-> m, complete |-> FALSE]
    BY <2>1 DEF Line
  <2> QED BY <2>2
<1>4. ~durable'.complete
  BY <1>3 DEF Effect, Inv, CloseOK
<1>5. LineOK'
  <2>1. Covers(mem)'
    BY DEF Effect, Covers
  <2>2. CASE durable' = Line(event, m)
    BY <1>3, <2>1, <2>2 DEF LineOK, Covers
  <2>3. CASE durable' = durable /\ ~ok
    BY <1>4, <2>1, <2>3 DEF Inv, LineOK, Covers
  <2> QED BY <2>2, <2>3 DEF Effect
<1>6. CloseOK'
  <2>1. mem'.scan.status = "interrupted" =>
          \A i \in DOMAIN mem'.scan.batches : mem'.scan.batches[i] # "reserved"
    BY DEF Effect, Inv, CloseOK
  <2>2. faults' = 0 => closings' = 0 /\ durable'.event # "completed"
    BY <1>1, <1>3 DEF Effect, Inv, CloseOK, Terminals
  <2> QED BY <1>1, <1>4, <2>1, <2>2 DEF CloseOK
<1> QED BY <1>5, <1>6
---------------------------------------------------------------------------
(***************************************************************************)
(* Steps that write no line.                                               *)
(***************************************************************************)

\* An admitted scan has room for one more line.
LEMMA LeftOver ==
    ASSUME Inv, pc \in Scanning
    PROVE  Left \in Nat /\ mem.events + Left + 1 < limit
           /\ mem.events + 1 < limit /\ mem.events < limit
<1>1. /\ batches \in Nat /\ mem.scan.attempted \in Nat /\ mem.events \in Nat /\ limit \in Nat
      /\ mem.scan.attempted <= batches
  BY DEF Inv, TypeOK, RoomOK, Mem, Scan
<1>2. batches - mem.scan.attempted \in Nat
  BY <1>1
<1>3. Left \in Nat
  BY <1>2 DEF Left
<1>4. mem.events + Left + 1 < limit
  <2>1. CASE pc = "before"
    BY <2>1 DEF Inv, RoomOK
  <2>2. CASE pc \in Asking
    <3>1. mem.events + Left + 3 < limit
      BY <2>2 DEF Inv, RoomOK
    <3> QED BY <1>1, <1>3, <3>1
  <2>3. CASE pc = "score"
    BY <1>1, <1>3, <2>3 DEF Inv, RoomOK
  <2> QED BY <2>1, <2>2, <2>3 DEF Scanning
<1> QED BY <1>1, <1>3, <1>4

Still == UNCHANGED <<ledgerVars, runVars, pastVars>>

\* The parts that speak only of the ledger and of the places of the end.
LEMMA StillClose ==
    ASSUME Inv, Still, pc \notin {"fail", "drop", "ended", "gone"} \/ pc' = "gone",
           pc' # "ended", pc' # "send"
    PROVE  LineOK' /\ CloseOK'
BY DEF Still, ledgerVars, runVars, pastVars, Inv, LineOK, CloseOK, Covers, Whole, Quiet

\* An error after which nothing has been written.
LEMMA Unwinds ==
    ASSUME Inv, Still, next' \in {"fail", "drop"}, tracker' = tracker,
           pc \notin {"unwind", "fail", "drop", "ended", "gone"}, pc' = "unwind"
    PROVE  Inv'
<1>1. LineOK' /\ CloseOK'
  BY StillClose
<1> QED BY <1>1 DEF Still, ledgerVars, runVars, pastVars, Inv, TypeOK, RoomOK,
     ScanOK, TrackOK, DoneOK, Places, Planned, Late, Failing, Closing, Preparing, Scanning,
     Asking, Untouched, Finished, Tracked, InRead

\* The session of an attempt ends with an error.
LEMMA AttemptFails ==
    ASSUME Inv, Still, next' = next, tracker' = tracker,
           InSession \/ pc \in {"calling", "failed delivery", "failed receipt"},
           tracker # "none", pc' = "attempt failed"
    PROVE  Inv'
<1>1. pc \in {"planning", "reading", "calling", "failed delivery", "failed receipt"}
  BY DEF InSession
<1>2. LineOK' /\ CloseOK'
  BY <1>1, StillClose
<1> QED BY <1>1, <1>2 DEF Still, ledgerVars, runVars, pastVars, Inv, TypeOK, RoomOK,
     ScanOK, TrackOK, DoneOK, Places, Planned, Late, Failing, Closing, Preparing, Scanning,
     Asking, Untouched, Finished, Tracked, InRead

\* The scan ends with an error before its line is written.
LEMMA ScanFails ==
    ASSUME Inv, Still, next' = next, tracker' = tracker,
           pc \in Preparing \cup Scanning, pc' = "scan failed"
    PROVE  Inv'
<1>1. LineOK' /\ CloseOK'
  BY StillClose DEF Preparing, Scanning, Asking
<1>2. mem.scan.batches # <<>> => mem.events < limit
  <2>1. CASE pc \in Scanning
    BY <2>1, LeftOver
  <2>2. CASE pc \in Preparing
    BY <2>2 DEF Inv, RoomOK
  <2> QED BY <2>1, <2>2
<1>3. RoomOK'
  BY <1>2 DEF Still, ledgerVars, runVars, pastVars, Inv, RoomOK, Preparing, Scanning, Asking
<1> QED BY <1>1, <1>3 DEF Still, ledgerVars, runVars, pastVars, Inv, TypeOK,
     ScanOK, TrackOK, DoneOK, Places, Planned, Late, Failing, Closing, Preparing, Scanning,
     Asking, Untouched, Finished, Tracked, InRead

\* Errors, deadlines, the drop of the invocation and a kill.
LEMMA ErrorStep ==
    ASSUME Inv, Error \/ SessionError \/ Cancel \/ Killed \/ ScanDeadline \/ InvalidScores
                \/ ScanChanged \/ Prepare \/ CallError
    PROVE  Inv'
<1>1. Still /\ next' \in {"fail", "drop"} /\ tracker' = tracker
  BY DEF Still, Error, SessionError, Cancel, Killed, ScanDeadline, InvalidScores,
     ScanChanged, Prepare, ScanStep, CallError, Then, Inv, TypeOK, pastVars, runVars
<1>2. CASE Error \/ Cancel
  BY <1>1, <1>2, Unwinds DEF Error, Cancel, Searching
<1>3. CASE SessionError
  BY <1>1, <1>3, AttemptFails DEF SessionError, InSession, Inv, TrackOK
<1>7. CASE CallError
  <2>1. pc \in {"calling", "failed delivery", "failed receipt"}
        /\ pc' = (IF tracker = "none" THEN "unwind" ELSE "attempt failed") /\ next' = next
    BY <1>7 DEF CallError, Then, OnError, First
  <2> QED BY <1>1, <2>1, Unwinds, AttemptFails
<1>4. CASE ScanDeadline \/ InvalidScores \/ ScanChanged
  BY <1>1, <1>4, ScanFails DEF ScanDeadline, InvalidScores, ScanChanged, Scanning
<1>5. CASE Killed
  <2>1. LineOK' /\ CloseOK'
    BY <1>1, <1>5, StillClose DEF Killed
  <2>2. pc' = "gone"
    BY <1>5 DEF Killed
  <2> QED BY <1>1, <2>1, <2>2 DEF Still, ledgerVars, runVars, pastVars, Inv, TypeOK, RoomOK,
     ScanOK, TrackOK, DoneOK, Places, Planned, Late, Failing, Closing, Preparing, Scanning,
     Asking, Untouched, Finished, Tracked, InRead
<1>6. CASE Prepare
  <2>1. CASE pc' = "scan failed"
    BY <1>1, <1>6, <2>1, ScanFails DEF Prepare, Preparing, ScanStep
  <2>2. CASE pc' = "admit"
    <3>1. LineOK' /\ CloseOK'
      BY <1>1, <1>6, <2>2, StillClose DEF Prepare
    <3> QED BY <1>1, <1>6, <2>2, <3>1 DEF Prepare, Still, ledgerVars, runVars, pastVars, Inv,
     TypeOK, RoomOK,
     ScanOK, TrackOK, DoneOK, Places, Planned, Late, Failing, Closing, Preparing, Scanning,
     Asking, Untouched, Finished, Tracked, InRead
  <2> QED BY <1>6, <2>1, <2>2 DEF Prepare, ScanStep
<1> QED BY <1>2, <1>3, <1>4, <1>5, <1>6, <1>7

\* A request is sent only after the line that counts it.
LEMMA SendStep ==
    ASSUME Inv, Send
    PROVE  Inv'
<1>1. /\ pc = "send" /\ pc' = "await" /\ sent' = sent + 1
      /\ UNCHANGED <<ledgerVars, runVars, next, tracker, replied, started, squeezed>>
  BY DEF Send
<1>2. LineOK'
  BY <1>1 DEF ledgerVars, Inv, TypeOK, LineOK, ScanOK, Covers, Mem, Scan
<1>3. CloseOK'
  BY <1>1 DEF ledgerVars, Inv, CloseOK, Quiet
<1>4. TypeOK' /\ RoomOK' /\ ScanOK'
  BY <1>1 DEF ledgerVars, runVars, Inv, TypeOK, RoomOK, Left, ScanOK, Places, Preparing,
     Scanning, Asking, Planned, Late, Failing, Closing, Mem, Scan
<1>5. TrackOK' /\ DoneOK'
  BY <1>1 DEF ledgerVars, runVars, Inv, TrackOK, DoneOK, Places, Planned, Late, Failing,
     Closing,
     Preparing, Scanning, Asking, Untouched, Finished, Tracked, InRead
<1> QED BY <1>2, <1>3, <1>4, <1>5 DEF Inv
---------------------------------------------------------------------------
(***************************************************************************)
(* Lines that record nothing of scans, attempts and searches.              *)
(***************************************************************************)

\* An operation of the ledger writes a line or is refused.
LEMMA OperationEffect ==
    ASSUME TypeOK, NEW event, NEW m \in Mem, NEW ok \in BOOLEAN, NEW condition,
           Operation(condition, event, m, ok)
    PROVE  \/ condition /\ Effect(event, m, ok)
           \/ ~condition /\ ~ok /\ UNCHANGED ledgerVars
BY AppendedEffect DEF Operation, Refused

\* The steps between two places at which only the ledger's own fields change.
LogMove ==
    \/ pc = "create" /\ pc' \in {"bind", "gone"}
    \/ pc = "bind" /\ pc' \in {"limit", "unwind"}
    \/ pc = "limit" /\ pc' = "unwind"
    \/ pc = "limit" /\ pc' = "scan" /\ navigation
    \/ pc = "limit" /\ pc' = "plan" /\ ~navigation /\ planned
    \/ pc = "limit" /\ pc' = "search" /\ ~navigation /\ ~planned
    \/ pc = "receipt" /\ pc' \in {"read", "unwind", "failing"}
    \/ pc = "reading" /\ pc' \in {"reading", "attempt failed"}
    \/ pc = "calling" /\ pc' \in {"reading", "attempt failed"}
                      /\ mem.searches["tool"].status = "delivered"
    \/ pc = "failed receipt" /\ tracker = "none" /\ pc' = "unwind"
    \/ pc = "failed receipt" /\ tracker # "none" /\ pc' \in {"reading", "attempt failed"}

\* A line that leaves the attempts, the searches and the scan alone.
LEMMA LogStep ==
    ASSUME Inv, NEW event, event \notin Terminals, event # "none",
           NEW m \in Mem, NEW ok \in BOOLEAN, Effect(event, m, ok), LogMove,
           m.scan = mem.scan, m.attempts = mem.attempts, m.searches = mem.searches,
           m.terminal = mem.terminal, mem.bound => m.bound, pc = "bind" => m.bound,
           m.events = mem.events, pc' = "reading" => ok,
           UNCHANGED <<runVars, pastVars, next, tracker>>
    PROVE  Inv'
<1>1. LineOK' /\ CloseOK'
  <2>1. Covers(m)'
    BY DEF Inv, LineOK, Covers, pastVars
  <2>2. pc \notin {"fail", "drop", "ended", "gone"} /\ pc' # "ended" /\ pc' # "send"
    BY DEF LogMove
  <2> QED BY <2>1, <2>2, OpenLine DEF pastVars
<1>2. /\ mem' \in Mem /\ mem'.scan = mem.scan /\ mem'.attempts = mem.attempts
      /\ mem'.searches = mem.searches /\ mem'.bound = m.bound
      /\ limit' = limit /\ closings' \in Nat /\ faults' \in Nat
      /\ (faults' = 0 => faults = 0) /\ (ok => mem.events < limit)
  BY DEF Effect
<1>3. TypeOK'
  BY <1>2 DEF LogMove, Inv, TypeOK, runVars, pastVars, Places, Planned, Late, Failing, Closing,
     Preparing, Scanning, Asking
<1>4. TrackOK'
  BY <1>2 DEF LogMove, Inv, TypeOK, TrackOK, Failing, Roles
<1>5. RoomOK' /\ ScanOK'
  <2>1. CASE pc = "create" \/ pc = "bind"
    BY <1>2, <2>1 DEF LogMove, Inv, RoomOK, ScanOK, runVars, pastVars, Planned, Late, Failing,
       Preparing, Scanning, Asking
  <2>2. CASE pc = "limit"
    <3>1. mem.scan = NoScan /\ sent = 0 /\ replied = 0 /\ m.bound
      BY <2>2 DEF Inv, ScanOK
    <3>2. pc' \in {"unwind", "scan", "plan", "search"}
          /\ (pc' = "scan" => navigation) /\ (pc' \in {"plan", "search"} => batches = 0)
      BY <2>2 DEF LogMove, Inv, TypeOK
    <3>3. RoomOK'
      BY <1>2, <3>1, <3>2 DEF Inv, RoomOK, NoScan, runVars, pastVars, Preparing, Scanning,
         Asking
    <3>5. mem.scan.status = "none" /\ mem.scan.attempted = 0 /\ mem.scan.requests = 0
      BY <3>1 DEF NoScan
    <3>6. /\ sent' = 0 /\ replied' = 0 /\ mem'.scan = mem.scan /\ mem'.bound
          /\ batches' = batches
      BY <1>2, <3>1 DEF runVars, pastVars
    <3>4. ScanOK'
      <4>1. mem'.scan.status = "none" /\ mem'.scan.attempted = 0 /\ mem'.scan.requests = 0
            /\ mem'.scan = NoScan
        BY <3>1, <3>5, <3>6
      <4>2. /\ replied' <= mem'.scan.attempted /\ mem'.scan.requests = replied'
            /\ pc' \notin Preparing /\ pc' \notin Scanning
            /\ pc' \notin {"before", "score", "send", "await"}
        BY <3>2, <3>6, <4>1 DEF Preparing, Scanning, Asking
      <4>3. pc' \in Planned => sent' = batches' /\ replied' = batches'
        BY <3>2, <3>6 DEF Planned, Late, Failing
      <4> QED BY <3>6, <4>1, <4>2, <4>3 DEF ScanOK
    <3> QED BY <3>3, <3>4
  <2>3. CASE pc \in {"receipt", "reading", "calling", "failed receipt"}
    <3>1. pc' \in {"read", "reading", "unwind", "attempt failed", "failing"}
      BY <2>3 DEF LogMove
    <3> QED BY <1>2, <2>3, <3>1 DEF Inv, RoomOK, ScanOK, runVars, pastVars, Planned,
               Late, Failing, Preparing, Scanning, Asking
  <2> QED BY <2>1, <2>2, <2>3 DEF LogMove
<1>6. DoneOK'
  <2>1. /\ \A r \in Roles : /\ Untouched(r)' = Untouched(r) /\ Tracked(r)' = Tracked(r)
                             /\ Finished(r)' = Finished(r)
        /\ mem'.searches = mem.searches /\ tracker' = tracker /\ planned' = planned
    BY <1>2 DEF Untouched, Tracked, Finished, runVars, pastVars
  <2> USE DEF Roles
  <2>2. CASE pc \in {"create", "bind", "limit"}
    <3>1. pc' \in {"bind", "gone", "limit", "unwind", "scan", "plan", "search"}
          /\ (pc' = "plan" => planned) /\ (pc' = "search" => ~planned)
          /\ tracker # "final_reader"
      BY <2>2 DEF LogMove, Inv, TrackOK, Failing
    <3> QED BY <2>1, <2>2, <3>1 DEF Inv, DoneOK, InRead, Places, Planned, Late, Failing,
               Closing, Preparing, Scanning, Asking
  <2>3. CASE pc = "receipt"
    <3>1. pc' \in {"read", "unwind", "failing"} /\ tracker # "final_reader"
      BY <2>3 DEF LogMove, Inv, TrackOK, Failing
    <3> QED BY <2>1, <2>3, <3>1 DEF Inv, DoneOK, InRead, Places, Planned, Late, Failing,
               Closing, Preparing, Scanning, Asking
  <2>4. CASE pc = "failed receipt" /\ tracker = "none"
    BY <2>1, <2>4 DEF LogMove, DoneOK, InRead, Places, Planned, Late, Failing, Closing,
       Preparing, Scanning, Asking
  <2>5. CASE pc \in {"reading", "calling"} \/ (pc = "failed receipt" /\ tracker # "none")
    <3>1. tracker = "final_reader" /\ InRead /\ pc' \in {"reading", "attempt failed"}
      BY <2>5 DEF LogMove, Inv, TypeOK, TrackOK, Failing, InRead
    <3>2. mem.searches["tool"].status \in OpenSearch => faults' # 0 \/ pc' = "attempt failed"
      <4>1. mem.events \in Nat /\ limit \in Nat
        BY DEF Inv, TypeOK, Mem
      <4>2. pc' = "reading" => mem.events < limit
        BY <1>2
      <4>3. CASE pc = "calling"
        BY <4>3 DEF LogMove, OpenSearch
      <4>4. CASE pc # "calling" /\ mem.searches["tool"].status \in OpenSearch
        <5>1. faults # 0 \/ mem.events = limit
          BY <2>5, <3>1, <4>4 DEF Inv, DoneOK
        <5>2. pc' = "reading" => mem.events # limit
          BY <4>1, <4>2
        <5> QED BY <1>2, <3>1, <5>1, <5>2
      <4> QED BY <4>3, <4>4
    <3>3. /\ IF planned THEN Finished("query_planner") ELSE Untouched("query_planner")
          /\ Tracked("final_reader") /\ mem.searches["initial"].status = "delivered"
      BY <3>1 DEF Inv, DoneOK
    <3> QED BY <2>1, <3>1, <3>2, <3>3 DEF DoneOK, InRead, Places, Planned, Late, Failing,
               Closing, Preparing, Scanning, Asking
  <2> QED BY <2>2, <2>3, <2>4, <2>5 DEF LogMove
<1> QED BY <1>1, <1>3, <1>4, <1>5, <1>6 DEF Inv

\* The first lines of the ledger, and receipts.
LEMMA SetupStep ==
    ASSUME Inv, NEW ok \in BOOLEAN, Create(ok) \/ Bind(ok) \/ LimitAttempts(ok)
                                       \/ Receipt(ok) \/ FailedReceipt(ok)
    PROVE  Inv'
<1>1. mem \in Mem /\ TypeOK
  BY DEF Inv, TypeOK
<1>2. CASE Create(ok)
  <2>1. Effect("created", mem, ok) /\ LogMove /\ UNCHANGED <<runVars, pastVars, next, tracker>>
    BY <1>1, <1>2, AppendedEffect DEF Create, LogMove
  <2> QED BY <1>1, <1>2, <2>1, LogStep DEF Create, Terminals
<1>3. CASE Bind(ok)
  <2> DEFINE m == [mem EXCEPT !.bound = TRUE]
  <2>1. /\ m \in Mem /\ m.scan = mem.scan /\ m.attempts = mem.attempts /\ m.bound
        /\ m.searches = mem.searches /\ m.terminal = mem.terminal /\ m.events = mem.events
    BY <1>1 DEF Mem
  <2> HIDE DEF m
  <2>2. Effect("workflow_bound", m, ok) \/ (~ok /\ UNCHANGED ledgerVars)
    BY <1>1, <1>3, <2>1, OperationEffect DEF Bind, BindWorkflow, m
  <2>3. LogMove /\ UNCHANGED <<runVars, pastVars, next, tracker>>
    BY <1>3 DEF Bind, Step, Goto, LogMove
  <2>4. ~ok => pc' = "unwind" /\ pc = "bind"
    BY <1>3 DEF Bind, Step, Goto
  <2>5. CASE ~ok /\ UNCHANGED ledgerVars
    BY <2>3, <2>4, <2>5, Unwinds DEF Still, Inv, TypeOK
  <2>7. pc' # "reading"
    BY <1>3 DEF Bind, Step, Goto
  <2>6. CASE Effect("workflow_bound", m, ok)
    BY <2>1, <2>3, <2>6, <2>7, LogStep DEF Terminals
  <2> QED BY <2>2, <2>5, <2>6
<1>4. CASE LimitAttempts(ok)
  <2> DEFINE n == IF planned THEN 2 ELSE 1
             m == [mem EXCEPT !.max = n]
  <2>0. n \in Nat
    OBVIOUS
  <2> HIDE DEF n
  <2>1. /\ m \in Mem /\ m.scan = mem.scan /\ m.attempts = mem.attempts /\ m.bound = mem.bound
        /\ m.searches = mem.searches /\ m.terminal = mem.terminal /\ m.events = mem.events
    BY <1>1, <2>0 DEF Mem
  <2> HIDE DEF m
  <2>2. Effect("model_attempt_budget", m, ok) \/ (~ok /\ UNCHANGED ledgerVars)
    BY <1>1, <1>4, <2>1, OperationEffect DEF LimitAttempts, SetLimit, m, n
  <2>3. UNCHANGED <<runVars, pastVars, next, tracker>> /\ pc = "limit"
        /\ pc' = IF ok THEN CASE navigation -> "scan"
                              [] ~navigation /\ planned -> "plan"
                              [] OTHER -> "search"
                       ELSE "unwind"
    BY <1>4 DEF LimitAttempts, Step, Goto
  <2>4. LogMove
    BY <1>1, <2>3 DEF LogMove, TypeOK
  <2>5. CASE ~ok /\ UNCHANGED ledgerVars
    BY <2>3, <2>5, Unwinds DEF Still, Inv, TypeOK
  <2>6. CASE Effect("model_attempt_budget", m, ok)
    BY <2>1, <2>3, <2>4, <2>6, LogStep DEF Terminals
  <2> QED BY <2>2, <2>5, <2>6
<1>5. CASE Receipt(ok) \/ FailedReceipt(ok)
  <2>1. /\ Appended("receipt", mem, ok) /\ UNCHANGED <<runVars, pastVars, next, tracker>>
        /\ pc \in {"receipt", "calling", "reading", "failed receipt"}
        /\ pc' \in {"read", "reading", "failing", "unwind", "attempt failed"}
    BY <1>5 DEF Receipt, FailedReceipt, Then, OnError, InTurn, InSession
  <2>2. LogMove /\ (pc' = "reading" => ok)
    <3>1. /\ pc = "receipt" => tracker = "none"
          /\ pc \in {"reading", "calling"} => tracker = "final_reader"
      BY DEF Inv, TrackOK, Failing
    <3>2. CASE Receipt(ok)
      <4>1. CASE pc = "receipt"
        BY <3>1, <3>2, <4>1 DEF Receipt, Then, First, Fused, OnError, LogMove
      <4>2. CASE pc = "reading"
        BY <3>1, <3>2, <4>2 DEF Receipt, Then, First, Fused, OnError, LogMove
      <4>3. CASE pc = "calling"
        BY <3>1, <3>2, <4>3 DEF Receipt, Then, First, Fused, OnError, LogMove, Status,
           SearchOf
      <4> QED BY <3>2, <4>1, <4>2, <4>3 DEF Receipt
    <3>3. CASE FailedReceipt(ok)
      BY <3>3 DEF FailedReceipt, Then, First, OnError, LogMove
    <3> QED BY <1>5, <3>2, <3>3
  <2>3. Effect("receipt", mem, ok)
    BY <1>1, <2>1, AppendedEffect
  <2> QED BY <1>1, <2>1, <2>2, <2>3, LogStep DEF Terminals
<1> QED BY <1>2, <1>3, <1>4, <1>5
---------------------------------------------------------------------------
(***************************************************************************)
(* Lines of searches.                                                      *)
(***************************************************************************)

\* Where a line of the first search may lead.
FirstMove(status) ==
    \/ pc = "search" /\ pc' = "search"
    \/ pc = "search" /\ pc' = "receipt" /\ status = "delivered"
    \/ pc' \in {"unwind"} \cup Failing

\* Where a line of the reader's search may lead: a failed search is one that has ended,
\* unless the line that says so was not written.
ToolMove(status, ok) ==
    /\ pc' \in {"calling", "attempt failed"} \cup Failing
    /\ pc' = "failed delivery" => status \notin OpenSearch
    /\ pc' = "failed receipt" => status \notin OpenSearch \/ ~ok

\* A line about the first search or one of the reader.
LEMMA SearchLineStep ==
    ASSUME Inv, NEW event, event \notin Terminals, event # "none", NEW search \in Search,
           NEW ok \in BOOLEAN, SearchEvent(SearchOf, event, search, ok),
           UNCHANGED <<runVars, next, tracker, pastVars>>,
           pc \in {"search", "reading", "calling", "failing", "failed delivery"},
           IF First THEN FirstMove(search.status) ELSE ToolMove(search.status, ok)
    PROVE  Inv'
<1> DEFINE s == SearchOf
<1>1. /\ s \in Searches /\ pc # "send"
      /\ (tracker = "none" => s = "initial") /\ (tracker # "none" => s = "tool")
  BY DEF SearchOf, First, Searches
<1>2. mem \in Mem
  BY DEF Inv, TypeOK
<1> HIDE DEF s
<1>0. [mem EXCEPT !.searches[s] = search] \in Mem
  BY <1>1, <1>2 DEF Mem
<1>11. PICK m \in Mem : m = [mem EXCEPT !.searches[s] = search]
  BY <1>0
<1>3. /\ m.scan = mem.scan /\ m.attempts = mem.attempts /\ m.bound = mem.bound
      /\ m.terminal = mem.terminal /\ m.searches[s] = search
      /\ \A x \in Searches \ {s} : m.searches[x] = mem.searches[x]
  BY <1>1, <1>2, <1>11 DEF Mem
<1>4. Effect(event, m, ok)
  BY <1>11, AppendedEffect DEF SearchEvent, s, Inv
<1>7. pc' \in {"search", "unwind", "receipt", "calling", "attempt failed"} \cup Failing
  BY DEF FirstMove, ToolMove
<1>5. LineOK' /\ CloseOK'
  <2>1. Covers(m)'
    BY <1>3 DEF Inv, LineOK, Covers, pastVars
  <2>2. pc \notin {"fail", "drop", "ended", "gone"} /\ pc' \notin {"ended", "send"}
    BY <1>7 DEF Failing
  <2> QED BY <1>3, <1>4, <2>1, <2>2, OpenLine DEF pastVars
<1>6. /\ mem' \in Mem /\ mem'.scan = mem.scan /\ mem'.attempts = mem.attempts
      /\ mem'.bound = mem.bound /\ mem'.searches[s] = search
      /\ \A x \in Searches \ {s} : mem'.searches[x] = mem.searches[x]
      /\ limit' = limit /\ closings' \in Nat /\ faults' \in Nat
      /\ (~ok /\ faults' = 0 => mem'.events = limit)
  BY <1>3, <1>4 DEF Effect
<1>8. TypeOK' /\ RoomOK'
  BY <1>6, <1>7 DEF Inv, TypeOK, RoomOK, runVars, pastVars, Places, Planned, Late, Failing,
     Closing, Preparing, Scanning, Asking
<1>12. /\ tracker \in {"none", "final_reader"} /\ tracker' = tracker
       /\ pc = "search" => tracker = "none"
       /\ pc \in {"reading", "calling"} => tracker = "final_reader"
  BY DEF Inv, TypeOK, TrackOK, Failing, Roles
<1>13. /\ tracker = "none" => FirstMove(search.status)
       /\ tracker = "final_reader" => ToolMove(search.status, ok)
  BY DEF First
<1>14. TrackOK'
  BY <1>6, <1>12, <1>13 DEF Inv, TrackOK, FirstMove, ToolMove, Failing
<1>9. ScanOK'
  BY <1>6, <1>7 DEF Inv, ScanOK, runVars, pastVars, Planned, Late, Failing, Preparing,
     Scanning, Asking
<1>10. DoneOK'
  <2>1. CASE tracker = "none"
    <3>1. s = "initial" /\ mem'.searches["tool"] = mem.searches["tool"]
          /\ mem'.searches["initial"] = search
      BY <1>1, <1>6, <2>1 DEF Searches
    <3>2. CASE pc = "search"
      BY <1>6, <1>12, <1>13, <2>1, <3>1, <3>2 DEF FirstMove, Inv, DoneOK, Untouched,
         Finished, Tracked, InRead, runVars, pastVars, Places, Planned, Late, Failing,
         Closing, Preparing, Scanning, Asking
    <3>3. CASE pc # "search"
      BY <1>12, <1>13, <2>1, <3>3 DEF FirstMove, DoneOK, InRead, Places, Planned, Late,
         Failing, Closing, Preparing, Scanning, Asking
    <3> QED BY <3>2, <3>3
  <2>2. CASE tracker = "final_reader"
    <3>1. s = "tool" /\ mem'.searches["initial"] = mem.searches["initial"]
          /\ mem'.searches["tool"] = search
      BY <1>1, <1>6, <2>2 DEF Searches
    <3>2. InRead
      BY <1>12, <2>2 DEF InRead, Failing
    <3>3. /\ IF planned THEN Finished("query_planner") ELSE Untouched("query_planner")
          /\ Tracked("final_reader") /\ mem.searches["initial"].status = "delivered"
      BY <3>2 DEF Inv, DoneOK
    <3>4. /\ IF planned' THEN Finished("query_planner")' ELSE Untouched("query_planner")'
          /\ Tracked("final_reader")' /\ mem'.searches["initial"].status = "delivered"
      BY <1>6, <3>1, <3>3 DEF Finished, Untouched, Tracked, runVars, pastVars
    <3>5. pc' \in {"calling", "attempt failed"} \cup Failing
      BY <1>13, <2>2 DEF ToolMove
    <3>6. /\ pc' \notin {"reading", "close"}
          /\ search.status \in OpenSearch =>
               /\ pc' = "failed receipt" => faults' # 0 \/ mem'.events = limit'
               /\ pc' # "failed delivery"
      BY <1>6, <1>13, <2>2, <3>5 DEF ToolMove, Failing
    <3> QED BY <1>12, <2>2, <3>1, <3>4, <3>5, <3>6 DEF DoneOK, InRead, Places, Planned, Late,
           Failing, Closing, Preparing, Scanning, Asking
  <2> QED BY <1>12, <2>1, <2>2
<1> QED BY <1>5, <1>8, <1>9, <1>10, <1>14 DEF Inv

\* The operations of a search.
LEMMA SearchStep ==
    ASSUME Inv, NEW ok \in BOOLEAN, NEW metered \in BOOLEAN,
           \/ StartSearch(ok) \/ SearchProgress(ok) \/ SearchSucceeds(metered, ok)
           \/ Deliver(metered, ok) \/ SearchFails(ok) \/ FailedDelivery(ok)
    PROVE  Inv'
<1>0. /\ pc = "search" => First
      /\ pc \in {"reading", "calling"} => ~First
      /\ Fused => First
  BY DEF First, Fused, Inv, TrackOK, Failing
<1>1. SearchOf \in Searches /\ mem.searches[SearchOf] \in Search
  BY DEF SearchOf, Searches, Inv, TypeOK, Mem
<1>2. CASE StartSearch(ok)
  <2> DEFINE search == [status |-> "running", complete |-> FALSE]
  <2>1. search \in Search
    BY DEF Search
  <2>2. /\ SearchEvent(SearchOf, "search_started", search, ok) /\ pc \in {"search", "reading"}
        /\ UNCHANGED <<runVars, next, tracker, pastVars>>
        /\ IF First THEN FirstMove(search.status) ELSE ToolMove(search.status, ok)
    BY <1>0, <1>2 DEF StartSearch, SearchLine, Then, FirstMove, ToolMove, Failing
  <2> HIDE DEF search
  <2> QED BY <2>1, <2>2, SearchLineStep DEF Terminals
<1>3. CASE SearchProgress(ok)
  <2> DEFINE search == mem.searches[SearchOf]
  <2>2. /\ SearchEvent(SearchOf, "progress", search, ok) /\ pc \in {"search", "calling"}
        /\ UNCHANGED <<runVars, next, tracker, pastVars>>
        /\ IF First THEN FirstMove(search.status) ELSE ToolMove(search.status, ok)
    BY <1>0, <1>3 DEF SearchProgress, SearchLine, Searching, Then, FirstMove, ToolMove, Failing
  <2> HIDE DEF search
  <2> QED BY <1>1, <2>2, SearchLineStep DEF Terminals, search
<1>4. CASE SearchSucceeds(metered, ok)
  <2>1. /\ [status |-> "awaiting_delivery", complete |-> FALSE] \in Search
        /\ [status |-> "reranked", complete |-> metered] \in Search
    BY DEF Search
  <2>2. pc \in {"search", "calling"} /\ UNCHANGED <<runVars, next, tracker, pastVars>>
    BY <1>4 DEF SearchSucceeds, SearchLine, Searching, Then
  <2>3. CASE Fused
    <3> DEFINE search == [status |-> "awaiting_delivery", complete |-> FALSE]
    <3>1. /\ SearchEvent(SearchOf, "plan_fused", search, ok)
          /\ First /\ FirstMove(search.status)
      BY <1>0, <1>4, <2>2, <2>3 DEF SearchSucceeds, SearchLine, Then, FirstMove, Failing
    <3> HIDE DEF search
    <3> QED BY <2>1, <2>2, <3>1, SearchLineStep DEF Terminals, search
  <2>4. CASE ~Fused
    <3> DEFINE search == [status |-> "reranked", complete |-> metered]
    <3>1. /\ SearchEvent(SearchOf, "search_finished", search, ok)
          /\ IF First THEN FirstMove(search.status) ELSE ToolMove(search.status, ok)
      BY <1>0, <1>4, <2>2, <2>4 DEF SearchSucceeds, SearchLine, Then, FirstMove, ToolMove,
         Failing
    <3> HIDE DEF search
    <3> QED BY <2>1, <2>2, <3>1, SearchLineStep DEF Terminals, search
  <2> QED BY <2>3, <2>4
<1>5. CASE Deliver(metered, ok)
  <2> DEFINE c == IF Status = "reranked" THEN mem.searches[SearchOf].complete ELSE metered
             search == [status |-> "delivered", complete |-> c]
  <2>1. SearchEvent(SearchOf, "delivery", search, ok) /\ pc \in {"search", "calling"}
        /\ UNCHANGED <<runVars, next, tracker, pastVars>>
    BY <1>5 DEF Deliver, SearchLine, Searching, Then
  <2>2. c \in BOOLEAN
    BY <1>1 DEF Search
  <2> HIDE DEF c
  <2>3. search \in Search /\ search.status = "delivered"
    BY <2>2 DEF Search
  <2> HIDE DEF search
  <2>4. IF First THEN FirstMove(search.status) ELSE ToolMove(search.status, ok)
    BY <1>0, <1>5, <2>1, <2>3 DEF Deliver, SearchLine, Then, OnError, FirstMove, ToolMove,
       Failing, OpenSearch
  <2> QED BY <2>1, <2>3, <2>4, SearchLineStep DEF Terminals
<1>6. CASE SearchFails(ok)
  <2> DEFINE search == [status |-> "failed", complete |-> FALSE]
  <2>1. search \in Search
    BY DEF Search
  <2>2. /\ SearchEvent(SearchOf, "search_failed", search, ok)
        /\ pc \in {"search", "calling", "failing"}
        /\ UNCHANGED <<runVars, next, tracker, pastVars>>
        /\ IF First THEN FirstMove(search.status) ELSE ToolMove(search.status, ok)
    BY <1>0, <1>6 DEF SearchFails, SearchLine, Searching, Then, FirstMove, ToolMove, Failing,
       OpenSearch
  <2> HIDE DEF search
  <2> QED BY <2>1, <2>2, SearchLineStep DEF Terminals
<1>7. CASE FailedDelivery(ok)
  <2> DEFINE search == mem.searches[SearchOf]
  <2>1. ~First => search.status \notin OpenSearch
    BY <1>7 DEF FailedDelivery, First, SearchOf, Inv, TypeOK, TrackOK, DoneOK, Failing, Roles
  <2>2. /\ SearchEvent(SearchOf, "delivery", search, ok) /\ pc = "failed delivery"
        /\ UNCHANGED <<runVars, next, tracker, pastVars>>
        /\ IF First THEN FirstMove(search.status) ELSE ToolMove(search.status, ok)
    BY <1>7, <2>1 DEF FailedDelivery, SearchLine, Then, OnError, FirstMove, ToolMove, Failing
  <2> HIDE DEF search
  <2> QED BY <1>1, <2>2, SearchLineStep DEF Terminals, search
<1> QED BY <1>2, <1>3, <1>4, <1>5, <1>6, <1>7
---------------------------------------------------------------------------
(***************************************************************************)
(* Lines of model attempts.                                                *)
(***************************************************************************)

\* The ledger after a line of one attempt.
Holds(r, attempt) ==
    /\ mem' \in Mem /\ mem'.scan = mem.scan /\ mem'.searches = mem.searches
    /\ mem'.bound = mem.bound /\ mem'.attempts[r] = attempt
    /\ \A q \in Roles \ {r} : mem'.attempts[q] = mem.attempts[q]
    /\ limit' = limit /\ closings' \in Nat /\ faults' \in Nat
    /\ (faults' = 0 => faults = 0) /\ LineOK' /\ CloseOK'

\* A line about an attempt leaves the scan and the searches alone.
LEMMA AttemptLine ==
    ASSUME Inv, NEW event, event \notin Terminals, event # "none", NEW r \in Roles,
           NEW attempt \in Attempt, attempt.status # "none", NEW ok \in BOOLEAN,
           Appended(event, [mem EXCEPT !.attempts[r] = attempt], ok),
           pc \notin {"fail", "drop", "ended", "gone"}, pc' \notin {"ended", "send"},
           sent' = sent, replied' = replied, started' \in {started, started \cup {r}},
           ok \/ started' = started
    PROVE  Holds(r, attempt)
<1>1. mem \in Mem
  BY DEF Inv, TypeOK
<1>2. [mem EXCEPT !.attempts[r] = attempt] \in Mem
  BY <1>1 DEF Mem
<1>3. PICK m \in Mem : m = [mem EXCEPT !.attempts[r] = attempt]
  BY <1>2
<1>4. /\ m.scan = mem.scan /\ m.searches = mem.searches /\ m.bound = mem.bound
      /\ m.terminal = mem.terminal /\ m.attempts[r] = attempt
      /\ \A q \in Roles \ {r} : m.attempts[q] = mem.attempts[q]
  BY <1>1, <1>3 DEF Mem
<1>5. Effect(event, m, ok)
  BY <1>3, AppendedEffect DEF Inv
<1>6. Covers(m)'
  BY <1>4 DEF Inv, TypeOK, LineOK, Covers
<1>7. LineOK' /\ CloseOK'
  BY <1>4, <1>5, <1>6, OpenLine
<1> QED BY <1>4, <1>5, <1>7 DEF Effect, Holds

\* An attempt is in the file before its process is started.
LEMMA ReserveStep ==
    ASSUME Inv, NEW ok \in BOOLEAN, ReserveAttempt(ok)
    PROVE  Inv'
<1> DEFINE r == RoleOf
           attempt == [mem.attempts[r] EXCEPT !.status = "reserved"]
<1>1. /\ pc \in {"plan", "read"} /\ r \in Roles
      /\ pc = "plan" => r = "query_planner"
      /\ pc = "read" => r = "final_reader"
      /\ tracker' = IF ok THEN r ELSE "none"
      /\ pc' = IF ok THEN IF pc = "plan" THEN "planning" ELSE "reading" ELSE "unwind"
      /\ UNCHANGED <<runVars, next, pastVars>>
  BY DEF ReserveAttempt, RoleOf, Roles, Goto
<1>2. TypeOK /\ mem \in Mem
  BY DEF Inv, TypeOK
<1>3. [mem EXCEPT !.attempts[r].status = "reserved"] = [mem EXCEPT !.attempts[r] = attempt]
  BY <1>1, <1>2 DEF Mem
<1> HIDE DEF r
<1>4. attempt \in Attempt /\ attempt.status = "reserved"
  BY <1>1, <1>2 DEF Mem, Attempt
<1> HIDE DEF attempt
<1>5. CASE ~ok /\ UNCHANGED ledgerVars
  <2>1. tracker = "none"
    BY <1>1 DEF Inv, TrackOK, Failing
  <2> QED BY <1>1, <1>5, <2>1, Unwinds DEF Still, Inv, TypeOK
<1>6. CASE Appended("model_attempt_reserved", [mem EXCEPT !.attempts[r] = attempt], ok)
  <2>1. Holds(r, attempt)
    BY <1>1, <1>4, <1>6, AttemptLine DEF Terminals, pastVars
  <2>2. TypeOK' /\ RoomOK' /\ TrackOK'
    BY <1>1, <1>4, <2>1 DEF Holds, Inv, TypeOK, RoomOK, TrackOK, runVars, pastVars, Places,
       Planned, Late, Failing, Closing, Preparing, Scanning, Asking
  <2>3. ScanOK'
    BY <1>1, <2>1 DEF Holds, Inv, ScanOK, runVars, pastVars, Planned, Late, Failing, Preparing,
       Scanning, Asking
  <2>4. DoneOK'
    <3>1. CASE pc = "plan"
      BY <1>1, <1>4, <2>1, <3>1 DEF Holds, Inv, DoneOK, Untouched, Finished, Tracked, InRead,
         runVars, pastVars, Places, Planned, Late, Failing, Closing, Preparing, Scanning,
            Asking, Roles
    <3>2. CASE pc = "read"
      BY <1>1, <1>4, <2>1, <3>2 DEF Holds, Inv, DoneOK, Untouched, Finished, Tracked, InRead,
         runVars, pastVars, Places, Planned, Late, Failing, Closing, Preparing, Scanning,
            Asking,
         Roles, OpenSearch
    <3> QED BY <1>1, <3>1, <3>2
  <2> QED BY <2>1, <2>2, <2>3, <2>4 DEF Holds, Inv
<1> QED BY <1>3, <1>5, <1>6 DEF ReserveAttempt, Reserve, Operation, Refused, r

\* A line about the attempt of the session that runs.
LEMMA ReportStep ==
    ASSUME Inv, NEW ok \in BOOLEAN, InSession, NEW attempt \in Attempt,
           Update(RoleOf, attempt, ok), UNCHANGED <<runVars, next, sent, replied, squeezed>>,
           started' \in {started, started \cup {RoleOf}}, ok \/ started' = started,
           \/ /\ ~ok /\ tracker' = tracker
              /\ pc' \in {"attempt failed", "unwind"}
           \/ /\ ok /\ pc' = pc /\ tracker' = tracker
              /\ attempt.status \in {"reserved", "running", "process_completed"}
              /\ attempt.status = "reserved" => RoleOf \notin started'
              /\ attempt.status = "process_completed" => RoleOf \in started'
           \/ /\ ok /\ pc' = After /\ tracker' = "none"
              /\ attempt.status = "completed" /\ RoleOf \in started',
           attempt.status # "none"
    PROVE  Inv'
<1> DEFINE r == RoleOf
<1>1. /\ pc \in {"planning", "reading"} /\ r \in Roles
      /\ pc = "planning" => r = "query_planner" /\ After = "search"
      /\ pc = "reading" => r = "final_reader" /\ After = "close"
      /\ tracker = r
  BY DEF InSession, RoleOf, Roles, After, Inv, TrackOK
<1> HIDE DEF r
<1>2. CASE ~ok /\ UNCHANGED ledgerVars
  <2>1. Still
    BY <1>2 DEF Still, pastVars
  <2>2. pc' \in {"attempt failed", "unwind"} /\ tracker' = tracker
    BY <1>2
  <2> QED BY <1>1, <2>1, <2>2, Unwinds, AttemptFails DEF Inv, TypeOK
<1>3. CASE Appended("model_attempt_updated", [mem EXCEPT !.attempts[r] = attempt], ok)
  <2>0. pc' \in {"attempt failed", "unwind", "planning", "reading", "search", "close"}
    BY <1>1
  <2>1. Holds(r, attempt)
    <3>1. started' \in {started, started \cup {r}}
      BY DEF r
    <3>2. pc \notin {"fail", "drop", "ended", "gone"} /\ pc' \notin {"ended", "send"}
      BY <1>1, <2>0
    <3>3. "model_attempt_updated" \notin Terminals
      BY DEF Terminals
    <3>4. sent' = sent /\ replied' = replied /\ (ok \/ started' = started)
      OBVIOUS
    <3> QED BY ONLY Inv, ok \in BOOLEAN, attempt \in Attempt, attempt.status # "none",
               <1>1, <1>3, <3>1, <3>2, <3>3, <3>4, AttemptLine
  <2>2. TypeOK' /\ RoomOK'
    BY <1>1, <2>0, <2>1 DEF Holds, Inv, TypeOK, RoomOK, runVars, Places,
       Planned, Late, Failing, Closing, Preparing, Scanning, Asking, r
  <2>3. TrackOK'
    BY <1>1, <2>0, <2>1 DEF Holds, Inv, TypeOK, TrackOK, Failing, Roles
  <2>4. ScanOK'
    BY <1>1, <2>0, <2>1 DEF Holds, Inv, ScanOK, runVars, Planned, Late, Failing, Preparing,
       Scanning, Asking
  <2>5. DoneOK'
    <3>1. CASE pc = "planning"
      BY <1>1, <2>0, <2>1, <3>1 DEF Holds, Inv, DoneOK, Untouched, Finished, Tracked, InRead,
         runVars, Places, Planned, Late, Failing, Closing, Preparing, Scanning, Asking, Roles, r
    <3>2. CASE pc = "reading"
      BY <1>1, <2>0, <2>1, <3>2 DEF Holds, Inv, DoneOK, Untouched, Finished, Tracked, InRead,
         runVars, Places, Planned, Late, Failing, Closing, Preparing, Scanning, Asking, Roles, r
    <3> QED BY <1>1, <3>1, <3>2
  <2> QED BY <2>1, <2>2, <2>3, <2>4, <2>5 DEF Holds, Inv
<1> QED BY <1>2, <1>3 DEF Update, Operation, Refused, r

\* What a session reports of its attempt.
LEMMA SessionStep ==
    ASSUME Inv, NEW ok \in BOOLEAN,
           Running(ok) \/ Observe(ok) \/ ProcessCompleted(ok) \/ FinishAttempt(ok)
    PROVE  Inv'
<1>1. /\ InSession /\ RoleOf \in Roles /\ Own \in Attempt /\ Own.status # "none"
      /\ Own.status = "process_completed" => RoleOf \in started
      /\ Own.status = "reserved" => RoleOf \notin started
      /\ Own.status \in {"reserved", "running", "process_completed"}
  <2>1. InSession /\ RoleOf \in Roles
    BY DEF Running, Observe, ProcessCompleted, FinishAttempt, InTurn, RoleOf, Roles
  <2>2. Own \in Attempt
    BY <2>1 DEF Own, Inv, TypeOK, Mem
  <2>3. CASE pc = "planning"
    <3>1. RoleOf = "query_planner" /\ Tracked("query_planner")
      BY <2>3 DEF RoleOf, Inv, DoneOK
    <3> QED BY <2>1, <2>2, <3>1 DEF Own, Tracked
  <2>4. CASE pc = "reading"
    <3>1. RoleOf = "final_reader" /\ Tracked("final_reader")
      BY <2>4 DEF RoleOf, Inv, DoneOK, InRead
    <3> QED BY <2>1, <2>2, <3>1 DEF Own, Tracked
  <2> QED BY <2>1, <2>3, <2>4 DEF InSession
<1>2. CASE Running(ok)
  <2> DEFINE attempt == [Own EXCEPT !.status = "running"]
  <2>1. attempt \in Attempt /\ attempt.status = "running"
    BY <1>1 DEF Attempt
  <2>2. /\ Update(RoleOf, attempt, ok) /\ pc' = (IF ok THEN pc ELSE "attempt failed")
        /\ UNCHANGED <<runVars, next, tracker, sent, replied, squeezed>>
        /\ started' = IF ok THEN started \cup {RoleOf} ELSE started
    BY <1>2 DEF Running, Report
  <2> HIDE DEF attempt
  <2> QED BY <1>1, <2>1, <2>2, ReportStep
<1>3. ASSUME NEW attempt \in Attempt, Report(attempt, ok), UNCHANGED pastVars,
             \/ attempt.status = Own.status
             \/ attempt.status = "process_completed" /\ RoleOf \in started
      PROVE  Inv'
  <2>1. /\ Update(RoleOf, attempt, ok) /\ pc' = (IF ok THEN pc ELSE "attempt failed")
        /\ UNCHANGED <<runVars, next, tracker, sent, replied, squeezed, started>>
    BY <1>3 DEF Report, pastVars
  <2>2. /\ attempt.status \in {"reserved", "running", "process_completed"}
        /\ attempt.status = "reserved" => RoleOf \notin started
        /\ attempt.status = "process_completed" => RoleOf \in started
    BY <1>1, <1>3
  <2>3. attempt.status # "none"
    BY <2>2
  <2> QED BY <1>1, <2>1, <2>2, <2>3, ReportStep
<1>4. CASE Observe(ok)
  <2>1. /\ [Own EXCEPT !.thread = TRUE] \in Attempt /\ [Own EXCEPT !.turn = TRUE] \in Attempt
        /\ [Own EXCEPT !.usage = TRUE] \in Attempt
        /\ [Own EXCEPT !.thread = TRUE].status = Own.status
        /\ [Own EXCEPT !.turn = TRUE].status = Own.status
        /\ [Own EXCEPT !.usage = TRUE].status = Own.status
    BY <1>1 DEF Attempt
  <2> QED BY <1>3, <1>4, <2>1 DEF Observe
<1>5. CASE ProcessCompleted(ok)
  <2>1. /\ [Own EXCEPT !.status = "process_completed"] \in Attempt
        /\ [Own EXCEPT !.status = "process_completed"].status = "process_completed"
    BY <1>1 DEF Attempt
  <2>2. RoleOf \in started
    BY <1>5 DEF ProcessCompleted, InTurn
  <2> QED BY <1>3, <1>5, <2>1, <2>2 DEF ProcessCompleted
<1>6. CASE FinishAttempt(ok)
  <2> DEFINE c == Own.thread /\ Own.turn /\ Own.usage
             attempt == [Own EXCEPT !.status = "completed", !.complete = c]
  <2>1. FinishedAttempt(Own, FALSE) = attempt
    BY DEF FinishedAttempt
  <2>2. c \in BOOLEAN
    OBVIOUS
  <2> HIDE DEF c
  <2>3. attempt \in Attempt /\ attempt.status = "completed"
    BY <1>1, <2>2 DEF Attempt
  <2>4. /\ Update(RoleOf, attempt, ok) /\ Own.status = "process_completed"
        /\ tracker' = (IF ok THEN "none" ELSE tracker)
        /\ pc' = (IF ok THEN After ELSE "unwind")
        /\ UNCHANGED <<runVars, next, sent, replied, squeezed, started>>
    BY <1>6, <2>1 DEF FinishAttempt, Goto, pastVars
  <2> HIDE DEF attempt
  <2> QED BY <1>1, <2>3, <2>4, ReportStep
<1> QED BY <1>2, <1>4, <1>5, <1>6

\* The end of a tracker: its attempt has failed, or it is dropped.
LEMMA TrackerStep ==
    ASSUME Inv, NEW ok \in BOOLEAN, FailAttempt(ok) \/ Unwind(ok)
    PROVE  Inv'
<1>1. /\ UNCHANGED <<runVars, next, pastVars>> /\ tracker' \in {tracker, "none"}
      /\ \/ pc = "attempt failed" /\ pc' = "unwind" /\ tracker # "none"
         \/ pc = "unwind" /\ pc' = next /\ tracker' = "none"
  BY DEF FailAttempt, Unwind, Inv, TrackOK
<1>2. next \in {"fail", "drop"} /\ mem \in Mem
  BY DEF Inv, TypeOK
<1>3. CASE UNCHANGED ledgerVars
  <2>1. LineOK' /\ CloseOK'
    BY <1>1, <1>2, <1>3, StillClose DEF Still
  <2> QED BY <1>1, <1>2, <1>3, <2>1 DEF ledgerVars, runVars, pastVars, Inv, TypeOK, RoomOK,
             ScanOK, TrackOK, DoneOK, Places, Planned, Late, Failing, Closing, Preparing,
                Scanning,
             Asking, Untouched, Finished, Tracked, InRead
<1>4. ASSUME NEW attempt \in Attempt, attempt.status \in {"failed", "interrupted"},
             Update(tracker, attempt, ok), tracker # "none"
      PROVE  Inv'
  <2>1. tracker \in Roles
    BY <1>4 DEF Inv, TypeOK
  <2>2. CASE Appended("model_attempt_updated", [mem EXCEPT !.attempts[tracker] = attempt], ok)
    <3>1. Holds(tracker, attempt)
      BY <1>1, <1>2, <1>4, <2>1, <2>2, AttemptLine DEF Terminals, pastVars
    <3>2. pc' \in {"unwind", "fail", "drop"} /\ (pc' = "unwind" \/ tracker' = "none")
      BY <1>1, <1>2
    <3>3. TypeOK' /\ RoomOK'
      BY <1>1, <3>1, <3>2 DEF Holds, runVars, pastVars, Inv, TypeOK, RoomOK, Places, Closing,
         Preparing, Scanning, Asking
    <3>4. ScanOK'
      BY <1>1, <3>1, <3>2 DEF Holds, runVars, pastVars, Inv, ScanOK, Planned, Late, Failing,
         Preparing, Scanning, Asking
    <3>5. TrackOK'
      BY <1>1, <1>4, <3>1, <3>2 DEF Holds, TrackOK, Failing
    <3>6. DoneOK'
      BY <3>2 DEF DoneOK, InRead, Places, Planned, Late, Failing, Closing, Preparing, Scanning,
         Asking
    <3> QED BY <3>1, <3>3, <3>4, <3>5, <3>6 DEF Holds, Inv
  <2> QED BY <1>3, <1>4, <2>2 DEF Update, Operation, Refused
<1>5. tracker # "none" => tracker \in Roles /\ mem.attempts[tracker] \in Attempt
  BY <1>2 DEF Inv, TypeOK, Mem
<1>6. CASE FailAttempt(ok)
  <2> DEFINE attempt == FinishedAttempt(mem.attempts[tracker], TRUE)
  <2>1. attempt \in Attempt /\ attempt.status = "failed"
    BY <1>1, <1>5, <1>6 DEF FailAttempt, FinishedAttempt, Attempt
  <2>2. Update(tracker, attempt, ok) /\ tracker # "none"
    BY <1>1, <1>6 DEF FailAttempt
  <2> HIDE DEF attempt
  <2> QED BY <1>4, <2>1, <2>2
<1>7. CASE Unwind(ok) /\ tracker # "none"
  <2> DEFINE attempt == [mem.attempts[tracker] EXCEPT !.status = "interrupted",
                                                      !.complete = FALSE]
  <2>1. attempt \in Attempt /\ attempt.status = "interrupted"
    BY <1>5, <1>7 DEF Attempt
  <2>2. Update(tracker, attempt, ok)
    BY <1>7 DEF Unwind
  <2> HIDE DEF attempt
  <2> QED BY <1>4, <1>7, <2>1, <2>2
<1>8. CASE Unwind(ok) /\ tracker = "none"
  BY <1>3, <1>8 DEF Unwind
<1> QED BY <1>6, <1>7, <1>8
---------------------------------------------------------------------------
(***************************************************************************)
(* Lines of the scan.                                                      *)
(***************************************************************************)

InScan == {"scan", "scan failed"} \cup Preparing \cup Scanning

\* The ledger after a line of the scan.
Scans(n) ==
    /\ mem'.scan = n /\ mem'.bound = mem.bound /\ limit' = limit /\ squeezed' = FALSE
    /\ mem.events \in Nat /\ mem'.events \in {mem.events, mem.events + 1}
    /\ TypeOK' /\ TrackOK' /\ DoneOK' /\ LineOK' /\ CloseOK'

\* A line of the scan leaves the attempts and the searches alone.
LEMMA ScanEffect ==
    ASSUME Inv, pc \in InScan, NEW event, event \notin Terminals, event # "none",
           NEW n \in Scan, n.status # "interrupted", sent <= n.attempted, NEW ok \in BOOLEAN,
           Appended(event, [mem EXCEPT !.scan = n], ok), squeezed' = FALSE,
           UNCHANGED <<runVars, next, tracker, sent, started>>, replied' \in Nat,
           pc' \in InScan \cup {"unwind", "plan"}, pc' = "plan" => planned,
           pc' = "send" => ok /\ sent < n.attempted
    PROVE  Scans(n)
<1>1. mem \in Mem /\ mem.events \in Nat
  BY DEF Inv, TypeOK, Mem
<1>2. [mem EXCEPT !.scan = n] \in Mem
  BY <1>1 DEF Mem
<1>3. PICK m \in Mem : m = [mem EXCEPT !.scan = n]
  BY <1>2
<1>4. /\ m.scan = n /\ m.searches = mem.searches /\ m.bound = mem.bound
      /\ m.terminal = mem.terminal /\ m.attempts = mem.attempts /\ m.events = mem.events
  BY <1>1, <1>3 DEF Mem
<1>5. Effect(event, m, ok)
  BY <1>3, AppendedEffect DEF Inv
<1>6. Covers(m)'
  BY <1>4 DEF Inv, TypeOK, LineOK, Covers
<1>7. LineOK' /\ CloseOK'
  <2>1. pc \notin {"fail", "drop", "ended", "gone"} /\ pc' # "ended"
    BY DEF InScan, Preparing, Scanning, Asking
  <2> QED BY <1>4, <1>5, <1>6, <2>1, OpenLine
<1>8. /\ mem' \in Mem /\ mem'.attempts = mem.attempts /\ mem'.searches = mem.searches
      /\ mem'.scan = n /\ mem'.bound = mem.bound /\ limit' = limit
      /\ mem'.events \in {mem.events, mem.events + 1}
      /\ closings' \in Nat /\ faults' \in Nat
  BY <1>4, <1>5 DEF Effect
<1>9. TypeOK' /\ TrackOK'
  BY <1>8 DEF Inv, TypeOK, TrackOK, runVars, InScan, Places, Planned, Late, Failing, Closing,
     Preparing, Scanning, Asking
<1>10. DoneOK'
  BY <1>8 DEF Inv, DoneOK, Untouched, Finished, Tracked, InRead, runVars, InScan, Places,
     Planned, Late, Failing, Closing, Preparing, Scanning, Asking
<1> QED BY <1>1, <1>7, <1>8, <1>9, <1>10 DEF Scans

\* No line of an admitted scan meets the limit.
LEMMA NotSqueezed ==
    ASSUME Inv, pc \in InScan, NEW event, NEW n, NEW ok \in BOOLEAN, ScanLine(event, n, ok)
    PROVE  squeezed' = FALSE
<1>1. mem.scan.batches # <<>> => mem.events # limit
  <2>1. CASE pc \in Scanning
    <3>1. mem.events < limit /\ mem.events \in Nat /\ limit \in Nat
      BY <2>1, LeftOver DEF Inv, TypeOK, Mem
    <3> QED BY <3>1
  <2>2. CASE pc \in {"scan", "scan failed"} \cup Preparing
    <3>1. mem.events \in Nat /\ limit \in Nat
      BY DEF Inv, TypeOK, Mem
    <3>2. mem.scan.batches # <<>> => mem.events < limit
      BY <2>2 DEF Inv, RoomOK, Preparing
    <3> QED BY <3>1, <3>2
  <2> QED BY <2>1, <2>2 DEF InScan
<1>2. squeezed = FALSE
  BY DEF Inv, RoomOK
<1> QED BY <1>1, <1>2 DEF ScanLine

\* The batches remain a sequence of the same length.
LEMMA BatchesKept ==
    ASSUME NEW b \in Seq(Batch), NEW i \in 1..Len(b), NEW x \in Batch
    PROVE  [b EXCEPT ![i] = x] \in Seq(Batch) /\ Len([b EXCEPT ![i] = x]) = Len(b)
OBVIOUS

\* The batches of a scan that has not been admitted.
LEMMA NoBatches == <<>> \in Seq(Batch)
OBVIOUS

\* The first line of the scan.
LEMMA StartScanStep ==
    ASSUME Inv, NEW ok \in BOOLEAN, StartScan(ok)
    PROVE  Inv'
<1> DEFINE n == [NoScan EXCEPT !.status = "running"]
<1>1. /\ pc = "scan" /\ pc' = IF ok THEN "prepare" ELSE "unwind"
      /\ UNCHANGED <<runVars, next, tracker, pastVars>>
  BY DEF StartScan, Step, Goto
<1>2. /\ n \in Scan /\ n.status = "running" /\ n.attempted = 0 /\ n.requests = 0
      /\ n.batches = <<>>
  <2>1. PICK b \in Seq(Batch) : b = <<>>
    BY NoBatches
  <2>2. NoScan = [status |-> "none", batches |-> b, attempted |-> 0, requests |-> 0,
                  metered |-> 0, scanned |-> FALSE]
    BY <2>1 DEF NoScan
  <2>3. n \in Scan /\ n.status = "running" /\ n.attempted = 0 /\ n.requests = 0
        /\ n.batches = b
    BY <2>2 DEF Scan
  <2> QED BY <2>1, <2>3
<1> HIDE DEF n
<1>3. CASE ~ok /\ UNCHANGED ledgerVars
  BY <1>1, <1>3, Unwinds DEF Still, Inv, TypeOK
<1>4. CASE Appended("navigation_started", [mem EXCEPT !.scan = n], ok)
  <2>1. /\ sent = 0 /\ replied = 0 /\ mem.bound /\ navigation /\ squeezed = FALSE
    BY <1>1 DEF Inv, ScanOK, RoomOK
  <2>2. Scans(n)
    <3>1. /\ "navigation_started" \notin Terminals /\ pc \in InScan
          /\ pc' \in InScan \cup {"unwind", "plan"} /\ pc' # "plan" /\ pc' # "send"
      BY <1>1 DEF Terminals, InScan, Preparing
    <3>2. /\ sent <= n.attempted /\ n.status # "interrupted" /\ squeezed' = FALSE
          /\ replied' \in Nat /\ UNCHANGED <<runVars, next, tracker, sent, started>>
      BY <1>1, <1>2, <2>1 DEF pastVars
    <3> QED BY ONLY Inv, ok \in BOOLEAN, <1>2, <1>4, <3>1, <3>2, ScanEffect
  <2>3. RoomOK'
    BY <1>1, <1>2, <2>1, <2>2 DEF Scans, RoomOK, runVars, pastVars, Preparing, Scanning, Asking
  <2>4. ScanOK'
    BY <1>1, <1>2, <2>1, <2>2 DEF Scans, ScanOK, runVars, pastVars, Preparing, Scanning,
       Asking, Planned, Late, Failing
  <2> QED BY <2>2, <2>3, <2>4 DEF Scans, Inv
<1> QED BY <1>3, <1>4 DEF StartScan, ScanEvent, Operation, Refused, n
\* The scan ends with an error: a line of it was not written, or it has recorded why.
LEMMA ScanEnds ==
    ASSUME Inv, pc \in InScan, NEW n \in Scan, Scans(n), UNCHANGED <<runVars, next, tracker>>,
           pc' \in {"scan failed", "unwind"}, mem.events + 1 < limit \/ pc' = "unwind",
           n.requests = replied', replied' <= n.attempted
    PROVE  Inv'
<1>1. mem.events \in Nat /\ limit \in Nat /\ mem'.events \in {mem.events, mem.events + 1}
      /\ limit' = limit /\ mem'.scan = n
  BY DEF Scans, Inv, TypeOK
<1>2. pc' = "scan failed" => mem'.events < limit'
  <2>1. ASSUME mem.events + 1 < limit PROVE mem'.events < limit'
    BY ONLY <1>1, <2>1
  <2> QED BY <2>1
<1>3. RoomOK'
  BY <1>2 DEF Scans, RoomOK, Preparing, Scanning, Asking
<1>4. ScanOK'
  BY <1>1 DEF ScanOK, Planned, Late, Failing, Preparing, Scanning, Asking
<1> QED BY <1>3, <1>4 DEF Scans, Inv

\* The ledger's conditions hold for a line that keeps the counts in order.
LEMMA ScanAllowed ==
    ASSUME Inv, NEW event, NEW n, NEW ok \in BOOLEAN, ScanEvent(event, n, ok),
           pc \in Scanning, n.attempted \in {mem.scan.attempted, mem.scan.attempted + 1},
           n.requests \in {mem.scan.requests, mem.scan.requests + 1},
           n.requests <= n.attempted, n.attempted <= Len(n.batches)
    PROVE  Appended(event, [mem EXCEPT !.scan = n], ok)
<1>1. ~mem.terminal /\ mem.bound
  BY DEF Inv, CloseOK, ScanOK, Scanning, Asking
<1>2. mem.scan.attempted \in Nat /\ mem.scan.requests \in Nat
  BY DEF Inv, TypeOK, Mem, Scan
<1>3. ~Regressed(n)
  BY <1>2 DEF Regressed
<1> QED BY <1>1, <1>3 DEF ScanEvent, Operation

\* Admission leaves room for three lines of each batch and two more.
LEMMA AdmitStep ==
    ASSUME Inv, NEW ok \in BOOLEAN, Admit(ok)
    PROVE  Inv'
<1> DEFINE b == [i \in 1..batches |-> "prepared"]
           n == [mem.scan EXCEPT !.batches = b]
<1>1. /\ pc = "admit" /\ pc' = IF ok THEN "before" ELSE "scan failed"
      /\ UNCHANGED <<runVars, next, tracker, sent, replied, started>>
  BY DEF Admit, ScanStep
<1>2. mem.scan \in Scan /\ batches \in Nat /\ mem.events \in Nat /\ limit \in Nat
      /\ replied \in Nat
  BY DEF Inv, TypeOK, Mem
<1>3. b \in Seq(Batch) /\ Len(b) = batches
  BY <1>2 DEF Batch
<1>4. IF RoomFor(batches) THEN ScanLine("navigation_admitted", n, ok)
                          ELSE Refused(ok) /\ UNCHANGED squeezed
  BY DEF Admit
<1> HIDE DEF b
<1>5. /\ n \in Scan /\ n.status = mem.scan.status /\ n.attempted = mem.scan.attempted
      /\ n.requests = mem.scan.requests /\ n.batches = b
  BY <1>2, <1>3 DEF Scan
<1>6. /\ sent = 0 /\ replied = 0 /\ mem.scan.attempted = 0 /\ mem.scan.requests = 0
      /\ mem.scan.status = "running" /\ navigation /\ squeezed = FALSE
      /\ mem.bound
  BY <1>1, <1>2 DEF Inv, ScanOK, RoomOK, Preparing
<1> HIDE DEF n
<1>10. n.attempted = 0 /\ n.requests = 0 /\ sent = 0 /\ replied = 0 /\ replied' = 0
  BY <1>1, <1>5, <1>6
<1>7. CASE ~ok /\ UNCHANGED ledgerVars /\ squeezed' = FALSE
  <2>1. Still
    BY <1>1, <1>6, <1>7 DEF Still, pastVars
  <2> QED BY <1>1, <1>7, <2>1, ScanFails DEF Preparing
<1>8. CASE /\ Appended("navigation_admitted", [mem EXCEPT !.scan = n], ok)
           /\ squeezed' = FALSE /\ RoomFor(batches)
  <2>1. Scans(n)
    <3>1. /\ "navigation_admitted" \notin Terminals /\ pc \in InScan
          /\ pc' \in InScan \cup {"unwind", "plan"} /\ pc' # "plan" /\ pc' # "send"
      BY <1>1 DEF Terminals, InScan, Preparing, Scanning
    <3>2. /\ n.status # "interrupted" /\ squeezed' = FALSE
          /\ replied' \in Nat /\ UNCHANGED <<runVars, next, tracker, sent, started>>
      BY <1>1, <1>2, <1>5, <1>6, <1>8
    <3>3. sent <= n.attempted
      BY ONLY <1>10
    <3> QED BY ONLY Inv, ok \in BOOLEAN, <1>5, <1>8, <3>1, <3>2, <3>3, ScanEffect
  <2>2. mem.events + 3 * batches + 2 < limit
    BY <1>8 DEF RoomFor
  <2>3. CASE ~ok
    <3>1. mem.events + 1 < limit
      BY <1>2, <2>2
    <3>2. n.requests = replied' /\ replied' <= n.attempted
      BY ONLY <1>10
    <3>3. pc \in InScan /\ pc' \in {"scan failed", "unwind"}
      BY <1>1, <2>3 DEF InScan, Preparing
    <3> QED BY <1>1, <1>5, <2>1, <3>1, <3>2, <3>3, ScanEnds
  <2>4. CASE ok
    <3>0. /\ mem'.scan = n /\ limit' = limit /\ batches' = batches /\ pc' = "before"
          /\ mem'.events \in {mem.events, mem.events + 1} /\ sent' = sent
          /\ replied' = replied /\ squeezed' = FALSE /\ mem'.bound = mem.bound
          /\ navigation' = navigation
      BY <1>1, <2>1, <2>4 DEF Scans, runVars
    <3>1. mem'.events + 3 * batches + 1 < limit
      BY <1>2, <2>2, <3>0
    <3>2. Left' = 3 * batches
      BY <1>2, <1>5, <1>6, <3>0 DEF Left
    <3>3. RoomOK'
      BY <1>2, <1>5, <1>6, <3>0, <3>1, <3>2 DEF RoomOK, Preparing, Scanning, Asking
    <3>4. ScanOK'
      BY <1>2, <1>3, <1>5, <1>6, <3>0 DEF ScanOK, Preparing, Scanning, Asking, Planned,
         Late, Failing
    <3> QED BY <2>1, <3>3, <3>4 DEF Scans, Inv
  <2> QED BY <2>3, <2>4
<1>9. ScanLine("navigation_admitted", n, ok) => squeezed' = FALSE
  <2>1. pc \in InScan
    BY <1>1 DEF InScan, Preparing
  <2> QED BY <2>1, NotSqueezed
<1> QED BY <1>4, <1>6, <1>7, <1>8, <1>9 DEF ScanLine, ScanEvent, Operation, Refused

\* A line of an admitted scan: it is never refused, and what follows it fits as well.
LEMMA ScanLineStep ==
    ASSUME Inv, pc \in Scanning, NEW event, event \notin Terminals, event # "none",
           NEW n \in Scan, NEW ok \in BOOLEAN, ScanLine(event, n, ok),
           UNCHANGED <<runVars, next, tracker, sent, started>>, replied' = n.requests,
           n.attempted \in {mem.scan.attempted, mem.scan.attempted + 1},
           n.requests \in {mem.scan.requests, mem.scan.requests + 1},
           n.requests <= n.attempted, n.attempted <= batches, Len(n.batches) = batches,
           sent <= n.attempted, n.status \in {"running", "completed"},
           \/ pc' = "scan failed"
           \/ /\ ok /\ n.status = "running"
              /\ \/ /\ pc = "before" /\ pc' = "send"
                    /\ n.attempted = mem.scan.attempted + 1
                    /\ n.requests = mem.scan.requests
                 \/ /\ pc = "await" /\ pc' = "score"
                    /\ n.attempted = mem.scan.attempted
                    /\ n.requests = mem.scan.requests + 1
                 \/ /\ pc = "score" /\ pc' = "before"
                    /\ n.attempted = mem.scan.attempted
                    /\ n.requests = mem.scan.requests
           \/ /\ ok /\ n.status = "completed" /\ pc = "before" /\ pc' = "plan"
              /\ n.attempted = mem.scan.attempted /\ n.attempted = batches
              /\ n.requests = mem.scan.requests
    PROVE  Inv'
<1>1. /\ mem.scan.attempted \in Nat /\ mem.scan.requests \in Nat /\ batches \in Nat
      /\ mem.events \in Nat /\ limit \in Nat /\ sent \in Nat /\ replied \in Nat
      /\ n.attempted \in Nat /\ n.requests \in Nat
  BY DEF Inv, TypeOK, Mem, Scan
<1>2. Appended(event, [mem EXCEPT !.scan = n], ok)
  BY ScanAllowed DEF ScanLine
<1>3. pc \in InScan
  BY DEF InScan
<1>4. squeezed' = FALSE
  BY <1>3, NotSqueezed
<1>5. /\ mem.scan.requests = replied /\ navigation /\ planned /\ mem.bound
      /\ pc \in {"before", "score"} => mem.scan.attempted = sent /\ replied = sent
      /\ pc = "await" => mem.scan.attempted = sent /\ replied + 1 = sent
  BY DEF Inv, TypeOK, RoomOK, ScanOK, Scanning, Asking
<1>6. Scans(n)
  <2>1. /\ n.status # "interrupted" /\ replied' \in Nat
        /\ pc' \in InScan \cup {"unwind", "plan"} /\ (pc' = "plan" => planned)
    BY <1>1, <1>5 DEF InScan, Scanning, Asking
  <2>2. pc' = "send" => ok /\ sent < n.attempted
    <3>1. CASE pc' = "send"
      <4>1. ok /\ pc = "before" /\ n.attempted = mem.scan.attempted + 1
        BY <3>1
      <4>2. sent = mem.scan.attempted
        BY <1>5, <4>1
      <4> QED BY <1>1, <4>1, <4>2
    <3> QED BY <3>1
  <2>3. /\ event \notin Terminals /\ event # "none" /\ n \in Scan /\ ok \in BOOLEAN
        /\ sent <= n.attempted /\ UNCHANGED <<runVars, next, tracker, sent, started>>
    OBVIOUS
  <2> QED BY ONLY Inv, <1>2, <1>3, <1>4, <2>1, <2>2, <2>3, ScanEffect
<1>7. /\ mem'.scan = n /\ limit' = limit /\ batches' = batches /\ sent' = sent
      /\ mem'.events \in {mem.events, mem.events + 1} /\ mem'.bound = mem.bound
      /\ replied' = n.requests /\ squeezed' = FALSE /\ navigation' = navigation
  BY <1>4, <1>6 DEF Scans, runVars
<1>8. Left \in Nat /\ mem.events + Left + 1 < limit /\ mem.events + 1 < limit
  BY LeftOver
<1>14. Left' \in Nat
  <2>1. n.attempted <= batches
    OBVIOUS
  <2>2. batches - n.attempted \in Nat
    BY ONLY <1>1, <2>1
  <2>3. Left' = 3 * (batches - n.attempted)
    BY <1>7 DEF Left
  <2> QED BY ONLY <2>2, <2>3
<1>9. CASE pc' = "scan failed"
  <2>1. n.requests = replied' /\ replied' <= n.attempted /\ pc' \in {"scan failed", "unwind"}
    BY <1>7, <1>9
  <2> QED BY <1>3, <1>6, <1>8, <2>1, ScanEnds
<1>10. CASE pc = "before" /\ pc' = "send"
  <2>1. n.attempted = mem.scan.attempted + 1 /\ n.requests = mem.scan.requests
        /\ n.status = "running"
    BY <1>10
  <2>2. Left' = Left - 3 /\ n.attempted = sent + 1 /\ n.requests = sent
    BY <1>1, <1>5, <1>7, <1>10, <2>1 DEF Left
  <2>3. mem'.events + Left' + 3 < limit
    <3>1. PICK l \in Nat : l = Left'
      BY <1>14
    <3>2. mem'.events + l + 3 < limit
      BY ONLY <1>1, <1>7, <1>8, <2>2, <3>1
    <3> QED BY <3>1, <3>2
  <2>4. RoomOK'
    BY <1>5, <1>7, <1>10, <2>3 DEF RoomOK, Preparing, Scanning, Asking
  <2>5. ScanOK'
    BY <1>1, <1>5, <1>7, <1>10, <2>1, <2>2 DEF ScanOK, Preparing, Scanning, Asking, Planned,
       Late, Failing
  <2> QED BY <1>6, <2>4, <2>5 DEF Scans, Inv
<1>11. CASE pc = "await" /\ pc' = "score"
  <2>1. n.attempted = mem.scan.attempted /\ n.requests = mem.scan.requests + 1
        /\ n.status = "running"
    BY <1>11
  <2>2. Left' = Left /\ n.attempted = sent /\ n.requests = sent
    BY <1>1, <1>5, <1>7, <1>11, <2>1 DEF Left
  <2>3. mem.events + Left + 3 < limit
    BY <1>11 DEF Inv, RoomOK, Asking
  <2>4. mem'.events + Left' + 2 < limit
    <3>1. PICK l \in Nat : l = Left'
      BY <1>14
    <3>2. mem'.events + l + 2 < limit
      BY ONLY <1>1, <1>7, <1>8, <2>2, <2>3, <3>1
    <3> QED BY <3>1, <3>2
  <2>5. RoomOK'
    BY <1>5, <1>7, <1>11, <2>4 DEF RoomOK, Preparing, Scanning, Asking
  <2>6. ScanOK'
    BY <1>1, <1>5, <1>7, <1>11, <2>1, <2>2 DEF ScanOK, Preparing, Scanning, Asking, Planned,
       Late, Failing
  <2> QED BY <1>6, <2>5, <2>6 DEF Scans, Inv
<1>12. CASE pc = "score" /\ pc' = "before"
  <2>1. n.attempted = mem.scan.attempted /\ n.requests = mem.scan.requests
        /\ n.status = "running"
    BY <1>12
  <2>2. Left' = Left /\ n.attempted = sent /\ n.requests = sent
    BY <1>1, <1>5, <1>7, <1>12, <2>1 DEF Left
  <2>3. mem.events + Left + 2 < limit
    BY <1>12 DEF Inv, RoomOK
  <2>4. mem'.events + Left' + 1 < limit
    <3>1. PICK l \in Nat : l = Left'
      BY <1>14
    <3>2. mem'.events + l + 1 < limit
      BY ONLY <1>1, <1>7, <1>8, <2>2, <2>3, <3>1
    <3> QED BY <3>1, <3>2
  <2>5. RoomOK'
    BY <1>5, <1>7, <1>12, <2>4 DEF RoomOK, Preparing, Scanning, Asking
  <2>6. ScanOK'
    BY <1>1, <1>5, <1>7, <1>12, <2>1, <2>2 DEF ScanOK, Preparing, Scanning, Asking, Planned,
       Late, Failing
  <2> QED BY <1>6, <2>5, <2>6 DEF Scans, Inv
<1>13. CASE pc = "before" /\ pc' = "plan"
  <2>1. n.attempted = mem.scan.attempted /\ n.requests = mem.scan.requests
        /\ n.status = "completed" /\ n.attempted = batches
    BY <1>13
  <2>2. n.attempted = sent /\ n.requests = sent /\ sent = batches
    BY <1>5, <1>13, <2>1
  <2>3. RoomOK'
    BY <1>7, <1>13 DEF RoomOK, Preparing, Scanning, Asking
  <2>4. ScanOK'
    BY <1>1, <1>5, <1>7, <1>13, <2>1, <2>2 DEF ScanOK, Preparing, Scanning, Asking, Planned,
       Late, Failing
  <2> QED BY <1>6, <2>3, <2>4 DEF Scans, Inv
<1> QED BY <1>9, <1>10, <1>11, <1>12, <1>13

\* A scan that has been admitted and not ended.
Live ==
    /\ mem.scan \in Scan /\ mem.scan.batches \in Seq(Batch)
    /\ Len(mem.scan.batches) = batches /\ mem.scan.status = "running"
    /\ batches \in Nat /\ mem.scan.attempted \in 0..batches /\ sent \in Nat
    /\ mem.scan.requests \in Nat /\ mem.scan.requests <= mem.scan.attempted
    /\ mem.scan.requests = replied /\ mem.scan.metered \in Nat
    /\ sent <= mem.scan.attempted
    /\ pc = "await" => replied + 1 = sent /\ sent = mem.scan.attempted

\* Inv, for a scan that has been admitted.
LEMMA InScanning ==
    ASSUME Inv, pc \in Scanning
    PROVE  Live
<1>1. mem.scan \in Scan /\ mem.scan.batches \in Seq(Batch) /\ batches \in Nat
      /\ mem.scan.attempted \in Nat /\ mem.scan.requests \in Nat /\ sent \in Nat
      /\ mem.scan.metered \in Nat
  BY DEF Inv, TypeOK, Mem, Scan
<1>2. mem.scan.attempted <= batches /\ Len(mem.scan.batches) = batches
      /\ mem.scan.status = "running" /\ mem.scan.requests = replied
      /\ replied <= mem.scan.attempted /\ sent <= mem.scan.attempted
      /\ (pc = "await" => replied + 1 = sent /\ sent = mem.scan.attempted)
  BY DEF Inv, RoomOK, ScanOK, LineOK, Covers
<1>3. mem.scan.attempted \in 0..batches
  BY ONLY <1>1, <1>2
<1> QED BY <1>1, <1>2, <1>3 DEF Live

\* The lines of a call of the scan, up to its failure or its reply.
LEMMA CallStep ==
    ASSUME Inv, NEW ok \in BOOLEAN, BeforeCall(ok) \/ CallFails(ok) \/ Score(ok)
    PROVE  Inv'
<1> DEFINE a == mem.scan.attempted
<1>1. pc \in Scanning
  BY DEF BeforeCall, CallFails, Score, Scanning, Asking
<1>0. Live
  BY <1>1, InScanning
<1>5. /\ a \in Nat /\ a <= batches /\ batches \in Nat /\ sent \in Nat
      /\ mem.scan.requests \in Nat /\ mem.scan.requests <= a
      /\ mem.scan.requests = replied /\ sent <= a
  BY <1>0 DEF Live
<1>2. CASE BeforeCall(ok)
  <2> DEFINE b == [mem.scan.batches EXCEPT ![a + 1] = "reserved"]
             n == [mem.scan EXCEPT !.batches = b, !.attempted = a + 1]
  <2>1. a + 1 \in 1..batches
    BY <1>0, <1>2 DEF Live, BeforeCall, Current
  <2>2. b \in Seq(Batch) /\ Len(b) = batches
    BY <1>0, <2>1, BatchesKept DEF Live, Batch
  <2>3. /\ ScanLine("navigation_before_call", n, ok) /\ pc = "before"
        /\ pc' = IF ok THEN "send" ELSE "scan failed"
        /\ UNCHANGED <<runVars, next, tracker, sent, replied, started>>
    BY <1>2 DEF BeforeCall, Current, ScanStep
  <2> HIDE DEF b
  <2>4. /\ n \in Scan /\ n.status = "running" /\ n.requests = mem.scan.requests
        /\ n.attempted = a + 1 /\ n.batches = b
    <3>1. a + 1 \in Nat
      BY ONLY <1>0, <2>1 DEF Live
    <3> QED BY <1>0, <2>2, <3>1 DEF Live, Scan
  <2> HIDE DEF n
  <2>5. n.requests <= n.attempted /\ n.attempted <= batches /\ sent <= n.attempted
        /\ replied' = n.requests
    <3>1. n.requests <= n.attempted /\ n.attempted <= batches /\ sent <= n.attempted
      BY ONLY <1>5, <2>1, <2>4
    <3>2. replied' = n.requests
      BY <1>5, <2>3, <2>4
    <3> QED BY <3>1, <3>2
  <2>6. "navigation_before_call" \notin Terminals /\ "navigation_before_call" # "none"
    BY DEF Terminals
  <2> QED BY ONLY Inv, ok \in BOOLEAN, <1>1, <2>2, <2>3, <2>4, <2>5, <2>6, ScanLineStep
<1>3. ASSUME NEW x \in Batch, pc \in {"await", "score"},
             (pc = "score" /\ ok /\ pc' = "before") \/ pc' = "scan failed",
             ScanLine("navigation_after_call", [mem.scan EXCEPT !.batches[a] = x], ok),
             UNCHANGED <<runVars, next, tracker, sent, replied, started>>
      PROVE  Inv'
  <2> DEFINE b == [mem.scan.batches EXCEPT ![a] = x]
             n == [mem.scan EXCEPT !.batches = b]
  <2>2. b \in Seq(Batch) /\ Len(b) = batches
    <3>1. CASE a \in 1..Len(mem.scan.batches)
      BY <1>0, <3>1, BatchesKept DEF Live
    <3>2. CASE a \notin 1..Len(mem.scan.batches)
      <4>1. b = mem.scan.batches
        BY <1>0, <3>2 DEF Live
      <4> QED BY <1>0, <4>1 DEF Live
    <3> QED BY <3>1, <3>2
  <2>3. ScanLine("navigation_after_call", n, ok)
    BY <1>3
  <2> HIDE DEF b
  <2>4. /\ n \in Scan /\ n.status = "running" /\ n.requests = mem.scan.requests
        /\ n.attempted = a /\ n.batches = b
    BY <1>0, <2>2 DEF Live, Scan
  <2> HIDE DEF n
  <2>5. n.requests <= n.attempted /\ n.attempted <= batches /\ sent <= n.attempted
        /\ replied' = n.requests
    <3>1. n.requests <= n.attempted /\ n.attempted <= batches /\ sent <= n.attempted
      BY ONLY <1>5, <2>4
    <3>2. replied' = n.requests
      BY <1>3, <1>5, <2>4
    <3> QED BY <3>1, <3>2
  <2>6. "navigation_after_call" \notin Terminals /\ "navigation_after_call" # "none"
    BY DEF Terminals
  <2> QED BY ONLY Inv, ok \in BOOLEAN, <1>1, <1>3, <2>2, <2>3, <2>4, <2>5, <2>6, ScanLineStep
<1>4. CASE CallFails(ok)
  BY <1>3, <1>4 DEF CallFails, Current, ScanStep, Batch
<1>6. CASE Score(ok)
  BY <1>3, <1>6 DEF Score, Current, ScanStep, Batch
<1> QED BY <1>2, <1>4, <1>6

\* The line of a reply is never refused.
LEMMA ReplyStep ==
    ASSUME Inv, NEW ok \in BOOLEAN, NEW metered \in BOOLEAN, Reply(metered, ok)
    PROVE  Inv'
<1> DEFINE a == mem.scan.attempted
           b == [mem.scan.batches EXCEPT ![a] = "reply_received"]
           k == mem.scan.metered + (IF metered THEN 1 ELSE 0)
           n == [mem.scan EXCEPT !.batches = b, !.requests = @ + 1, !.metered = k]
<1>1. /\ pc = "await" /\ pc \in Scanning /\ pc' = IF ok THEN "score" ELSE "scan failed"
      /\ replied' = replied + 1 /\ UNCHANGED <<runVars, next, tracker, sent, started>>
      /\ ScanLine("navigation_after_reply", n, ok)
  BY DEF Reply, Current, ScanStep, Scanning, Asking
<1>0. Live
  BY <1>1, InScanning
<1>2. a \in 1..batches
  <2>1. a \in 0..batches /\ replied + 1 = a /\ replied \in Nat
    BY <1>0, <1>1 DEF Live
  <2> QED BY ONLY <2>1
<1>3. b \in Seq(Batch) /\ Len(b) = batches
  BY <1>0, <1>2, BatchesKept DEF Live, Batch
<1>4. k \in Nat
  <2>1. (IF metered THEN 1 ELSE 0) \in Nat
    OBVIOUS
  <2> DEFINE x == IF metered THEN 1 ELSE 0
  <2>3. x \in Nat
    BY <2>1
  <2> HIDE DEF x
  <2>2. mem.scan.metered + x \in Nat
    BY <1>0, <2>3 DEF Live
  <2> QED BY <2>2 DEF x
<1> HIDE DEF b, k
<1>5. /\ n \in Scan /\ n.status = "running" /\ n.requests = mem.scan.requests + 1
      /\ n.attempted = a /\ n.batches = b
  <2>1. mem.scan.requests + 1 \in Nat
    BY <1>0 DEF Live
  <2> QED BY <1>0, <1>3, <1>4, <2>1 DEF Live, Scan
<1> HIDE DEF n
<1>6. n.requests <= n.attempted /\ n.attempted <= batches /\ sent <= n.attempted
      /\ replied' = n.requests
  <2>1. /\ a \in Nat /\ a <= batches /\ batches \in Nat /\ sent \in Nat
        /\ mem.scan.requests \in Nat /\ mem.scan.requests <= a
        /\ mem.scan.requests = replied /\ sent <= a
    BY <1>0 DEF Live
  <2>4. replied + 1 = a
    BY <1>0, <1>1 DEF Live
  <2>2. n.requests <= n.attempted /\ n.attempted <= batches /\ sent <= n.attempted
    BY ONLY <1>5, <2>1, <2>4
  <2>3. replied' = n.requests
    BY <1>1, <1>5, <2>1
  <2> QED BY <2>2, <2>3
<1>7. "navigation_after_reply" \notin Terminals /\ "navigation_after_reply" # "none"
  BY DEF Terminals
<1> QED BY ONLY Inv, ok \in BOOLEAN, <1>1, <1>3, <1>5, <1>6, <1>7, ScanLineStep

\* A scan completes when every batch has been sent and answered.
LEMMA CompleteScanStep ==
    ASSUME Inv, NEW ok \in BOOLEAN, CompleteScan(ok)
    PROVE  Inv'
<1> DEFINE n == [mem.scan EXCEPT !.status = "completed", !.scanned = TRUE]
<1>1. /\ pc = "before" /\ pc \in Scanning /\ mem.scan.attempted = batches
      /\ pc' = IF ok THEN "plan" ELSE "scan failed"
      /\ UNCHANGED <<runVars, next, tracker, sent, replied, started>>
      /\ ScanLine("navigation_completed", n, ok)
  BY DEF CompleteScan, Current, ScanStep, Scanning
<1>0. Live
  BY <1>1, InScanning
<1>2. /\ n \in Scan /\ n.status = "completed" /\ n.requests = mem.scan.requests
      /\ n.attempted = mem.scan.attempted /\ n.batches = mem.scan.batches
  BY <1>0 DEF Live, Scan
<1> HIDE DEF n
<1>3. n.requests <= n.attempted /\ n.attempted <= batches /\ sent <= n.attempted
      /\ replied' = n.requests /\ n.attempted = batches /\ Len(n.batches) = batches
  <2> DEFINE a == mem.scan.attempted
  <2>1. /\ a \in Nat /\ a <= batches /\ batches \in Nat /\ sent \in Nat
        /\ mem.scan.requests \in Nat /\ mem.scan.requests <= a
        /\ mem.scan.requests = replied /\ sent <= a
        /\ Len(mem.scan.batches) = batches
    BY <1>0 DEF Live
  <2>2. n.requests <= n.attempted /\ n.attempted <= batches /\ sent <= n.attempted
    BY ONLY <1>2, <2>1
  <2>3. replied' = n.requests /\ n.attempted = batches /\ Len(n.batches) = batches
    BY <1>1, <1>2, <2>1
  <2> QED BY <2>2, <2>3
<1>4. "navigation_completed" \notin Terminals /\ "navigation_completed" # "none"
  BY DEF Terminals
<1> QED BY ONLY Inv, ok \in BOOLEAN, <1>1, <1>2, <1>3, <1>4, ScanLineStep

\* The line that records the failure of a scan.
LEMMA ScanFailedStep ==
    ASSUME Inv, NEW ok \in BOOLEAN, ScanFailed(ok)
    PROVE  Inv'
<1>1. /\ pc = "scan failed" /\ pc \in InScan /\ pc' = "unwind"
      /\ UNCHANGED <<runVars, next, tracker, sent, replied, started>>
  BY DEF ScanFailed, InScan
<1>2. PICK i \in Nat :
        ScanLine("navigation_failed",
          [mem.scan EXCEPT !.status = "failed",
             !.batches = IF @ = <<>> THEN [j \in 1..i |-> "prepared"] ELSE @], ok)
  <2>1. /\ mem.scan.batches \in Seq(Batch) /\ batches \in Nat
        /\ Len(mem.scan.batches) \in Nat
    BY DEF Inv, TypeOK, Mem, Scan
  <2>2. ASSUME NEW j \in IF mem.scan.batches = <<>> THEN 0..batches
                                                   ELSE {Len(mem.scan.batches)}
        PROVE  j \in Nat
    BY <2>1
  <2> QED BY <2>2 DEF ScanFailed
<1> DEFINE b == IF mem.scan.batches = <<>> THEN [j \in 1..i |-> "prepared"]
                                           ELSE mem.scan.batches
           n == [mem.scan EXCEPT !.status = "failed", !.batches = b]
<1>3. ScanLine("navigation_failed", n, ok)
  BY <1>2
<1>4. mem.scan \in Scan /\ mem.scan.batches \in Seq(Batch)
  BY DEF Inv, TypeOK, Mem, Scan
<1>5. b \in Seq(Batch)
  <2>1. [j \in 1..i |-> "prepared"] \in Seq(Batch)
    BY DEF Batch
  <2> QED BY <1>4, <2>1
<1> HIDE DEF b
<1>6. /\ n \in Scan /\ n.status = "failed" /\ n.requests = mem.scan.requests
      /\ n.attempted = mem.scan.attempted
  BY <1>4, <1>5 DEF Scan
<1> HIDE DEF n
<1>7. squeezed' = FALSE
  BY <1>1, <1>3, NotSqueezed
<1>8. CASE ~ok /\ UNCHANGED ledgerVars
  <2>1. Still
    BY <1>1, <1>7, <1>8 DEF Still, pastVars, Inv, RoomOK
  <2> QED BY <1>1, <2>1, Unwinds DEF Inv, TypeOK
<1>9. CASE Appended("navigation_failed", [mem EXCEPT !.scan = n], ok)
  <2>1. /\ "navigation_failed" \notin Terminals /\ pc \in InScan
        /\ pc' \in InScan \cup {"unwind", "plan"} /\ pc' # "plan" /\ pc' # "send"
    BY <1>1 DEF Terminals
  <2>2. /\ n.status # "interrupted" /\ sent <= n.attempted
        /\ replied' \in Nat /\ UNCHANGED <<runVars, next, tracker, sent, started>>
    BY <1>1, <1>6 DEF Inv, TypeOK, LineOK, Covers
  <2>3. Scans(n)
    BY ONLY Inv, ok \in BOOLEAN, <1>6, <1>7, <1>9, <2>1, <2>2, ScanEffect
  <2>4. n.requests = replied' /\ replied' <= n.attempted
    BY <1>1, <1>6 DEF Inv, ScanOK
  <2> QED BY <1>1, <1>6, <2>3, <2>4, ScanEnds
<1> QED BY <1>3, <1>8, <1>9 DEF ScanLine, ScanEvent, Operation, Refused
---------------------------------------------------------------------------
(***************************************************************************)
(* Closing.                                                                *)
(***************************************************************************)

\* Quiet and Whole of a state that is about to be written.
QuietIn(m) ==
    /\ \A r \in Roles : m.attempts[r].status \notin Open
    /\ \A s \in Searches : m.searches[s].status \in OpenSearch => s = "tool" /\ faults > 0
    /\ m.scan.status # "running"

Settled(m) == \A s \in Searches : m.searches[s].status \notin OpenSearch

WholeIn(m) ==
    /\ sent = replied /\ sent = batches
    /\ m.searches["initial"].status = "delivered"
    /\ started = {r \in Roles : m.attempts[r].status = "completed"}

\* What a closing line may change in the state.
Closes(m) ==
    /\ m \in Mem /\ m.terminal = mem.terminal /\ m.bound = mem.bound /\ QuietIn(m)
    /\ m.scan.attempted = mem.scan.attempted /\ m.scan.requests = mem.scan.requests
    /\ m.scan.status = "interrupted" =>
         \A i \in DOMAIN m.scan.batches : m.scan.batches[i] # "reserved"
    /\ \A r \in Roles : /\ m.attempts[r].status = "none" <=> mem.attempts[r].status = "none"
                        /\ m.attempts[r].status = "completed"
                             <=> mem.attempts[r].status = "completed"
    /\ mem.searches["initial"].status = "delivered" =>
         m.searches["initial"].status = "delivered"

\* A closing line of a ledger that is not closed.
LEMMA FinishLine ==
    ASSUME Inv, NEW event \in Terminals, NEW m, Closes(m), NEW ok \in BOOLEAN,
           Appended(event, m, ok), ~mem.terminal,
           UNCHANGED <<runVars, next, tracker, pastVars>>, pc \in {"close", "fail", "drop"},
           pc' \in {"fail", "drop", "ended"}, ok => pc' \in {"drop", "ended"},
           event # "completed" => Settled(m),
           event = "completed" /\ ~ok => pc' = "fail",
           event = "completed" => /\ WholeIn(m)
                /\ \A r \in Roles : m.attempts[r].status \in {"none", "completed"}
    PROVE  Inv'
<1>1. m \in Mem /\ m.terminal = FALSE /\ m.bound = mem.bound
  <2>1. mem.terminal \in BOOLEAN
    BY DEF Inv, TypeOK, Mem
  <2> QED BY <2>1 DEF Closes
<1>2. Effect(event, m, ok)
  BY <1>1, AppendedEffect DEF Inv
<1>3. /\ Line(event, m).event = event /\ Line(event, m).mem = m /\ event # "none"
      /\ Line(event, m).complete => event = "completed"
  <2>1. Line(event, m).event = event /\ Line(event, m).mem = m
        /\ Line(event, m).complete = (event = "completed" /\ AccountingComplete(m))
    BY DEF Line
  <2> QED BY <2>1 DEF Terminals
<1>4. Covers(m)
  BY DEF Closes, Inv, LineOK, Covers, TypeOK
<1>5. /\ mem'.scan = m.scan /\ mem'.attempts = m.attempts /\ mem'.searches = m.searches
      /\ mem'.bound = m.bound /\ mem' \in Mem
  BY <1>2 DEF Effect
<1>6. /\ sent' = sent /\ replied' = replied /\ started' = started /\ squeezed' = squeezed
      /\ batches' = batches /\ planned' = planned /\ navigation' = navigation
      /\ next' = next /\ tracker' = tracker
  BY DEF runVars, pastVars
<1>7. LineOK'
  <2>1. Covers(mem)' /\ pc' # "send"
    BY <1>4, <1>5, <1>6 DEF Covers
  <2>2. CASE durable' = Line(event, m)
    BY <1>1, <1>3, <1>4, <1>6, <2>1, <2>2 DEF LineOK, Covers
  <2>3. CASE durable' = durable
    BY <1>6, <2>1, <2>3 DEF Inv, LineOK, Covers
  <2> QED BY <1>2, <2>2, <2>3 DEF Effect
<1>8. ok \/ event # "completed" => Quiet'
  <2>1. CASE event # "completed"
    BY <1>5, <2>1 DEF Closes, QuietIn, Settled, OpenSearch, Quiet
  <2>2. CASE ok /\ event = "completed"
    <3>1. durable'.event = "completed" /\ faults' = faults
      BY <1>2, <1>3, <2>2 DEF Effect
    <3> QED BY <1>5, <3>1 DEF Closes, QuietIn, OpenSearch, Quiet
  <2> QED BY <2>1, <2>2
<1>9. durable'.complete => Whole'
  <2>1. WholeIn(m) => Whole'
    BY <1>5, <1>6 DEF WholeIn, Whole
  <2>2. durable.complete => WholeIn(m)
    <3>1. ASSUME Whole PROVE WholeIn(m)
      <4>1. {r \in Roles : m.attempts[r].status = "completed"}
              = {r \in Roles : mem.attempts[r].status = "completed"}
        BY DEF Closes
      <4> QED BY <3>1, <4>1 DEF Closes, Whole, WholeIn
    <3> QED BY <3>1 DEF Inv, CloseOK
  <2> QED BY <1>2, <1>3, <2>1, <2>2 DEF Effect
<1>10. TypeOK' /\ RoomOK' /\ ScanOK' /\ TrackOK' /\ DoneOK'
  <2>1. limit' = limit /\ closings' \in Nat /\ faults' \in Nat
    BY <1>2 DEF Effect
  <2>2. tracker = "none"
    BY DEF Inv, TrackOK, Failing
  <2>3. TypeOK' /\ RoomOK'
    BY <1>5, <1>6, <2>1 DEF Inv, TypeOK, RoomOK, Places, Planned, Late, Failing, Closing,
       Preparing,
       Scanning, Asking
  <2>4. ScanOK'
    BY <1>5, <1>6 DEF Closes, Inv, ScanOK, Planned, Late, Failing, Preparing, Scanning, Asking
  <2>5. TrackOK' /\ DoneOK'
    BY <1>6, <2>2 DEF TrackOK, DoneOK, InRead, Places, Planned, Late, Failing, Closing,
       Preparing, Scanning,
       Asking
  <2> QED BY <2>3, <2>4, <2>5
<1>11. mem'.scan.status = "interrupted" =>
         \A i \in DOMAIN mem'.scan.batches : mem'.scan.batches[i] # "reserved"
  BY <1>5 DEF Closes
<1>12. CASE ok
  <2>1. mem'.terminal /\ durable' = Line(event, m) /\ faults' = faults
        /\ closings' = closings + 1 /\ pc' \in {"drop", "ended"}
    BY <1>2, <1>12 DEF Effect
  <2>2. faults = 0 => closings = 0
    BY DEF Inv, CloseOK
  <2>3. faults' = 0 => closings' = 1
    BY <2>1, <2>2
  <2>4. durable'.event \in Terminals /\ (durable'.event = "completed" =>
          \A r \in Roles : mem'.attempts[r].status \in {"none", "completed"})
    BY <1>3, <1>5, <2>1
  <2>5. CloseOK'
    BY <1>8, <1>9, <1>11, <2>1, <2>3, <2>4 DEF CloseOK
  <2> QED BY <1>7, <1>10, <2>5 DEF Inv
<1>13. CASE ~ok
  <2>1. ~mem'.terminal
    BY <1>1, <1>2, <1>13 DEF Effect
  <2>2. faults' = 0 => /\ mem'.events = limit' /\ closings' = closings /\ durable' = durable
                       /\ faults = 0
    BY <1>2, <1>13 DEF Effect
  <2>3. faults = 0 => closings = 0 /\ durable.event # "completed"
    BY DEF Inv, CloseOK
  <2>5. pc' = "ended" => Quiet'
    BY <1>8, <1>13
  <2>4. CloseOK'
    BY <1>9, <1>11, <2>1, <2>2, <2>3, <2>5 DEF CloseOK
  <2> QED BY <1>7, <1>10, <2>4 DEF Inv
<1> QED BY <1>12, <1>13

\* What is closed with the ledger.
LEMMA ClosedCloses ==
    ASSUME Inv, NEW status \in {"failed", "interrupted"}
    PROVE  Closes(Closed(mem, status)) /\ Settled(Closed(mem, status))
<1> DEFINE at(r) == IF mem.attempts[r].status \in Open
                    THEN [mem.attempts[r] EXCEPT
                            !.status = IF status = "interrupted" THEN status ELSE "failed",
                            !.complete = FALSE]
                    ELSE mem.attempts[r]
           se(s) == ClosedSearch(mem.searches[s])
           attempts == [r \in Roles |-> at(r)]
           searches == [s \in Searches |-> se(s)]
           scan == InterruptedScan(mem.scan)
           m == [mem EXCEPT !.scan = scan, !.searches = searches, !.attempts = attempts]
<1>1. Closed(mem, status) = m
  BY DEF Closed
<1>2. /\ mem \in Mem /\ mem.scan \in Scan /\ mem.scan.batches \in Seq(Batch)
      /\ \A r \in Roles : mem.attempts[r] \in Attempt
      /\ \A s \in Searches : mem.searches[s] \in Search
  BY DEF Inv, TypeOK, Mem, Scan
<1>3. ASSUME NEW r \in Roles
      PROVE  /\ at(r) \in Attempt /\ at(r).status \notin Open
             /\ at(r).status = "none" <=> mem.attempts[r].status = "none"
             /\ at(r).status = "completed" <=> mem.attempts[r].status = "completed"
  <2>1. mem.attempts[r] \in Attempt
    BY <1>2
  <2>2. CASE mem.attempts[r].status \in Open
    BY <2>1, <2>2 DEF Attempt, Open
  <2>3. CASE mem.attempts[r].status \notin Open
    BY <2>1, <2>3
  <2> QED BY <2>2, <2>3
<1>4. ASSUME NEW s \in Searches
      PROVE  /\ se(s) \in Search /\ se(s).status \notin OpenSearch
             /\ mem.searches[s].status = "delivered" => se(s).status = "delivered"
  BY <1>2 DEF ClosedSearch, Search, OpenSearch
<1>5. /\ scan \in Scan /\ scan.attempted = mem.scan.attempted
      /\ scan.requests = mem.scan.requests /\ scan.status # "running"
      /\ scan.status = "interrupted" =>
           \A i \in DOMAIN scan.batches : scan.batches[i] # "reserved"
  <2>1. CASE mem.scan.status = "running"
    <3> DEFINE b == [i \in DOMAIN mem.scan.batches |->
                       IF mem.scan.batches[i] = "reserved" THEN "interrupted"
                                                           ELSE mem.scan.batches[i]]
    <3>1. /\ b \in Seq(Batch) /\ \A i \in DOMAIN b : b[i] # "reserved"
      <4>1. /\ Len(mem.scan.batches) \in Nat
            /\ DOMAIN mem.scan.batches = 1..Len(mem.scan.batches)
            /\ \A i \in 1..Len(mem.scan.batches) : mem.scan.batches[i] \in Batch
        BY <1>2
      <4>2. \A i \in 1..Len(mem.scan.batches) : b[i] \in Batch /\ b[i] # "reserved"
        BY <4>1 DEF Batch
      <4>3. DOMAIN b = 1..Len(mem.scan.batches)
        BY <4>1
      <4>4. b = [i \in 1..Len(mem.scan.batches) |-> b[i]]
        BY <4>3
      <4> HIDE DEF b
      <4> QED BY <4>1, <4>2, <4>3, <4>4
    <3>2. scan = [mem.scan EXCEPT !.status = "interrupted", !.batches = b]
      BY <2>1 DEF InterruptedScan
    <3> HIDE DEF b
    <3> QED BY <1>2, <3>1, <3>2 DEF Scan
  <2>2. CASE mem.scan.status # "running"
    BY <1>2, <2>2 DEF InterruptedScan, Inv, CloseOK
  <2> QED BY <2>1, <2>2
<1> HIDE DEF at, se, scan
<1>6. attempts \in [Roles -> Attempt] /\ searches \in [Searches -> Search]
  BY <1>3, <1>4
<1> DEFINE A == attempts S == searches
<1>7. /\ \A r \in Roles : attempts[r] = at(r)
      /\ \A s \in Searches : searches[s] = se(s)
  OBVIOUS
<1> HIDE DEF attempts, searches
<1>8. /\ m \in Mem /\ m.terminal = mem.terminal /\ m.bound = mem.bound
      /\ m.scan = scan /\ m.attempts = attempts /\ m.searches = searches
  BY <1>2, <1>5, <1>6 DEF Mem
<1> HIDE DEF m
<1>9. QuietIn(m) /\ Settled(m)
  BY <1>3, <1>4, <1>5, <1>7, <1>8 DEF QuietIn, Settled
<1>10. "initial" \in Searches
  BY DEF Searches
<1>11. Closes(m)
  BY <1>3, <1>4, <1>5, <1>7, <1>8, <1>9, <1>10 DEF Closes
<1> QED BY <1>1, <1>9, <1>11

\* What is true when the reader's answer has been accepted.
LEMMA AtClose ==
    ASSUME Inv, pc = "close"
    PROVE  /\ Closes(mem) /\ WholeIn(mem) /\ ~mem.terminal
           /\ \A r \in Roles : mem.attempts[r].status \in {"none", "completed"}
<1>1. /\ sent = replied /\ sent = batches
      /\ mem.scan.status \notin {"running", "interrupted"}
  BY DEF Inv, ScanOK, Planned, Late, Failing
<1>2. /\ mem.searches["initial"].status = "delivered" /\ Finished("final_reader")
      /\ mem.searches["tool"].status \in OpenSearch => faults # 0
      /\ IF planned THEN Finished("query_planner") ELSE Untouched("query_planner")
  BY DEF Inv, DoneOK, Late, Failing
<1>3. \A r \in Roles : /\ mem.attempts[r].status \in {"none", "completed"}
                       /\ r \in started <=> mem.attempts[r].status = "completed"
  BY <1>2 DEF Roles, Finished, Untouched, NoAttempt
<1>4. started = {r \in Roles : mem.attempts[r].status = "completed"}
  BY <1>3 DEF Inv, TypeOK
<1>5. QuietIn(mem)
  <2>1. faults # 0 => faults > 0
    BY DEF Inv, TypeOK
  <2>2. \A s \in Searches : mem.searches[s].status \in OpenSearch => s = "tool" /\ faults > 0
    BY <1>2, <2>1 DEF Searches, OpenSearch
  <2> QED BY <1>1, <1>3, <2>2 DEF QuietIn, Open
<1>6. mem \in Mem /\ ~mem.terminal
  BY DEF Inv, TypeOK, CloseOK
<1> QED BY <1>1, <1>2, <1>3, <1>4, <1>5, <1>6 DEF Closes, WholeIn

\* The ledger is closed, or found closed.
LEMMA CloseStep ==
    ASSUME Inv, NEW ok \in BOOLEAN, CloseCompleted(ok) \/ CloseFailed(ok) \/ DropGuard(ok)
    PROVE  Inv'
<1>1. UNCHANGED <<runVars, next, tracker, pastVars>>
  BY DEF CloseCompleted, CloseFailed, DropGuard
<1>2. CASE CloseCompleted(ok)
  <2>1. pc = "close" /\ pc' = IF ok THEN "drop" ELSE "fail"
    BY <1>2 DEF CloseCompleted
  <2>2. /\ Closes(mem) /\ WholeIn(mem) /\ ~mem.terminal
        /\ \A r \in Roles : mem.attempts[r].status \in {"none", "completed"}
    BY <2>1, AtClose
  <2>3. Appended("completed", mem, ok)
    BY <1>2, <2>2 DEF CloseCompleted, Finish, Closed
  <2>4. "completed" \in Terminals
    BY DEF Terminals
  <2> QED BY <1>1, <2>1, <2>2, <2>3, <2>4, FinishLine
<1>3. CASE CloseFailed(ok)
  <2>1. pc = "fail" /\ pc' = "drop" /\ ~mem.terminal
    BY <1>3 DEF CloseFailed, Inv, CloseOK
  <2>2. Appended("failed", Closed(mem, "failed"), ok)
    BY <1>3, <2>1 DEF CloseFailed, Finish
  <2>3. "failed" \in Terminals /\ "failed" # "completed"
    BY DEF Terminals
  <2>4. Closes(Closed(mem, "failed")) /\ Settled(Closed(mem, "failed"))
    BY ClosedCloses
  <2> QED BY <1>1, <2>1, <2>2, <2>3, <2>4, FinishLine
<1>4. CASE DropGuard(ok) /\ ~mem.terminal
  <2>1. pc = "drop" /\ pc' = "ended"
    BY <1>4 DEF DropGuard
  <2>2. Appended("interrupted", Closed(mem, "interrupted"), ok)
    BY <1>4 DEF DropGuard, Finish
  <2>3. "interrupted" \in Terminals /\ "interrupted" # "completed"
    BY DEF Terminals
  <2>4. Closes(Closed(mem, "interrupted")) /\ Settled(Closed(mem, "interrupted"))
    BY ClosedCloses
  <2> QED BY <1>1, <1>4, <2>1, <2>2, <2>3, <2>4, FinishLine
<1>5. CASE DropGuard(ok) /\ mem.terminal
  <2>1. pc = "drop" /\ pc' = "ended" /\ UNCHANGED ledgerVars
    BY <1>5 DEF DropGuard, Finish
  <2>2. Quiet
    BY <1>5 DEF Inv, CloseOK
  <2>3. LineOK' /\ CloseOK'
    BY <1>1, <1>5, <2>1, <2>2 DEF ledgerVars, runVars, pastVars, Inv, LineOK, CloseOK, Covers,
       Whole, Quiet
  <2> QED BY <1>1, <2>1, <2>3 DEF ledgerVars, runVars, pastVars, Inv, TypeOK, RoomOK,
             ScanOK, TrackOK, DoneOK, Places, Planned, Late, Failing, Closing, Preparing,
                Scanning,
             Asking, Untouched, Finished, Tracked, InRead
<1> QED BY <1>2, <1>3, <1>4, <1>5
---------------------------------------------------------------------------
(***************************************************************************)
(* The invariant of the specification, and what follows from it.           *)
(***************************************************************************)

\* Inv holds when the invocation starts.
LEMMA InitOK == Init => Inv
<1> SUFFICES ASSUME Init PROVE Inv
  OBVIOUS
<1>1. PICK b \in Seq(Batch) : b = <<>>
  BY NoBatches
<1>2. NoScan = [status |-> "none", batches |-> b, attempted |-> 0, requests |-> 0,
                metered |-> 0, scanned |-> FALSE]
  BY <1>1 DEF NoScan
<1>3. NoScan \in Scan /\ NoScan.status = "none" /\ NoScan.batches = <<>>
      /\ NoScan.attempted = 0 /\ NoScan.requests = 0
  BY <1>1, <1>2 DEF Scan
<1>4. NoAttempt \in Attempt /\ NoAttempt.status = "none"
  BY DEF NoAttempt, Attempt
<1>5. NoSearch \in Search /\ NoSearch.status = "none"
  BY DEF NoSearch, Search
<1> DEFINE attempts == [r \in Roles |-> NoAttempt]
           searches == [s \in Searches |-> NoSearch]
<1>6. attempts \in [Roles -> Attempt] /\ searches \in [Searches -> Search]
  BY <1>4, <1>5
<1>7. (\A r \in Roles : attempts[r] = NoAttempt) /\ (\A s \in Searches : searches[s] = NoSearch)
  OBVIOUS
<1> HIDE DEF attempts, searches
<1>8. /\ mem = [events |-> 0, terminal |-> FALSE, bound |-> FALSE, max |-> 1,
                attempts |-> attempts, searches |-> searches, scan |-> NoScan]
      /\ limit \in EventLimits /\ durable = NoLine /\ closings = 0 /\ faults = 0
  BY DEF Init, LedgerInit, attempts, searches
<1>9. /\ mem \in Mem /\ mem.terminal = FALSE /\ mem.scan = NoScan /\ mem.events = 0
      /\ mem.attempts = attempts /\ mem.searches = searches
  BY <1>3, <1>6, <1>8 DEF Mem
<1>10. /\ planned \in BOOLEAN /\ navigation \in BOOLEAN /\ (navigation => planned)
       /\ batches \in 0..MaxBatches /\ (batches > 0 => navigation)
       /\ pc = "create" /\ next = "fail" /\ tracker = "none"
       /\ sent = 0 /\ replied = 0 /\ started = {} /\ squeezed = FALSE
  BY DEF Init
<1>11. limit \in Nat /\ batches \in Nat /\ (~navigation => batches = 0)
  BY <1>8, <1>10, LedgerAssumption
<1>12. durable.event = "none" /\ durable.complete = FALSE
  BY <1>8 DEF NoLine
<1>13. TypeOK
  BY <1>8, <1>9, <1>10, <1>11 DEF TypeOK, Places
<1>14. RoomOK /\ TrackOK
  BY <1>10 DEF RoomOK, TrackOK, Preparing, Scanning, Asking, Failing
<1>15. ScanOK
  BY <1>3, <1>9, <1>10 DEF ScanOK, Preparing, Scanning, Asking, Planned, Late, Failing
<1>16. LineOK
  BY <1>3, <1>9, <1>10, <1>12 DEF LineOK, Covers
<1>17. DoneOK
  BY <1>5, <1>7, <1>9, <1>10 DEF DoneOK, InRead, Untouched, Places, Planned, Late, Failing,
     Closing, Roles,
     Searches
<1>18. CloseOK
  BY <1>3, <1>8, <1>9, <1>10, <1>12 DEF CloseOK
<1> QED BY <1>13, <1>14, <1>15, <1>16, <1>17, <1>18 DEF Inv

\* Every step keeps Inv.
LEMMA NextOK == Inv /\ [Next]_vars => Inv'
<1> SUFFICES ASSUME Inv, [Next]_vars PROVE Inv'
  OBVIOUS
<1>1. CASE UNCHANGED vars
  <2>1. /\ UNCHANGED <<mem, limit, durable, closings, faults, planned, navigation, batches>>
        /\ UNCHANGED <<pc, next, tracker, sent, replied, started, squeezed>>
    BY <1>1 DEF vars, ledgerVars, runVars, pastVars
  <2>2. TypeOK' /\ RoomOK'
    BY <2>1 DEF Inv, TypeOK, RoomOK, Left
  <2>3. ScanOK' /\ LineOK'
    BY <2>1 DEF Inv, ScanOK, LineOK, Covers
  <2>6. TrackOK'
    BY <2>1 DEF Inv, TrackOK
  <2>4. DoneOK'
    <3>1. InRead' = InRead /\ (\A r : Untouched(r)' = Untouched(r))
          /\ (\A r : Tracked(r)' = Tracked(r)) /\ (\A r : Finished(r)' = Finished(r))
      BY <2>1 DEF InRead, Untouched, Tracked, Finished
    <3> QED BY <2>1, <3>1 DEF Inv, DoneOK
  <2>5. CloseOK'
    BY <2>1 DEF Inv, CloseOK, Whole, Quiet
  <2> QED BY <2>2, <2>3, <2>4, <2>5, <2>6 DEF Inv
<1>2. ASSUME NEW ok \in BOOLEAN,
             \/ Create(ok) \/ Bind(ok) \/ LimitAttempts(ok) \/ Receipt(ok)
             \/ FailedReceipt(ok)
      PROVE  Inv'
  BY <1>2, SetupStep
<1>3. ASSUME NEW ok \in BOOLEAN,
             \/ StartScan(ok) \/ Admit(ok) \/ BeforeCall(ok) \/ CallFails(ok)
             \/ Score(ok) \/ CompleteScan(ok) \/ ScanFailed(ok)
      PROVE  Inv'
  BY <1>3, StartScanStep, AdmitStep, CallStep, CompleteScanStep, ScanFailedStep
<1>4. ASSUME NEW ok \in BOOLEAN,
             \/ ReserveAttempt(ok) \/ Running(ok) \/ Observe(ok) \/ ProcessCompleted(ok)
             \/ FinishAttempt(ok) \/ FailAttempt(ok) \/ Unwind(ok)
      PROVE  Inv'
  BY <1>4, ReserveStep, SessionStep, TrackerStep
<1>5. ASSUME NEW ok \in BOOLEAN, NEW metered \in BOOLEAN,
             \/ StartSearch(ok) \/ SearchProgress(ok) \/ SearchSucceeds(metered, ok)
             \/ Deliver(metered, ok) \/ SearchFails(ok) \/ FailedDelivery(ok)
      PROVE  Inv'
  BY <1>5, SearchStep
<1>6. ASSUME NEW ok \in BOOLEAN, NEW metered \in BOOLEAN, Reply(metered, ok)
      PROVE  Inv'
  BY <1>6, ReplyStep
<1>7. ASSUME NEW ok \in BOOLEAN, CloseCompleted(ok) \/ CloseFailed(ok) \/ DropGuard(ok)
      PROVE  Inv'
  BY <1>7, CloseStep
<1>8. CASE Send
  BY <1>8, SendStep
<1>9. CASE \/ Prepare \/ ScanDeadline \/ InvalidScores \/ ScanChanged \/ Error
           \/ SessionError \/ CallError \/ Cancel \/ Killed
  BY <1>9, ErrorStep
<1>10. CASE Next
  <2>1. ASSUME NEW ok \in BOOLEAN,
               StartSearch(ok) \/ SearchProgress(ok) \/ SearchFails(ok) \/ FailedDelivery(ok)
        PROVE  Inv'
    BY <1>5, <2>1
  <2> QED BY <1>2, <1>3, <1>4, <1>5, <1>6, <1>7, <1>8, <1>9, <1>10, <2>1 DEF Next
<1> QED BY <1>1, <1>10

\* Inv holds in every state of every invocation, cancelled or killed ones included.
THEOREM Invariance == Spec => []Inv
<1> QED BY InitOK, NextOK, PTL DEF Spec

\* The lines of the file cover what has been sent and started, at every moment.
THEOREM Reserves == Spec => []ReservedBeforeSpent
<1>1. Inv => ReservedBeforeSpent
  <2> SUFFICES ASSUME Inv PROVE ReservedBeforeSpent
    OBVIOUS
  <2>1. durable.event = "none" => sent = 0 /\ started = {}
    BY DEF Inv, LineOK
  <2>2. durable.event # "none" =>
          durable.mem.scan.attempted \in Nat /\ sent <= durable.mem.scan.attempted
          /\ \A r \in started : durable.mem.attempts[r].status # "none"
    BY DEF Inv, LineOK, Covers, Mem, Scan
  <2>3. sent > 0 => durable.mem.scan.attempted >= sent
    <3>1. sent \in Nat
      BY DEF Inv, TypeOK
    <3>2. CASE durable.event = "none"
      BY <2>1, <3>1, <3>2
    <3>3. CASE durable.event # "none"
      BY <2>2, <3>1, <3>3
    <3> QED BY <3>2, <3>3
  <2>4. \A r \in started : durable.mem.attempts[r] # NoAttempt
    BY <2>1, <2>2 DEF NoAttempt
  <2>5. replied <= mem.scan.attempted /\ mem.scan.requests = replied
    BY DEF Inv, ScanOK
  <2> QED BY <2>3, <2>4, <2>5 DEF ReservedBeforeSpent
<1> QED BY Invariance, <1>1, PTL

\* A terminal line is the last one, leaves nothing open and claims no more than what
\* happened.
THEOREM Terminal == Spec => []TerminalTrue
<1>1. Inv => TerminalTrue
  <2> SUFFICES ASSUME Inv PROVE TerminalTrue
    OBVIOUS
  <2>1. ClosedOnce
    <3> SUFFICES ASSUME faults = 0
                 PROVE  /\ closings <= 1 /\ (closings = 1 => durable.event \in Terminals)
                        /\ pc = "ended" => closings = 1 \/ mem.events = limit
      BY DEF ClosedOnce
    <3>1. /\ closings = IF mem.terminal THEN 1 ELSE 0
          /\ mem.terminal => durable.event \in Terminals
          /\ pc = "ended" => mem.terminal \/ mem.events = limit
      BY DEF Inv, CloseOK
    <3>2. CASE mem.terminal
      BY <3>1, <3>2
    <3>3. CASE ~mem.terminal
      BY <3>1, <3>3
    <3> QED BY <3>2, <3>3
  <2>2. NothingOpen
    <3>1. pc = "ended" => Quiet
      BY DEF Inv, CloseOK
    <3>2. mem.scan.status = "interrupted" => "reserved" \notin
            {mem.scan.batches[i] : i \in DOMAIN mem.scan.batches}
      BY DEF Inv, CloseOK
    <3>3. durable.event = "completed" /\ faults = 0 =>
            \A r \in Roles : mem.attempts[r].status \in {"none", "completed"}
      BY DEF Inv, CloseOK
    <3> QED BY <3>1, <3>2, <3>3 DEF NothingOpen, Quiet
  <2>3. CompleteIsComplete
    BY DEF Inv, CloseOK, Whole, CompleteIsComplete
  <2> QED BY <2>1, <2>2, <2>3 DEF TerminalTrue
<1> QED BY Invariance, <1>1, PTL

\* No line of an admitted scan meets the limit.
THEOREM Admitted == Spec => []AdmittedScanFits
<1>1. Inv => AdmittedScanFits
  BY DEF Inv, RoomOK, AdmittedScanFits
<1> QED BY Invariance, <1>1, PTL
===============================================================================

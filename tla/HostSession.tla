----------------------------- MODULE HostSession -----------------------------
(***************************************************************************)
(* One session of the host with the Codex app-server: the required first   *)
(* search, the process and its group, the message loop with its tool       *)
(* calls, the deadline, and the validation of the final citations.         *)
(* gptgrep-host/src: lib.rs (execute_with_client from the initial search   *)
(* on, run_process_until), protocol.rs (run_observed), retrieval.rs        *)
(* (Evidence), process_group.rs.  A session is that of the reader, or one  *)
(* completion without tools (completion.rs), as the planner's is.          *)
(*                                                                         *)
(* Codex is not trusted: it may send any message at any time, stay silent, *)
(* exit, or leave a helper process in its group.  Other processes edit the *)
(* sources and publish new generations.  A tool call takes three steps,    *)
(* the check of the generation, the tool, and the second check with the    *)
(* roll back and the delivery, and these may come in between.              *)
(*                                                                         *)
(* A window of evidence is a part of a node's text, named by the           *)
(* generation it was read from and the version of the source it is of.     *)
(* Each node has a source of its own.                                      *)
(***************************************************************************)
EXTENDS Naturals, FiniteSets

CONSTANTS
    Nodes,         \* nodes of the document scope
    Parts,         \* Parts[n]: the windows that n can be read in
    MaxToolCalls,  \* config.max_tool_calls
    MaxEdits,      \* bound on the edits of sources
    MaxReindex     \* bound on the generations that others publish

ASSUME SessionAssumption ==
    /\ IsFiniteSet(Nodes) /\ MaxToolCalls \in Nat \ {0}
    /\ MaxEdits \in Nat /\ MaxReindex \in Nat

None     == "none"
Turns    == {"t1", "t2"}
Gens     == 0..MaxReindex
Pinned   == 0           \* Evidence.generation
Tools    == {"catalog", "tree", "read", "search"}

VARIABLES
    workflow,        \* "retrieval" or "completion"
    content, edits,  \* version of each source, and how often one was edited
    gen, indexed,    \* current generation, and the versions each one holds
    phase,           \* where the host is
    outcome,         \* what the session ended with
    call,            \* the tool call that runs
    known, issued,   \* Evidence.known_nodes, Evidence.issued
    shown,           \* history: nodes and windows in payloads the model was sent
    turn,            \* turn_id
    heard,           \* history: turns whose calls, answers and ends were accepted
    answer,          \* the last final message of the turn
    calls,           \* calls.len()
    ran, budget,     \* receipts of admitted calls, ToolBudgetDiagnostics
    toCheck, cited,  \* validation: windows to re-read, citations of the report
    present,         \* history: versions of the sources since the answer
    leader, helper,  \* the leader of the group, another member
    armed, reused,   \* OwnedGroup.armed; the group id belongs to someone else
    strayed          \* history: a signal reached a foreign group

worldVars    == <<workflow, content, edits, gen, indexed>>
evidenceVars == <<call, known, issued, shown, ran>>
turnVars     == <<turn, heard, answer, calls, budget>>
checkVars    == <<toCheck, cited>>
groupVars    == <<leader, helper, armed, reused, strayed>>
vars == <<worldVars, phase, outcome, evidenceVars, turnVars, checkVars,
          present, groupVars>>

NoCall   == [tool |-> None]
NoBudget == [admitted |-> 0, denied |-> 0]

Window(n, p) == [node |-> n, part |-> p, gen |-> gen, version |-> indexed[gen][n]]
Fresh(n)     == content[n] = indexed[gen][n]
Ended        == {"answered", "failed", "cancelled"}

Init ==
    /\ workflow \in {"retrieval", "completion"}
    /\ content = [n \in Nodes |-> 0] /\ edits = 0
    /\ gen = Pinned /\ indexed = [g \in Gens |-> [n \in Nodes |-> 0]]
    /\ phase = IF workflow = "retrieval" THEN "boot" ELSE "spawn"
    /\ outcome = None
    /\ call = NoCall /\ known = {} /\ issued = {} /\ ran = 0
    /\ shown = [nodes |-> {}, windows |-> {}]
    /\ turn = None /\ heard = {} /\ answer = [cites |-> {}, given |-> FALSE]
    /\ calls = 0 /\ budget = NoBudget
    /\ toCheck = {} /\ cited = {} /\ present = {}
    /\ leader = None /\ helper = None /\ armed = FALSE
    /\ reused = FALSE /\ strayed = FALSE
---------------------------------------------------------------------------
\* Other processes: an edit of a source, a new generation of the index.

Edit(n) ==
    /\ edits < MaxEdits
    /\ edits' = edits + 1
    /\ content' = [content EXCEPT ![n] = 1 - @]
    /\ present' = IF phase = "checking" THEN present \cup {<<n, 1 - content[n]>>}
                                        ELSE present
    /\ UNCHANGED <<workflow, gen, indexed, phase, outcome, evidenceVars,
                   turnVars, checkVars, groupVars>>

Reindex ==
    /\ gen < MaxReindex
    /\ gen' = gen + 1
    /\ indexed' = [indexed EXCEPT ![gen + 1] = content]
    /\ UNCHANGED <<workflow, content, edits, phase, outcome, evidenceVars,
                   turnVars, checkVars, present, groupVars>>
---------------------------------------------------------------------------
\* The session is over before its answer: the process is stopped first, if there
\* is one.  A call that was running is dropped with what it has changed.
GiveUp(why) ==
    /\ outcome' = why
    /\ phase' = IF phase = "boot" THEN "failed" ELSE "term"
    /\ call' = NoCall

\* A tool call.  Evidence::call: the first check of the generation.
BeginCall(tool) ==
    IF gen = Pinned
    THEN /\ call' = [tool |-> tool, stage |-> "begun", known |-> known,
                     issued |-> issued, nodes |-> {}, windows |-> {},
                     result |-> "ok"]
         /\ UNCHANGED <<phase, outcome>>
    ELSE GiveUp("error")

\* What a tool may add to the known nodes and the issued windows, and how it may
\* end.  A tool that fails can do so after a part of its changes.
FreshNodes == {n \in Nodes : Fresh(n)}
Effects ==
    [nodes   : SUBSET FreshNodes,
     windows : SUBSET UNION {{Window(n, p) : p \in Parts[n]} : n \in FreshNodes},
     result  : {"ok", "bad", "fatal"}]

\* The catalog adds nothing, a tree nodes, a read a window of a known node, a
\* search its hits.  Only an assisted search fails the whole session, and tree
\* and search refuse a generation that is not the pinned one.
Possible(tool, e) ==
    /\ tool # "search" => e.result # "fatal"
    /\ tool \in {"catalog", "read"} => e.nodes = {}
    /\ tool \in {"catalog", "tree"} => e.windows = {}
    /\ tool = "read" => /\ Cardinality(e.windows) <= 1
                       /\ \A w \in e.windows : w.node \in known
    /\ tool = "search" => e.nodes = {w.node : w \in e.windows}
    /\ tool \in {"tree", "search"} /\ gen # Pinned =>
         e.nodes = {} /\ e.result # "ok"

\* Evidence::run and run_search.
RunTool ==
    /\ call # NoCall /\ call.stage = "begun"
    /\ \E e \in Effects :
         /\ Possible(call.tool, e)
         /\ known' = known \cup e.nodes
         /\ issued' = issued \cup e.windows
         /\ call' = [tool |-> call.tool, stage |-> "ran", known |-> call.known,
                     issued |-> call.issued, nodes |-> e.nodes,
                     windows |-> e.windows, result |-> e.result]
    /\ UNCHANGED <<worldVars, phase, outcome, shown, ran, turnVars, checkVars,
                   present, groupVars>>

\* Restores the windows only.
FaultyRollBack(success) ==
    /\ known' = known
    /\ issued' = IF success THEN issued ELSE call.issued

\* A call that fails leaves nothing behind: nodes and windows are as before it.
RollBack(success) ==
    /\ known' = IF success THEN known ELSE call.known
    /\ issued' = IF success THEN issued ELSE call.issued

\* The rest of Evidence::call: the second check, the limit on the result's size,
\* the roll back, the receipt.  The payload of the first search goes to the
\* model in its prompt, the others in the reply to the call.
EndCall(fits) ==
    LET success == call.result = "ok" /\ fits IN
    /\ call # NoCall /\ call.stage = "ran"
    /\ IF gen # Pinned
       THEN /\ GiveUp("error") /\ UNCHANGED <<known, issued, shown, ran>>
       ELSE /\ RollBack(success)
            /\ ran' = IF phase = "loop" THEN ran + 1 ELSE ran
            /\ shown' = IF success
                        THEN [nodes   |-> shown.nodes \cup call.nodes,
                              windows |-> shown.windows \cup call.windows]
                        ELSE shown
            /\ IF call.result = "fatal" \/ (phase = "boot" /\ ~success)
               THEN GiveUp("error")
               ELSE /\ call' = NoCall
                    /\ phase' = IF phase = "boot" THEN "spawn" ELSE phase
                    /\ UNCHANGED outcome
    /\ UNCHANGED <<worldVars, turnVars, checkVars, present, groupVars>>

\* A refused record of the ledger, or a reply that Codex does not read, ends the
\* session in the middle of a call.
CallBreaks ==
    /\ call # NoCall
    /\ GiveUp("error")
    /\ UNCHANGED <<worldVars, known, issued, shown, ran, turnVars, checkVars,
                   present, groupVars>>

\* Evidence::bootstrap: the first search, before Codex is started.
Bootstrap ==
    /\ phase = "boot" /\ call = NoCall
    /\ BeginCall("search")
    /\ UNCHANGED <<worldVars, known, issued, shown, ran, turnVars, checkVars,
                   present, groupVars>>
---------------------------------------------------------------------------
\* The process group.  Members that get SIGKILL die; SIGTERM may be ignored.
\* Once the leader is reaped and no member is left, the id may be given away,
\* and a signal would reach somebody else's processes.

Signalled(dies) ==
    /\ leader' = IF leader = "live" /\ "leader" \in dies THEN "zombie" ELSE leader
    /\ helper' = IF helper = "live" /\ "helper" \in dies THEN "gone" ELSE helper
    /\ strayed' = (strayed \/ reused)

Kill == Signalled({"leader", "helper"})

\* run_process_until: the process is not started after the deadline, nor when it
\* cannot be, nor after a first search of an empty corpus or without candidates.
Spawn(starts) ==
    /\ phase = "spawn"
    /\ IF ~starts
       THEN /\ phase' = "failed" /\ outcome' = "error"
            /\ UNCHANGED groupVars
       ELSE /\ phase' = "handshake" /\ leader' = "live" /\ armed' = TRUE
            /\ UNCHANGED <<outcome, helper, reused, strayed>>
    /\ UNCHANGED <<worldVars, evidenceVars, turnVars, checkVars, present>>

\* The replies to initialize, account/read, config/read and thread/start, with
\* the checks of what Codex has accepted.  Anything else that arrives is denied
\* or skipped.
Handshake(accepted) ==
    /\ phase = "handshake"
    /\ IF accepted
       THEN phase' = "loop" /\ UNCHANGED <<outcome, call>>
       ELSE GiveUp("error")
    /\ UNCHANGED <<worldVars, known, issued, shown, ran, turnVars, checkVars,
                   present, groupVars>>

\* timeout_at around the session and around the first search.  The deadline may
\* pass at any moment; the futures can be dropped where they wait: for a message,
\* or in a search.
Waiting ==
    \/ phase \in {"handshake", "loop"} /\ call = NoCall
    \/ call # NoCall /\ call.tool = "search" /\ call.stage = "begun"

\* The deadline covers the handshake and the first search only.
FaultyTimeOut ==
    /\ Waiting /\ phase # "loop"
    /\ GiveUp("timeout")
    /\ UNCHANGED <<worldVars, known, issued, shown, ran, turnVars, checkVars,
                   present, groupVars>>

TimeOut ==
    /\ Waiting
    /\ GiveUp("timeout")
    /\ UNCHANGED <<worldVars, known, issued, shown, ran, turnVars, checkVars,
                   present, groupVars>>

\* Reaps the leader as soon as it has exited.
FaultySignalTerm(dies) ==
    /\ phase = "term" /\ phase' = "kill"
    /\ helper' = IF helper = "live" /\ "helper" \in dies THEN "gone" ELSE helper
    /\ leader' = IF leader = "zombie" \/ "leader" \in dies THEN "reaped" ELSE leader
    /\ strayed' = (strayed \/ reused)
    /\ UNCHANGED <<worldVars, outcome, evidenceVars, turnVars, checkVars,
                   present, armed, reused>>

\* OwnedGroup::stop: SIGTERM, 200 ms, SIGKILL, and only then the leader is reaped.
SignalTerm(dies) ==
    /\ phase = "term" /\ phase' = "kill"
    /\ Signalled(dies)
    /\ UNCHANGED <<worldVars, outcome, evidenceVars, turnVars, checkVars,
                   present, armed, reused>>

SignalKill ==
    /\ phase = "kill" /\ phase' = "reap"
    /\ Kill
    /\ UNCHANGED <<worldVars, outcome, evidenceVars, turnVars, checkVars,
                   present, armed, reused>>

\* After the stop the outcome of the session counts: an answer is validated, and
\* everything else is an error.
Reap ==
    /\ phase = "reap" /\ leader = "zombie"
    /\ leader' = "reaped" /\ armed' = FALSE
    /\ phase' = IF outcome = "completed" THEN "validate" ELSE "failed"
    /\ UNCHANGED <<worldVars, outcome, evidenceVars, turnVars, checkVars,
                   present, helper, reused, strayed>>

\* The stop fails: a signal is refused for a group of zombies and the members
\* cannot be listed, or the leader is not reaped in time.  The error replaces the
\* outcome.  Drop of OwnedGroup sends SIGKILL while it is armed.
DropGroup == IF armed THEN Kill ELSE UNCHANGED <<leader, helper, strayed>>

StopFails ==
    /\ \/ phase \in {"term", "kill"} /\ leader # "live" /\ helper # "live"
       \/ phase = "reap"
    /\ phase' = "failed" /\ outcome' = "error"
    /\ DropGroup
    /\ UNCHANGED <<worldVars, evidenceVars, turnVars, checkVars, present,
                   armed, reused>>

\* The caller drops the whole future at one of its waits.
Cancel ==
    /\ Waiting \/ phase \in {"term", "kill", "reap", "validate"}
    /\ phase' = "cancelled" /\ outcome' = "error" /\ call' = NoCall
    /\ DropGroup
    /\ UNCHANGED <<worldVars, known, issued, shown, ran, turnVars, checkVars,
                   present, armed, reused>>

\* What the processes and the system do by themselves.  Nothing looks at the group
\* before it is stopped, so its moves until then are taken there.
LeaderExits ==
    /\ leader = "live" /\ leader' = "zombie"
    /\ UNCHANGED <<helper, reused>>
HelperStarts ==
    /\ leader = "live" /\ helper = None /\ helper' = "live"
    /\ UNCHANGED <<leader, reused>>
HelperExits ==
    /\ helper = "live" /\ helper' = "gone"
    /\ UNCHANGED <<leader, reused>>
\* The runtime reaps a child that was dropped unreaped (kill_on_drop).
OrphanReaped ==
    /\ phase \in Ended /\ leader = "zombie" /\ leader' = "reaped"
    /\ UNCHANGED <<helper, reused>>
IdReused ==
    /\ leader = "reaped" /\ helper # "live" /\ ~reused /\ reused' = TRUE
    /\ UNCHANGED <<leader, helper>>

System ==
    /\ phase \in {"term", "kill", "reap"} \cup Ended
    /\ LeaderExits \/ HelperStarts \/ HelperExits \/ OrphanReaped \/ IdReused
    /\ UNCHANGED <<worldVars, phase, outcome, evidenceVars, turnVars,
                   checkVars, present, armed, strayed>>
---------------------------------------------------------------------------
\* The message loop of run_observed.  A message of another thread or turn ends the
\* session (`own` is the test of the thread).  Requests that are not tool calls
\* are denied and unknown notifications skipped, which changes nothing here.

Listening == phase = "loop" /\ call = NoCall

\* Remembers the last turn instead of the first.
FaultyBindTurn(t) == t \in Turns

BindTurn(t) == turn \in {None, t}

\* A message that the loop accepts as one of its turn.
InTurn(own, t) == own /\ BindTurn(t)

\* Transport closed, the limits on frames, bytes and messages, malformed messages,
\* items outside the restricted workflow, a terminal error or an unfinished turn.
SessionBreaks ==
    /\ phase \in {"handshake", "loop"} /\ call = NoCall
    /\ GiveUp("error")
    /\ UNCHANGED <<worldVars, known, issued, shown, ran, turnVars, checkVars,
                   present, groupVars>>

\* item/tool/call.  An identifier counts when it arrives; a repeated one, a tool
\* outside the list and arguments that are too long are errors.  Within the
\* budget the tool runs; after it a request of the advertised shape is denied, at
\* most MaxToolCalls times, and has no effect on the evidence.  A completion has
\* no tools: the request ends it.
\* Counts the call that is being admitted twice.
FaultyOverBudget == calls + 1 >= MaxToolCalls

OverBudget == calls + 1 > MaxToolCalls

ToolCall(own, t, repeated, tool, shape) ==
    /\ Listening
    /\ repeated => calls > 0
    /\ IF ~InTurn(own, t) \/ repeated \/ tool \notin Tools \/ workflow = "completion"
       THEN GiveUp("error") /\ UNCHANGED <<turn, heard, calls, budget>>
       ELSE /\ turn' = t /\ heard' = heard \cup {t}
            /\ calls' = calls + 1
            /\ IF ~OverBudget
               THEN BeginCall(tool) /\ UNCHANGED budget
               ELSE IF ~shape \/ budget.denied = MaxToolCalls
               THEN GiveUp("error") /\ UNCHANGED budget
               ELSE /\ budget' = [admitted |-> MaxToolCalls,
                                  denied   |-> budget.denied + 1]
                    /\ UNCHANGED <<phase, outcome, call>>
    /\ UNCHANGED <<worldVars, known, issued, shown, ran, answer, checkVars,
                   present, groupVars>>

\* The reply to turn/start, turn/started, items that are not the answer, usage,
\* and an error that Codex retries: they bind the turn.  The reply has no thread.
TurnMessage(own, t) ==
    /\ Listening
    /\ IF InTurn(own, t)
       THEN turn' = t /\ UNCHANGED <<phase, outcome, call>>
       ELSE GiveUp("error") /\ UNCHANGED turn
    /\ UNCHANGED <<worldVars, known, issued, shown, ran, heard, answer, calls,
                   budget, checkVars, present, groupVars>>

\* A completed agent message that is not a commentary is the answer so far.
Message(own, t, cites) ==
    /\ Listening
    /\ IF InTurn(own, t)
       THEN /\ turn' = t /\ heard' = heard \cup {t}
            /\ answer' = [cites |-> cites, given |-> TRUE]
            /\ UNCHANGED <<phase, outcome, call>>
       ELSE GiveUp("error") /\ UNCHANGED <<turn, heard, answer>>
    /\ UNCHANGED <<worldVars, known, issued, shown, ran, calls, budget,
                   checkVars, present, groupVars>>

\* turn/completed with status completed; its items may hold the answer.
TurnCompleted(own, t, final, cites) ==
    LET last == IF final THEN [cites |-> cites, given |-> TRUE] ELSE answer IN
    /\ Listening
    /\ IF InTurn(own, t)
       THEN /\ turn' = t /\ heard' = heard \cup {t} /\ answer' = last
            /\ outcome' = IF last.given THEN "completed" ELSE "error"
            /\ phase' = "term" /\ UNCHANGED call
       ELSE GiveUp("error") /\ UNCHANGED <<turn, heard, answer>>
    /\ UNCHANGED <<worldVars, known, issued, shown, ran, calls, budget,
                   checkVars, present, groupVars>>

Codex ==
    \/ SessionBreaks
    \/ \E a \in BOOLEAN : Handshake(a)
    \/ \E own \in BOOLEAN, t \in Turns :
         \/ TurnMessage(own, t)
         \/ \E r, s \in BOOLEAN, tool \in Tools \cup {"exec"} :
              ToolCall(own, t, r, tool, s)
         \/ \E c \in SUBSET Nodes :
              \/ Message(own, t, c)
              \/ \E f \in BOOLEAN : TurnCompleted(own, t, f, c)
---------------------------------------------------------------------------
\* Evidence::finish.  The schema and the limits of the answer, the generation,
\* the identifiers; then each issued window of each cited node is read again;
\* then the generation once more.  The successful search that is required has its
\* receipt since the first search.  A completion is checked against its schema.

Refuse == phase' = "failed" /\ outcome' = "error"

Complete(valid) ==
    /\ phase = "validate" /\ workflow = "completion"
    /\ IF valid THEN phase' = "answered" /\ UNCHANGED outcome ELSE Refuse
    /\ UNCHANGED <<worldVars, evidenceVars, turnVars, checkVars, present, groupVars>>

BeginValidation(wellFormed) ==
    /\ phase = "validate" /\ workflow = "retrieval"
    /\ present' = {<<n, content[n]>> : n \in Nodes}
    /\ IF wellFormed /\ gen = Pinned /\ answer.cites \subseteq {w.node : w \in issued}
       THEN /\ phase' = "checking"
            /\ toCheck' = {w \in issued : w.node \in answer.cites}
            /\ cited' = toCheck'
            /\ UNCHANGED outcome
       ELSE Refuse /\ UNCHANGED checkVars
    /\ UNCHANGED <<worldVars, evidenceVars, turnVars, groupVars>>

\* Compares the digest of the snapshot only, and not the source.
FaultyCheckWindow(w) ==
    /\ phase = "checking" /\ w \in toCheck
    /\ IF indexed[gen][w.node] = w.version
       THEN toCheck' = toCheck \ {w} /\ UNCHANGED <<phase, outcome>>
       ELSE Refuse /\ UNCHANGED toCheck
    /\ UNCHANGED <<worldVars, evidenceVars, turnVars, cited, present, groupVars>>

\* read_node_window reads the node from the generation that is current now.
CheckWindow(w) ==
    /\ phase = "checking" /\ w \in toCheck
    /\ IF Fresh(w.node) /\ indexed[gen][w.node] = w.version
       THEN toCheck' = toCheck \ {w} /\ UNCHANGED <<phase, outcome>>
       ELSE Refuse /\ UNCHANGED toCheck
    /\ UNCHANGED <<worldVars, evidenceVars, turnVars, cited, present, groupVars>>

\* With a navigation packet its overlay must still be current as well.
EndValidation(verified) ==
    /\ phase = "checking" /\ toCheck = {}
    /\ IF gen = Pinned /\ verified
       THEN phase' = "answered" /\ UNCHANGED outcome
       ELSE Refuse
    /\ UNCHANGED <<worldVars, evidenceVars, turnVars, checkVars, present,
                   groupVars>>

Host ==
    \/ Bootstrap \/ RunTool \/ CallBreaks
    \/ \E b \in BOOLEAN :
         \/ EndCall(b) \/ Spawn(b)
         \/ Complete(b) \/ BeginValidation(b) \/ EndValidation(b)
    \/ \E d \in SUBSET {"leader", "helper"} : SignalTerm(d)
    \/ SignalKill \/ Reap \/ StopFails
    \/ \E w \in toCheck : CheckWindow(w)

World == Reindex \/ \E n \in Nodes : Edit(n)

Next == World \/ System \/ Codex \/ Host \/ TimeOut \/ Cancel

Spec == Init /\ [][Next]_vars
FairSpec == Spec /\ WF_vars(Host) /\ WF_vars(TimeOut)
---------------------------------------------------------------------------
\* The evidence still counts: the session goes on, or has an answer.
Alive == \/ phase \in {"spawn", "handshake", "loop"}
         \/ outcome = "completed"

\* Between two calls the model can read and cite only what it was sent: a call
\* that failed, or whose result was too large, leaves no node and no window behind.
IssuedWasShown ==
    Alive /\ call = NoCall => known \subseteq shown.nodes /\ issued \subseteq shown.windows

\* A report's citations are windows the model was sent, of the pinned generation,
\* whose source had the cited version at some moment after the answer.
CitationsHold ==
    phase = "answered" =>
        \A w \in cited : /\ w \in shown.windows /\ w.gen = Pinned
                        /\ <<w.node, w.version>> \in present

\* The diagnostics say how many calls ran before the first denial, and neither the
\* calls nor the denials exceed the budget, however many requests arrive.
BudgetTrue ==
    /\ ran <= MaxToolCalls /\ budget.denied <= MaxToolCalls
    /\ budget # NoBudget => budget.admitted = ran

\* The calls that ran, the answer and the end of the session are of one turn.
OneTurn ==
    /\ Cardinality(heard) <= 1
    /\ outcome = "completed" => heard = {turn}

\* Signals go to the session's own group only, and when the session has ended in
\* whatever way, no process of the group runs any more.
GroupContained ==
    /\ ~strayed
    /\ phase \in Ended => leader # "live" /\ helper # "live"

\* A session ends, although Codex may stay silent or send for ever.
SessionEnds == <>(phase \in Ended)
===============================================================================

-------------------------- MODULE HostSessionProofs --------------------------
(***************************************************************************)
(* The safety properties of HostSession for every set of nodes and windows,*)
(* every budget of tool calls and every number of edits and generations.   *)
(* Inv is inductive: the calls and the phases they run in (CallOK), the     *)
(* budget (BudgetOK), the turn (TurnOK), the process group (GroupOK), the   *)
(* evidence (EvidenceOK) and the validation (CheckOK).                      *)
(***************************************************************************)
EXTENDS HostSession, FiniteSetTheorems, TLAPS

Windows == [node : Nodes, part : UNION {Parts[n] : n \in Nodes},
            gen : Gens, version : {0, 1}]
Calls   == [tool : Tools, stage : {"begun", "ran"},
            known : SUBSET Nodes, issued : SUBSET Windows,
            nodes : SUBSET Nodes, windows : SUBSET Windows,
            result : {"ok", "bad", "fatal"}]

Before  == {"boot", "spawn", "handshake", "loop"}   \* the turn has not ended
Stop    == {"term", "kill", "reap"}
Phases  == Before \cup Stop \cup {"validate", "checking"} \cup Ended

WorldOK ==
    /\ content \in [Nodes -> {0, 1}] /\ gen \in Gens
    /\ indexed \in [Gens -> [Nodes -> {0, 1}]]
    /\ phase \in Phases

\* A call runs before the process is started, or in the message loop.
CallOK ==
    /\ call = NoCall \/ call \in Calls
    /\ call # NoCall => phase \in {"boot", "loop"}

\* In the loop the calls that were counted are those that ran, the one that runs,
\* and those that were denied.
BudgetOK ==
    /\ calls \in Nat /\ ran \in Nat /\ budget \in [admitted : Nat, denied : Nat]
    /\ BudgetTrue
    /\ phase \in {"boot", "spawn", "handshake"} =>
         calls = 0 /\ ran = 0 /\ budget = NoBudget
    /\ phase = "loop" =>
         /\ call # NoCall => calls = ran + 1 /\ calls <= MaxToolCalls
         /\ call = NoCall /\ calls <= MaxToolCalls => ran = calls
         /\ calls <= MaxToolCalls => budget = NoBudget
         /\ calls > MaxToolCalls => ran = MaxToolCalls

TurnOK ==
    /\ heard = {} \/ (heard = {turn} /\ turn \in Turns)
    /\ outcome = "completed" => heard = {turn} /\ phase \notin Before

\* The leader is not reaped while the guard is armed and signals may be sent, and
\* its id is not reused before it is reaped.
GroupOK ==
    /\ leader \in {None, "live", "zombie", "reaped"}
    /\ armed \in BOOLEAN /\ reused \in BOOLEAN /\ strayed = FALSE
    /\ phase \in {"boot", "spawn"} => leader = None /\ helper = None /\ ~armed
    /\ phase \in {"handshake", "loop"} \cup Stop =>
         armed /\ leader \in {"live", "zombie"}
    /\ phase \in {"reap", "validate", "checking"} \cup Ended =>
         leader # "live" /\ helper # "live"
    /\ phase \in {"validate", "checking"} => ~armed
    /\ reused => leader = "reaped"

\* While a call runs, what it has added is known apart from what was there before.
EvidenceOK ==
    /\ known \subseteq Nodes /\ issued \subseteq Windows
    /\ shown \in [nodes : SUBSET Nodes, windows : SUBSET Windows]
    /\ (phase \in Before \/ outcome = "completed") /\ call = NoCall =>
         known \subseteq shown.nodes /\ issued \subseteq shown.windows
    /\ call # NoCall =>
         /\ call.known \subseteq shown.nodes /\ call.issued \subseteq shown.windows
         /\ call.stage = "begun" => known = call.known /\ issued = call.issued
         /\ call.stage = "ran" => /\ known = call.known \cup call.nodes
                                 /\ issued = call.issued \cup call.windows

\* The evidence is never of a later generation than the current one; a window that
\* was re-read is of a version its source had since the answer.
CheckOK ==
    /\ \A w \in issued : w.gen <= gen
    /\ phase \in {"validate", "checking"} => outcome = "completed"
    /\ phase \in Before \cup Stop \cup {"validate"} => cited = {}
    /\ phase = "checking" =>
         /\ cited \subseteq issued /\ toCheck \subseteq cited
         /\ \A n \in Nodes : <<n, content[n]>> \in present
         /\ \A w \in cited \ toCheck : <<w.node, w.version>> \in present
    /\ CitationsHold

Inv == WorldOK /\ CallOK /\ BudgetOK /\ TurnOK /\ GroupOK /\ EvidenceOK /\ CheckOK
---------------------------------------------------------------------------
\* GroupOK is preserved.
LEMMA GroupStep ==
    ASSUME Inv, [Next]_vars
    PROVE  GroupOK'
<1> USE DEF GroupOK, Ended, Stop, Before, groupVars, None
<1>1. CASE World
  BY <1>1 DEF World, Edit, Reindex, Inv
<1>2. CASE System
  <2>1. CASE LeaderExits \/ HelperStarts \/ HelperExits
    BY <1>2, <2>1 DEF System, LeaderExits, HelperStarts, HelperExits, Inv
  <2>2. CASE OrphanReaped
    BY <1>2, <2>2 DEF System, OrphanReaped, Inv
  <2>3. CASE IdReused
    BY <1>2, <2>3 DEF System, IdReused, Inv
  <2> QED BY <1>2, <2>1, <2>2, <2>3 DEF System
<1>3. CASE Codex
  <2>1. CASE SessionBreaks \/ \E a \in BOOLEAN : Handshake(a)
    BY <2>1 DEF SessionBreaks, Handshake, GiveUp, Inv
  <2>2. ASSUME NEW own \in BOOLEAN, NEW t \in Turns,
               \/ TurnMessage(own, t)
               \/ \E r, s \in BOOLEAN, tool \in Tools \cup {"exec"} :
                    ToolCall(own, t, r, tool, s)
               \/ \E c \in SUBSET Nodes :
                    \/ Message(own, t, c)
                    \/ \E f \in BOOLEAN : TurnCompleted(own, t, f, c)
        PROVE  GroupOK'
    BY <2>2 DEF TurnMessage, ToolCall, Message, TurnCompleted, Listening, BeginCall,
       GiveUp, Inv
  <2> QED BY <1>3, <2>1, <2>2 DEF Codex
<1>4. CASE Host
  <2>1. CASE Bootstrap \/ CallBreaks
    BY <2>1 DEF Bootstrap, CallBreaks, BeginCall, GiveUp, Inv, CallOK
  <2>2. CASE RunTool
    BY <2>2 DEF RunTool, Inv
  <2>3. CASE \E b \in BOOLEAN : EndCall(b)
    BY <2>3 DEF EndCall, GiveUp, Inv, CallOK
  <2>4. CASE \E b \in BOOLEAN : Spawn(b)
    BY <2>4 DEF Spawn, Inv
  <2>5. CASE \E b \in BOOLEAN : Complete(b) \/ BeginValidation(b) \/ EndValidation(b)
    BY <2>5 DEF Complete, BeginValidation, EndValidation, Refuse, Inv
  <2>6. CASE \E d \in SUBSET {"leader", "helper"} : SignalTerm(d)
    BY <2>6 DEF SignalTerm, Signalled, Inv
  <2>7. CASE SignalKill
    BY <2>7 DEF SignalKill, Kill, Signalled, Inv
  <2>8. CASE Reap
    BY <2>8 DEF Reap, Inv
  <2>9. CASE StopFails
    BY <2>9 DEF StopFails, DropGroup, Kill, Signalled, Inv
  <2>10. CASE \E w \in toCheck : CheckWindow(w)
    BY <2>10 DEF CheckWindow, Refuse, Inv
  <2> QED BY <1>4, <2>1, <2>2, <2>3, <2>4, <2>5, <2>6, <2>7, <2>8, <2>9, <2>10
    DEF Host
<1>5. CASE TimeOut
  BY <1>5 DEF TimeOut, Waiting, GiveUp, Inv, CallOK
<1>6. CASE Cancel
  BY <1>6 DEF Cancel, Waiting, DropGroup, Kill, Signalled, Inv, CallOK
<1>7. CASE UNCHANGED vars
  BY <1>7 DEF vars, Inv
<1> QED BY <1>1, <1>2, <1>3, <1>4, <1>5, <1>6, <1>7 DEF Next

\* The type of the world, and the phases.
LEMMA WorldStep ==
    ASSUME Inv, [Next]_vars
    PROVE  WorldOK'
<1> USE DEF WorldOK, Phases, Ended, Stop, Before, worldVars
<1>1. CASE World
  <2>1. ASSUME NEW n \in Nodes, Edit(n)
        PROVE  WorldOK'
    <3>1. 1 - content[n] \in {0, 1}
      BY DEF Inv
    <3> QED BY <2>1, <3>1 DEF Edit, Inv
  <2>2. CASE Reindex
    BY <2>2, SessionAssumption DEF Reindex, Gens, Inv
  <2> QED BY <1>1, <2>1, <2>2 DEF World
<1>2. CASE System
  BY <1>2 DEF System, Inv
<1>3. CASE Codex
  <2>1. CASE SessionBreaks \/ \E a \in BOOLEAN : Handshake(a)
    BY <2>1 DEF SessionBreaks, Handshake, GiveUp, Inv
  <2>2. ASSUME NEW own \in BOOLEAN, NEW t \in Turns,
               \/ TurnMessage(own, t)
               \/ \E r, s \in BOOLEAN, tool \in Tools \cup {"exec"} :
                    ToolCall(own, t, r, tool, s)
               \/ \E c \in SUBSET Nodes :
                    \/ Message(own, t, c)
                    \/ \E f \in BOOLEAN : TurnCompleted(own, t, f, c)
        PROVE  WorldOK'
    BY <2>2 DEF TurnMessage, ToolCall, Message, TurnCompleted, Listening, BeginCall,
       GiveUp, Inv
  <2> QED BY <1>3, <2>1, <2>2 DEF Codex
<1>4. CASE Host
  <2>1. CASE Bootstrap \/ CallBreaks \/ RunTool
    BY <2>1 DEF Bootstrap, CallBreaks, RunTool, BeginCall, GiveUp, Inv
  <2>2. CASE \E b \in BOOLEAN : EndCall(b) \/ Spawn(b)
    BY <2>2 DEF EndCall, Spawn, GiveUp, Inv
  <2>3. CASE \E b \in BOOLEAN : Complete(b) \/ BeginValidation(b) \/ EndValidation(b)
    BY <2>3 DEF Complete, BeginValidation, EndValidation, Refuse, Inv
  <2>4. CASE \/ \E d \in SUBSET {"leader", "helper"} : SignalTerm(d)
             \/ SignalKill \/ Reap \/ StopFails
    BY <2>4 DEF SignalTerm, SignalKill, Reap, StopFails, Inv
  <2>5. CASE \E w \in toCheck : CheckWindow(w)
    BY <2>5 DEF CheckWindow, Refuse, Inv
  <2> QED BY <1>4, <2>1, <2>2, <2>3, <2>4, <2>5 DEF Host
<1>5. CASE TimeOut \/ Cancel
  BY <1>5 DEF TimeOut, Cancel, GiveUp, Inv
<1>6. CASE UNCHANGED vars
  BY <1>6 DEF vars, Inv
<1> QED BY <1>1, <1>2, <1>3, <1>4, <1>5, <1>6 DEF Next

\* OneTurn is preserved.
LEMMA TurnStep ==
    ASSUME Inv, [Next]_vars
    PROVE  TurnOK'
<1> USE DEF TurnOK, Before, turnVars
<1>1. CASE World \/ System
  BY <1>1 DEF World, Edit, Reindex, System, Inv
<1>2. CASE Codex
  <2>1. CASE SessionBreaks \/ \E a \in BOOLEAN : Handshake(a)
    BY <2>1 DEF SessionBreaks, Handshake, GiveUp, Inv
  <2>2. ASSUME NEW own \in BOOLEAN, NEW t \in Turns,
               \/ TurnMessage(own, t)
               \/ \E r, s \in BOOLEAN, tool \in Tools \cup {"exec"} :
                    ToolCall(own, t, r, tool, s)
               \/ \E c \in SUBSET Nodes :
                    \/ Message(own, t, c)
                    \/ \E f \in BOOLEAN : TurnCompleted(own, t, f, c)
        PROVE  TurnOK'
    <3>1. InTurn(own, t) => heard \subseteq {t}
      BY DEF InTurn, BindTurn, Turns, None, Inv
    <3>2. outcome # "completed" \/ phase # "loop"
      BY DEF Inv
    <3> QED BY <2>2, <3>1, <3>2 DEF TurnMessage, ToolCall, Message, TurnCompleted,
               Listening, BeginCall, GiveUp, Inv
  <2> QED BY <1>2, <2>1, <2>2 DEF Codex
<1>3. CASE Host
  <2>1. CASE Bootstrap \/ CallBreaks \/ RunTool
    BY <2>1 DEF Bootstrap, CallBreaks, RunTool, BeginCall, GiveUp, Inv
  <2>2. CASE \E b \in BOOLEAN : EndCall(b) \/ Spawn(b)
    BY <2>2 DEF EndCall, Spawn, GiveUp, Inv
  <2>3. CASE \E b \in BOOLEAN : Complete(b) \/ BeginValidation(b) \/ EndValidation(b)
    BY <2>3 DEF Complete, BeginValidation, EndValidation, Refuse, Inv
  <2>4. CASE \/ \E d \in SUBSET {"leader", "helper"} : SignalTerm(d)
             \/ SignalKill \/ Reap \/ StopFails
    BY <2>4 DEF SignalTerm, SignalKill, Reap, StopFails, Inv
  <2>5. CASE \E w \in toCheck : CheckWindow(w)
    BY <2>5 DEF CheckWindow, Refuse, Inv
  <2> QED BY <1>3, <2>1, <2>2, <2>3, <2>4, <2>5 DEF Host
<1>4. CASE TimeOut \/ Cancel
  BY <1>4 DEF TimeOut, Cancel, GiveUp, Inv
<1>5. CASE UNCHANGED vars
  BY <1>5 DEF vars, Inv
<1> QED BY <1>1, <1>2, <1>3, <1>4, <1>5 DEF Next

\* What a tool adds is made of nodes of the scope and of their windows.
LEMMA EffectTypes ==
    ASSUME Inv
    PROVE  Effects \subseteq [nodes : SUBSET Nodes, windows : SUBSET Windows,
                              result : {"ok", "bad", "fatal"}]
<1>1. \A n \in Nodes : \A p \in Parts[n] : Window(n, p) \in Windows
  BY DEF Window, Windows, Inv, WorldOK
<1>2. FreshNodes \subseteq Nodes
  BY DEF FreshNodes
<1> QED BY <1>1, <1>2 DEF Effects

\* A call has its type, and runs only where one may.
LEMMA CallStep ==
    ASSUME Inv, [Next]_vars
    PROVE  CallOK'
<1> USE DEF CallOK, evidenceVars
<1>1. CASE World \/ System
  BY <1>1 DEF World, Edit, Reindex, System, Ended, Inv
<1>2. CASE Codex
  <2>1. CASE SessionBreaks \/ \E a \in BOOLEAN : Handshake(a)
    BY <2>1 DEF SessionBreaks, Handshake, GiveUp, Inv
  <2>2. ASSUME NEW own \in BOOLEAN, NEW t \in Turns, NEW r \in BOOLEAN,
               NEW s \in BOOLEAN, NEW tool \in Tools \cup {"exec"},
               ToolCall(own, t, r, tool, s)
        PROVE  CallOK'
    <3>1. tool \in Tools /\ BeginCall(tool) => call' = NoCall \/ call' \in Calls
      BY DEF BeginCall, GiveUp, Calls, Inv, EvidenceOK
    <3> QED BY <2>2, <3>1 DEF ToolCall, Listening, BeginCall, GiveUp
  <2>3. ASSUME NEW own \in BOOLEAN, NEW t \in Turns,
               \/ TurnMessage(own, t)
               \/ \E c \in SUBSET Nodes :
                    \/ Message(own, t, c)
                    \/ \E f \in BOOLEAN : TurnCompleted(own, t, f, c)
        PROVE  CallOK'
    BY <2>3 DEF TurnMessage, Message, TurnCompleted, Listening, GiveUp
  <2> QED BY <1>2, <2>1, <2>2, <2>3 DEF Codex
<1>3. CASE Host
  <2>1. CASE Bootstrap \/ CallBreaks
    BY <2>1 DEF Bootstrap, CallBreaks, BeginCall, GiveUp, Calls, Tools, Inv, EvidenceOK
  <2>2. CASE RunTool
    BY <2>2, EffectTypes DEF RunTool, Calls, Inv
  <2>3. CASE \E b \in BOOLEAN : EndCall(b)
    BY <2>3 DEF EndCall, GiveUp, Inv
  <2>4. CASE \E b \in BOOLEAN : Spawn(b)
    BY <2>4 DEF Spawn, Inv
  <2>5. CASE \E b \in BOOLEAN : Complete(b) \/ BeginValidation(b) \/ EndValidation(b)
    BY <2>5 DEF Complete, BeginValidation, EndValidation, Refuse, Inv
  <2>6. CASE \/ \E d \in SUBSET {"leader", "helper"} : SignalTerm(d)
             \/ SignalKill \/ Reap \/ StopFails
    BY <2>6 DEF SignalTerm, SignalKill, Reap, StopFails, Inv
  <2>7. CASE \E w \in toCheck : CheckWindow(w)
    BY <2>7 DEF CheckWindow, Refuse, Inv
  <2> QED BY <1>3, <2>1, <2>2, <2>3, <2>4, <2>5, <2>6, <2>7 DEF Host
<1>4. CASE TimeOut \/ Cancel
  BY <1>4 DEF TimeOut, Cancel, GiveUp, Inv
<1>5. CASE UNCHANGED vars
  BY <1>5 DEF vars, Inv
<1> QED BY <1>1, <1>2, <1>3, <1>4, <1>5 DEF Next

\* BudgetTrue is preserved.
LEMMA BudgetStep ==
    ASSUME Inv, [Next]_vars
    PROVE  BudgetOK'
<1> USE SessionAssumption DEF BudgetOK, BudgetTrue, NoBudget, evidenceVars, turnVars
<1>1. CASE World \/ System
  BY <1>1 DEF World, Edit, Reindex, System, Inv
<1>2. CASE Codex
  <2>1. CASE SessionBreaks \/ \E a \in BOOLEAN : Handshake(a)
    BY <2>1 DEF SessionBreaks, Handshake, GiveUp, CallOK, Inv
  <2>2. ASSUME NEW own \in BOOLEAN, NEW t \in Turns, NEW r \in BOOLEAN,
               NEW s \in BOOLEAN, NEW tool \in Tools \cup {"exec"},
               ToolCall(own, t, r, tool, s)
        PROVE  BudgetOK'
    <3>1. CASE ~InTurn(own, t) \/ r \/ tool \notin Tools \/ workflow = "completion"
      BY <2>2, <3>1 DEF ToolCall, Listening, GiveUp, Inv
    <3>2. CASE calls' = calls + 1 /\ ~OverBudget /\ BeginCall(tool) /\ tool \in Tools
      <4>1. phase' = "loop" => call' # NoCall
        BY <2>2, <3>2 DEF ToolCall, Listening, BeginCall, GiveUp, NoCall, Tools, None
      <4>2. budget' = budget /\ phase' \in {"loop", "term"} /\ ran' = ran
        BY <2>2, <3>2 DEF ToolCall, Listening, BeginCall, GiveUp
      <4> QED BY <2>2, <3>2, <4>1, <4>2 DEF ToolCall, Listening, OverBudget, Inv
    <3>3. CASE calls' = calls + 1 /\ OverBudget
      <4>1. ran = MaxToolCalls
        BY <2>2, <3>3 DEF ToolCall, Listening, OverBudget, Inv
      <4>2. \/ phase' = "term" /\ budget' = budget
            \/ /\ phase' = "loop" /\ call' = NoCall /\ budget.denied # MaxToolCalls
               /\ budget' = [admitted |-> MaxToolCalls, denied |-> budget.denied + 1]
        BY <2>2, <3>3 DEF ToolCall, Listening, GiveUp
      <4>3. ran' = ran
        BY <2>2 DEF ToolCall
      <4> QED BY <3>3, <4>1, <4>2, <4>3 DEF OverBudget, Inv
    <3> QED BY <2>2, <3>1, <3>2, <3>3 DEF ToolCall
  <2>3. ASSUME NEW own \in BOOLEAN, NEW t \in Turns,
               \/ TurnMessage(own, t)
               \/ \E c \in SUBSET Nodes :
                    \/ Message(own, t, c)
                    \/ \E f \in BOOLEAN : TurnCompleted(own, t, f, c)
        PROVE  BudgetOK'
    BY <2>3 DEF TurnMessage, Message, TurnCompleted, Listening, GiveUp, Inv
  <2> QED BY <1>2, <2>1, <2>2, <2>3 DEF Codex
<1>3. CASE Host
  <2>1. CASE Bootstrap \/ CallBreaks
    BY <2>1 DEF Bootstrap, CallBreaks, BeginCall, GiveUp, Inv
  <2>2. CASE RunTool
    BY <2>2 DEF RunTool, NoCall, CallOK, Inv
  <2>3. CASE \E b \in BOOLEAN : EndCall(b)
    BY <2>3 DEF EndCall, GiveUp, CallOK, Inv
  <2>4. CASE \E b \in BOOLEAN : Spawn(b)
    BY <2>4 DEF Spawn, Inv
  <2>5. CASE \E b \in BOOLEAN : Complete(b) \/ BeginValidation(b) \/ EndValidation(b)
    BY <2>5 DEF Complete, BeginValidation, EndValidation, Refuse, Inv
  <2>6. CASE \/ \E d \in SUBSET {"leader", "helper"} : SignalTerm(d)
             \/ SignalKill \/ Reap \/ StopFails
    BY <2>6 DEF SignalTerm, SignalKill, Reap, StopFails, Inv
  <2>7. CASE \E w \in toCheck : CheckWindow(w)
    BY <2>7 DEF CheckWindow, Refuse, Inv
  <2> QED BY <1>3, <2>1, <2>2, <2>3, <2>4, <2>5, <2>6, <2>7 DEF Host
<1>4. CASE TimeOut \/ Cancel
  BY <1>4 DEF TimeOut, Cancel, GiveUp, Inv
<1>5. CASE UNCHANGED vars
  BY <1>5 DEF vars, Inv
<1> QED BY <1>1, <1>2, <1>3, <1>4, <1>5 DEF Next

\* IssuedWasShown is preserved: a call adds to what the model can cite only what it
\* delivers, and otherwise its roll back takes away what it has added.
LEMMA EvidenceStep ==
    ASSUME Inv, [Next]_vars
    PROVE  EvidenceOK'
<1> USE DEF EvidenceOK, Before, evidenceVars
<1>1. CASE World \/ System
  BY <1>1 DEF World, Edit, Reindex, System, Ended, Inv
<1>2. CASE Codex
  <2>1. CASE SessionBreaks \/ \E a \in BOOLEAN : Handshake(a)
    BY <2>1 DEF SessionBreaks, Handshake, GiveUp, Inv
  <2>2. ASSUME NEW own \in BOOLEAN, NEW t \in Turns, NEW r \in BOOLEAN,
               NEW s \in BOOLEAN, NEW tool \in Tools \cup {"exec"},
               ToolCall(own, t, r, tool, s)
        PROVE  EvidenceOK'
    <3>1. tool \in Tools /\ BeginCall(tool) =>
            \/ call' = NoCall /\ outcome' = "error" /\ phase' = "term"
            \/ /\ call'.known = known /\ call'.issued = issued
               /\ call'.stage = "begun" /\ call' # NoCall
      BY <2>2 DEF ToolCall, Listening, BeginCall, GiveUp, NoCall, Tools, None
    <3>2. \/ call' = NoCall /\ call = NoCall /\ phase' = phase
          \/ call' = NoCall /\ outcome' = "error" /\ phase' = "term"
          \/ tool \in Tools /\ BeginCall(tool)
      BY <2>2 DEF ToolCall, Listening, GiveUp
    <3>3. /\ UNCHANGED <<known, issued, shown>> /\ phase = "loop" /\ call = NoCall
      BY <2>2 DEF ToolCall, Listening
    <3> QED BY <3>1, <3>2, <3>3 DEF Inv
  <2>3. ASSUME NEW own \in BOOLEAN, NEW t \in Turns,
               \/ TurnMessage(own, t)
               \/ \E c \in SUBSET Nodes :
                    \/ Message(own, t, c)
                    \/ \E f \in BOOLEAN : TurnCompleted(own, t, f, c)
        PROVE  EvidenceOK'
    BY <2>3 DEF TurnMessage, Message, TurnCompleted, Listening, GiveUp, Inv
  <2> QED BY <1>2, <2>1, <2>2, <2>3 DEF Codex
<1>3. CASE Host
  <2>1. CASE CallBreaks
    BY <2>1 DEF CallBreaks, GiveUp, Inv, CallOK
  <2>2. CASE Bootstrap
    <3>1. \/ call' = NoCall /\ outcome' = "error" /\ phase' = "failed"
          \/ /\ call'.known = known /\ call'.issued = issued
             /\ call'.stage = "begun" /\ call' # NoCall
      BY <2>2 DEF Bootstrap, BeginCall, GiveUp, NoCall, Tools, None
    <3> QED BY <2>2, <3>1 DEF Bootstrap, Inv
  <2>3. CASE RunTool
    <3>1. PICK e \in Effects :
            /\ known' = known \cup e.nodes /\ issued' = issued \cup e.windows
            /\ call' = [tool |-> call.tool, stage |-> "ran", known |-> call.known,
                        issued |-> call.issued, nodes |-> e.nodes,
                        windows |-> e.windows, result |-> e.result]
      BY <2>3 DEF RunTool
    <3>2. e.nodes \subseteq Nodes /\ e.windows \subseteq Windows
      BY EffectTypes
    <3>3. call # NoCall /\ call.stage = "begun" /\ shown' = shown
      BY <2>3 DEF RunTool
    <3>4. /\ call'.known = call.known /\ call'.issued = call.issued /\ call' # NoCall
          /\ call'.nodes = e.nodes /\ call'.windows = e.windows /\ call'.stage = "ran"
      BY <3>1, <3>3 DEF CallOK, Calls, NoCall, Tools, None, Inv
    <3> QED BY <3>1, <3>2, <3>3, <3>4 DEF Inv
  <2>4. ASSUME NEW b \in BOOLEAN, EndCall(b)
        PROVE  EvidenceOK'
    <3>1. call \in Calls /\ call.stage = "ran" /\ phase \in {"boot", "loop"}
      BY <2>4 DEF EndCall, CallOK, Inv
    <3>2. CASE gen # Pinned
      BY <2>4, <3>1, <3>2 DEF EndCall, GiveUp, Inv
    <3>3. CASE gen = Pinned /\ call.result = "ok" /\ b
      <4>1. /\ known' = known /\ issued' = issued /\ call' = NoCall
            /\ shown' = [nodes   |-> shown.nodes \cup call.nodes,
                         windows |-> shown.windows \cup call.windows]
        BY <2>4, <3>3 DEF EndCall, RollBack, GiveUp
      <4>2. call.nodes \subseteq Nodes /\ call.windows \subseteq Windows
        BY <3>1 DEF Calls
      <4>3. call # NoCall
        BY <2>4 DEF EndCall
      <4> QED BY <3>1, <4>1, <4>2, <4>3 DEF Inv
    <3>4. CASE gen = Pinned /\ ~(call.result = "ok" /\ b)
      <4>1. known' = call.known /\ issued' = call.issued /\ call' = NoCall
            /\ shown' = shown
        BY <2>4, <3>4 DEF EndCall, RollBack, GiveUp
      <4>2. call.known \subseteq Nodes /\ call.issued \subseteq Windows
        BY <3>1 DEF Calls
      <4>3. call # NoCall
        BY <2>4 DEF EndCall
      <4> QED BY <3>1, <4>1, <4>2, <4>3 DEF Inv
    <3> QED BY <3>2, <3>3, <3>4
  <2>5. CASE \E b \in BOOLEAN : Spawn(b)
    BY <2>5 DEF Spawn, Inv
  <2>6. CASE \E b \in BOOLEAN : Complete(b) \/ BeginValidation(b) \/ EndValidation(b)
    BY <2>6 DEF Complete, BeginValidation, EndValidation, Refuse, Inv
  <2>7. CASE \/ \E d \in SUBSET {"leader", "helper"} : SignalTerm(d)
             \/ SignalKill \/ Reap \/ StopFails
    BY <2>7 DEF SignalTerm, SignalKill, Reap, StopFails, Inv
  <2>8. CASE \E w \in toCheck : CheckWindow(w)
    BY <2>8 DEF CheckWindow, Refuse, Inv
  <2> QED BY <1>3, <2>1, <2>2, <2>3, <2>4, <2>5, <2>6, <2>7, <2>8 DEF Host
<1>4. CASE TimeOut \/ Cancel
  BY <1>4 DEF TimeOut, Cancel, GiveUp, Inv
<1>5. CASE UNCHANGED vars
  BY <1>5 DEF vars, Inv
<1> QED BY <1>1, <1>2, <1>3, <1>4, <1>5 DEF Next

\* CitationsHold is preserved: generations only grow, so evidence that is cited
\* while the pinned generation is current was read from it.
LEMMA CheckStep ==
    ASSUME Inv, [Next]_vars
    PROVE  CheckOK'
<1> USE DEF CheckOK, CitationsHold, Before, Stop, Ended, worldVars, evidenceVars,
            checkVars
<1>1. CASE World
  <2>1. ASSUME NEW n \in Nodes, Edit(n)
        PROVE  CheckOK'
    <3>1. phase = "checking" =>
            /\ present' = present \cup {<<n, 1 - content[n]>>}
            /\ \A m \in Nodes : content'[m] = IF m = n THEN 1 - content[n]
                                                 ELSE content[m]
      BY <2>1 DEF Edit, Inv, WorldOK
    <3>2. phase # "checking" => present' = present
      BY <2>1 DEF Edit
    <3>3. UNCHANGED <<gen, issued, phase, outcome, cited, toCheck, shown>>
      BY <2>1 DEF Edit
    <3> QED BY <3>1, <3>2, <3>3 DEF Inv
  <2>2. CASE Reindex
    <3>1. \A w \in issued : w.gen \in Nat
      BY SessionAssumption DEF Inv, EvidenceOK, Windows, Gens
    <3>2. gen \in Nat /\ gen' = gen + 1
      BY <2>2, SessionAssumption DEF Reindex, Inv, WorldOK, Gens
    <3>3. UNCHANGED <<content, issued, phase, outcome, cited, toCheck, shown, present>>
      BY <2>2 DEF Reindex
    <3> QED BY <3>1, <3>2, <3>3 DEF Inv
  <2> QED BY <1>1, <2>1, <2>2 DEF World
<1>2. CASE System
  BY <1>2 DEF System, Inv
<1>3. CASE Codex
  <2>1. CASE SessionBreaks \/ \E a \in BOOLEAN : Handshake(a)
    BY <2>1 DEF SessionBreaks, Handshake, GiveUp, Inv
  <2>2. ASSUME NEW own \in BOOLEAN, NEW t \in Turns,
               \/ TurnMessage(own, t)
               \/ \E r, s \in BOOLEAN, tool \in Tools \cup {"exec"} :
                    ToolCall(own, t, r, tool, s)
               \/ \E c \in SUBSET Nodes :
                    \/ Message(own, t, c)
                    \/ \E f \in BOOLEAN : TurnCompleted(own, t, f, c)
        PROVE  CheckOK'
    <3>1. /\ phase = "loop" /\ phase' \in {"loop", "term"}
          /\ UNCHANGED <<gen, issued, cited>>
      BY <2>2 DEF TurnMessage, ToolCall, Message, TurnCompleted, Listening,
         BeginCall, GiveUp
    <3> QED BY <3>1 DEF Inv
  <2> QED BY <1>3, <2>1, <2>2 DEF Codex
<1>4. CASE Host
  <2>1. CASE Bootstrap \/ CallBreaks
    BY <2>1 DEF Bootstrap, CallBreaks, BeginCall, GiveUp, Inv, CallOK
  <2>2. CASE RunTool
    <3>1. PICK e \in Effects : issued' = issued \cup e.windows
      BY <2>2 DEF RunTool
    <3>2. \A w \in e.windows : w.gen <= gen
      <4>1. \A n \in Nodes : \A q \in Parts[n] : Window(n, q).gen <= gen
        BY SessionAssumption DEF Window, Inv, WorldOK, Gens
      <4>2. e.windows \subseteq UNION {{Window(n, q) : q \in Parts[n]} : n \in FreshNodes}
        BY DEF Effects
      <4> QED BY <4>1, <4>2 DEF FreshNodes
    <3>3. /\ UNCHANGED <<content, gen, phase, outcome, cited, toCheck, shown, present>>
          /\ phase \in {"boot", "loop"}
      BY <2>2 DEF RunTool, Inv, CallOK
    <3> QED BY <3>1, <3>2, <3>3 DEF Inv
  <2>3. ASSUME NEW b \in BOOLEAN, EndCall(b)
        PROVE  CheckOK'
    <3>1. /\ phase \in {"boot", "loop"}
          /\ phase' \in {"boot", "loop", "spawn", "failed", "term"}
          /\ UNCHANGED <<gen, cited>>
      BY <2>3 DEF EndCall, GiveUp, Inv, CallOK
    <3>2. issued' \subseteq issued
      BY <2>3 DEF EndCall, RollBack, GiveUp, Inv, EvidenceOK
    <3> QED BY <3>1, <3>2 DEF Inv
  <2>4. CASE \E b \in BOOLEAN : Spawn(b)
    BY <2>4 DEF Spawn, Inv
  <2>5. CASE \E b \in BOOLEAN : Complete(b)
    BY <2>5 DEF Complete, Refuse, Inv
  <2>6. CASE \E b \in BOOLEAN : BeginValidation(b)
    BY <2>6 DEF BeginValidation, Refuse, Inv
  <2>7. CASE \E b \in BOOLEAN : EndValidation(b)
    <3>1. phase = "checking" /\ toCheck = {}
      BY <2>7 DEF EndValidation
    <3>2. phase' = "answered" => gen = Pinned
      BY <2>7 DEF EndValidation, Refuse
    <3>3. \A w \in cited : /\ w \in shown.windows /\ w.gen \in Nat /\ w.gen <= gen
                            /\ <<w.node, w.version>> \in present
      <4>1. issued \subseteq shown.windows
        BY <3>1 DEF Inv, EvidenceOK, CallOK
      <4>2. \A w \in issued : w.gen \in Nat
        BY SessionAssumption DEF Inv, EvidenceOK, Windows, Gens
      <4> QED BY <3>1, <4>1, <4>2 DEF Inv
    <3>4. /\ UNCHANGED <<gen, issued, cited, shown, present>>
          /\ phase' \in {"answered", "failed"}
      BY <2>7 DEF EndValidation, Refuse
    <3> QED BY <3>2, <3>3, <3>4 DEF Pinned, Inv
  <2>8. CASE \/ \E d \in SUBSET {"leader", "helper"} : SignalTerm(d)
             \/ SignalKill \/ Reap \/ StopFails
    BY <2>8 DEF SignalTerm, SignalKill, Reap, StopFails, Inv
  <2>9. ASSUME NEW w \in toCheck, CheckWindow(w)
        PROVE  CheckOK'
    <3>1. UNCHANGED <<content, gen, issued, cited, shown, present>> /\ phase = "checking"
      BY <2>9 DEF CheckWindow
    <3>2. CASE Refuse
      BY <3>1, <3>2 DEF Refuse, Inv
    <3>3. CASE /\ Fresh(w.node) /\ indexed[gen][w.node] = w.version
               /\ toCheck' = toCheck \ {w} /\ UNCHANGED <<phase, outcome>>
      <4>1. w.node \in Nodes
        BY <3>1 DEF Inv, EvidenceOK, Windows
      <4>2. <<w.node, w.version>> \in present
        BY <3>1, <3>3, <4>1 DEF Fresh, Inv
      <4> QED BY <3>1, <3>3, <4>2 DEF Inv
    <3> QED BY <2>9, <3>2, <3>3 DEF CheckWindow
  <2> QED BY <1>4, <2>1, <2>2, <2>3, <2>4, <2>5, <2>6, <2>7, <2>8, <2>9 DEF Host
<1>5. CASE TimeOut \/ Cancel
  BY <1>5 DEF TimeOut, Cancel, Waiting, GiveUp, Inv, CallOK
<1>6. CASE UNCHANGED vars
  BY <1>6 DEF vars, Inv
<1> QED BY <1>1, <1>2, <1>3, <1>4, <1>5, <1>6 DEF Next
---------------------------------------------------------------------------
\* Every session starts in Inv and never leaves it.
LEMMA Invariance == Spec => []Inv
<1>1. Init => Inv
  <2> SUFFICES ASSUME Init
               PROVE  Inv
    OBVIOUS
  <2>1. WorldOK /\ CallOK
    BY SessionAssumption DEF Init, WorldOK, CallOK, Gens, Pinned, Phases, Before
  <2>2. BudgetOK
    BY SessionAssumption DEF Init, BudgetOK, BudgetTrue, NoBudget
  <2>3. TurnOK /\ GroupOK
    BY DEF Init, TurnOK, GroupOK, Before, Stop, Ended, None
  <2>4. EvidenceOK /\ CheckOK
    BY DEF Init, EvidenceOK, CheckOK, CitationsHold
  <2> QED BY <2>1, <2>2, <2>3, <2>4 DEF Inv
<1>2. Inv /\ [Next]_vars => Inv'
  BY WorldStep, CallStep, BudgetStep, TurnStep, GroupStep, EvidenceStep, CheckStep
  DEF Inv
<1> QED BY <1>1, <1>2, PTL DEF Spec

\* Whatever order messages come in, and wherever the session breaks or is dropped,
\* the diagnostics of the budget agree with the calls that ran.
THEOREM BudgetKept == Spec => []BudgetTrue
<1>1. Inv => BudgetTrue
  BY DEF Inv, BudgetOK
<1> QED BY <1>1, Invariance, PTL

\* A session's calls, answer and end belong to one turn, however Codex mixes the
\* messages of several.
THEOREM TurnBound == Spec => []OneTurn
<1>1. Inv => OneTurn
  <2>1. Cardinality({}) = 0 /\ Cardinality({turn}) = 1
    BY FS_EmptySet, FS_Singleton
  <2> QED BY <2>1 DEF Inv, TurnOK, OneTurn
<1> QED BY <1>1, Invariance, PTL

\* No signal strays and no process of the group outlives the session, whether the
\* turn ends, the deadline passes, the stop fails or the future is dropped.
THEOREM GroupStopped == Spec => []GroupContained
<1>1. Inv => GroupContained
  BY DEF Inv, GroupOK, GroupContained
<1> QED BY <1>1, Invariance, PTL

\* Nodes and windows that can be read and cited between two calls are exactly of
\* payloads that were delivered.
THEOREM OnlyShownIsIssued == Spec => []IssuedWasShown
<1>1. Inv => IssuedWasShown
  BY DEF Inv, EvidenceOK, IssuedWasShown, Alive, Before
<1> QED BY <1>1, Invariance, PTL

\* Citations of an accepted report were delivered, are of the pinned generation, and
\* quote text that its source had after the answer was given.
THEOREM CitationsSound == Spec => []CitationsHold
<1>1. Inv => CitationsHold
  BY DEF Inv, CheckOK
<1> QED BY <1>1, Invariance, PTL
===============================================================================

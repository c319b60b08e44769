------------------------ MODULE PlannedSearchProofs -------------------------
(***************************************************************************)
(* The safety of planned searches, for any number of alternates, of views  *)
(* in flight, of candidates and of generations published meanwhile.        *)
(***************************************************************************)
EXTENDS PlannedSearch, FiniteSetTheorems, TLAPS

\* What each operation has behind it: the events on record follow its stage, and
\* the ledger file is behind the memory only where it may be.
OperationInv(o) ==
    /\ stage[o] = "waiting" => ops[o] = NoEvent /\ o \notin sent /\ o \notin replied
    /\ stage[o] \in {"admitted", "asking"} => o \notin sent /\ o \notin replied
    /\ stage[o] = "asked" => o \in sent /\ o \notin replied
    /\ stage[o] \in {"collected", "finished"} => (o \in sent) = (o \in replied)
    /\ stage[o] = "finished" => ledger.ops[o] = ops[o]
    /\ stage[o] \in Ended => ops[o].event = stage[o]
    /\ ops[o].event = "failed" => stage[o] = "failed"
    /\ o \in sent => ops[o].attempted = 1 /\ ledger.ops[o].attempted = 1
    /\ (o \in replied) = (ops[o].requests = 1)
    /\ ledger.ops[o].requests = 1 => o \in replied

OperationsInv == \A o \in Ops : OperationInv(o)

\* At most one operation runs, and none after one has failed.
AloneInv ==
    /\ \A o, p \in Running : o = p
    /\ \A o, p \in Ops : stage[o] = "failed" =>
          p \notin Running /\ (stage[p] = "failed" => p = o)

AllFinished == \A o \in Ops : stage[o] = "finished"

\* pc in the delivery by the host, where nothing waits.
Delivery == {"rechecking", "confirming", "fusing", "packing", "issuing",
             "delivering", "receipting", "ready"}

\* Where the task is says which operations can be left.
TaskInv ==
    /\ pc = "open" => \A o \in Ops : stage[o] = "waiting"
    /\ pc = "routing" => stage[Union] = "waiting"
    /\ pc = "judging" => \A o \in Routes : stage[o] = "finished"
    /\ pc = "dropping" => Running = {}
    /\ pc \in Delivery => AllFinished
    /\ pc \in {"failing", "closing", "closed"} =>
          \A o \in Ops : stage[o] \in {"waiting"} \cup Ended

\* A refused record stops the search.
RefusalInv ==
    refused /\ pc \in {"open", "routing", "judging"} =>
        \E o \in Ops : stage[o] \in {"failing", "failed"}

\* The host issues after the judgment and takes back what it issued.
HostInv ==
    /\ readAt <= current
    /\ pc \in {"fusing", "packing", "issuing", "delivering", "receipting", "ready"}
          => readAt = Pinned
    /\ issued > 0 => AllFinished
    /\ pc \in {"open", "routing", "judging", "rechecking", "confirming", "fusing",
               "dropping", "packing", "issuing", "closing", "closed"} => issued = 0
    /\ pc \in {"open", "routing", "judging", "rechecking", "confirming", "fusing",
               "dropping"} => status = "running"
    /\ pc = "closing" => status \in {"running", "failed"}
    /\ pc = "closed" => status = "failed"
    /\ pc \in {"delivering", "receipting", "ready"} => issued = hits
    /\ pc \in {"receipting", "ready"} =>
          /\ status = (IF issued = 0 THEN "filtered_all" ELSE "reranked")
          /\ ledger.status = status

IInv == TypeOK /\ OperationsInv /\ AloneInv /\ TaskInv /\ RefusalInv /\ HostInv
---------------------------------------------------------------------------
(***************************************************************************)
(* Lemmas on the parts of a step.                                          *)
(***************************************************************************)

\* The numbers of the operations: the union is none of the routes.
LEMMA Numbers ==
    /\ Union \in Ops /\ Union \notin Routes
    /\ \A o \in Ops : o \in Routes \/ o = Union
    /\ \A o \in Routes : o \in Ops
BY PlanAssumption DEF Union, Ops, Routes

\* How the ledger file may change: not at all, or to what is in memory.
LedgerStep == ledger' = ledger \/ (ledger'.ops = ops' /\ ledger'.status = status')

\* Append changes the file as LedgerStep allows.
LEMMA AppendStep ==
    ASSUME NEW ok \in BOOLEAN, Append(ok)
    PROVE  LedgerStep
BY DEF Append, LedgerStep

Stages == {"waiting", "admitted", "asking", "asked", "collected", "failing"} \cup Ended

\* An operation that a step leaves alone keeps its invariant.
LEMMA Untouched ==
    ASSUME NEW p \in Ops, OperationInv(p),
           stage'[p] = stage[p], ops'[p] = ops[p],
           (p \in sent') = (p \in sent), (p \in replied') = (p \in replied),
           LedgerStep
    PROVE  OperationInv(p)'
<1>1. CASE ledger' = ledger
  BY <1>1, Zenon DEF OperationInv
<1>2. CASE ledger'.ops = ops'
  BY <1>2 DEF OperationInv
<1> QED
  BY <1>1, <1>2 DEF LedgerStep

\* A step of the one operation o that can run.
Advance(o) ==
    /\ stage' = [stage EXCEPT ![o] = stage'[o]]
    /\ ops' = [ops EXCEPT ![o] = ops'[o]]
    /\ sent' \in {sent, sent \cup {o}}
    /\ replied' \in {replied, replied \cup {o}}
    /\ LedgerStep
    /\ UNCHANGED <<current, readAt, roles, pc, status, issued>>

\* o may run, and the others of its phase have not failed.
Active(o) ==
    /\ Running \subseteq {o}
    /\ \A p \in Ops : stage[p] # "failed"
    /\ stage[o] \notin Ended
    /\ pc \in {"routing", "judging"}
    /\ pc = "routing" => o # Union

\* What the step of an operation does to the others, and to the types.
LEMMA AdvanceOperations ==
    ASSUME IInv, NEW o \in Ops, Advance(o),
           OperationInv(o)', hits' \in 0..MaxHits,
           stage'[o] \in Stages, ops'[o] \in Event, refused' \in BOOLEAN
    PROVE  /\ \A p \in Ops : p # o => stage'[p] = stage[p]
           /\ TypeOK' /\ OperationsInv'
<1> USE DEF IInv
<1>1. /\ stage \in [Ops -> Stages] /\ ops \in [Ops -> Event]
      /\ \A p \in Ops : p # o => stage'[p] = stage[p] /\ ops'[p] = ops[p]
      /\ \A p \in Ops : p # o => (p \in sent') = (p \in sent)
      /\ \A p \in Ops : p # o => (p \in replied') = (p \in replied)
  BY DEF Advance, TypeOK, Stages
<1>2. TypeOK'
  <2>1. stage' \in [Ops -> Stages] /\ ops' \in [Ops -> Event]
    BY <1>1 DEF Advance
  <2>2. sent' \subseteq Ops /\ replied' \subseteq Ops
    BY DEF TypeOK, Advance
  <2>3. ledger'.ops \in [Ops -> Event]
        /\ ledger'.status \in {"running", "awaiting_delivery", "filtered_all",
                               "reranked", "failed"}
    BY <2>1 DEF TypeOK, Advance, LedgerStep
  <2> QED
    BY <2>1, <2>2, <2>3 DEF TypeOK, Advance, Stages
<1>3. OperationsInv'
  <2> SUFFICES ASSUME NEW p \in Ops, p # o PROVE OperationInv(p)'
    BY DEF OperationsInv, Ops
  <2> QED
    BY <1>1, Untouched DEF OperationsInv, Advance
<1> QED
  BY <1>1, <1>2, <1>3

\* A step of the one operation that may run keeps the invariant.
LEMMA AdvanceInv ==
    ASSUME IInv, NEW o \in Ops, Active(o), Advance(o),
           OperationInv(o)', hits' \in 0..MaxHits,
           stage'[o] \in Stages \ {"failed"}, ops'[o] \in Event,
           refused' \in BOOLEAN,
           refused' => refused \/ stage'[o] = "failing",
           stage[o] # "failing"
    PROVE  IInv'
<1>1. (\A p \in Ops : p # o => stage'[p] = stage[p]) /\ TypeOK' /\ OperationsInv'
  BY AdvanceOperations
<1> USE DEF IInv
<1>4. AloneInv'
  <2>1. Running' \subseteq {o}
    BY <1>1 DEF Running, Active
  <2>2. \A p \in Ops : stage'[p] # "failed"
    BY <1>1 DEF Active
  <2> QED
    BY <2>1, <2>2 DEF AloneInv
<1>5. TaskInv'
  <2>1. pc' = pc
    BY DEF Advance
  <2>2. CASE pc = "routing"
    BY <2>1, <2>2, <1>1, Numbers DEF TaskInv, Active, Delivery
  <2>3. CASE pc = "judging"
    <3>1. o \notin Routes
      BY <2>3 DEF TaskInv, Active, Ended
    <3> QED
      BY <2>1, <2>3, <3>1, <1>1, Numbers DEF TaskInv, Delivery
  <2> QED
    BY <2>2, <2>3 DEF Active
<1>6. RefusalInv'
  <2> SUFFICES ASSUME refused' PROVE \E p \in Ops : stage'[p] \in {"failing", "failed"}
    BY DEF RefusalInv
  <2>1. CASE stage'[o] = "failing"
    BY <2>1
  <2>2. CASE refused
    <3>1. PICK p \in Ops : stage[p] \in {"failing", "failed"}
      BY <2>2 DEF RefusalInv, Active
    <3>2. p \in Running
      BY <3>1 DEF Active, Running, Ended
    <3> QED
      BY <3>1, <3>2, <1>1 DEF Active
  <2> QED
    BY <2>1, <2>2
<1>7. HostInv'
  BY DEF HostInv, Advance, Active
<1> QED
  BY <1>1, <1>4, <1>5, <1>6, <1>7
---------------------------------------------------------------------------
(***************************************************************************)
(* The steps of one operation.                                             *)
(***************************************************************************)

\* A search begins in the invariant.
LEMMA InitInv == Init => IInv
<1> SUFFICES ASSUME Init PROVE IInv
  OBVIOUS
<1>1. \A o \in Ops : stage[o] = "waiting" /\ ops[o] = NoEvent
  BY DEF Init
<1>2. TypeOK
  <2>1. NoEvent \in Event
    BY DEF NoEvent, Event
  <2>2. current \in 0..MaxReindex /\ readAt \in 0..MaxReindex
        /\ hits \in 0..MaxHits /\ issued \in 0..MaxHits
    BY PlanAssumption DEF Init, Pinned
  <2> QED
    BY <2>1, <2>2 DEF Init, TypeOK
<1>3. OperationsInv
  BY <1>1 DEF Init, OperationsInv, OperationInv, NoEvent, Ended
<1>4. AloneInv
  BY <1>1 DEF AloneInv, Running
<1>5. TaskInv /\ RefusalInv
  BY <1>1, Numbers DEF Init, TaskInv, RefusalInv, Delivery
<1>6. HostInv
  BY DEF Init, HostInv, Pinned
<1> QED
  BY <1>2, <1>3, <1>4, <1>5, <1>6 DEF IInv

\* Progress keeps an event in its type.
LEMMA ProgressType ==
    ASSUME NEW o \in Ops, ops \in [Ops -> Event],
           NEW event \in {"admitted", "before_call", "after_reply", "finished",
                          "failed", "interrupted"}
    PROVE  /\ Progress(o, event) \in Event
           /\ Progress(o, event).event = event
           /\ Progress(o, event).attempted =
                 IF event = "before_call" THEN 1 ELSE ops[o].attempted
           /\ Progress(o, event).requests =
                 IF event = "after_reply" THEN 1 ELSE ops[o].requests
BY DEF Progress, Event

\* What Emit does to the operation and to the ledger.
LEMMA EmitStep ==
    ASSUME IInv, NEW o \in Ops,
           NEW event \in {"admitted", "before_call", "after_reply", "finished"},
           NEW next \in Stages, Emit(o, event, next)
    PROVE  /\ stage' = [stage EXCEPT ![o] = stage'[o]]
           /\ ops' = [ops EXCEPT ![o] = ops'[o]]
           /\ ops'[o] = Progress(o, event)
           /\ status' = status
           /\ refused' \in BOOLEAN
           /\ \/ /\ stage'[o] = next /\ ledger'.ops = ops' /\ ledger'.status = status'
                 /\ refused' = refused
              \/ /\ stage'[o] = "failing" /\ LedgerStep
                 /\ ledger'.ops[o] \in {ledger.ops[o], ops'[o]}
<1>1. PICK ok \in BOOLEAN : /\ Record(o, Progress(o, event), ok)
                            /\ stage' = [stage EXCEPT ![o] = IF ok THEN next ELSE "failing"]
  BY DEF Emit
<1>2. LedgerStep
  BY <1>1, AppendStep DEF Record
<1>3. ledger'.ops[o] \in {ledger.ops[o], ops'[o]}
  BY <1>2 DEF LedgerStep
<1>4. ok => ledger'.ops = ops' /\ ledger'.status = status' /\ refused' = refused
  BY <1>1 DEF Record, Append, IInv, TypeOK
<1> QED
  BY <1>1, <1>2, <1>3, <1>4 DEF IInv, TypeOK, Emit, Record

\* What Goto does to the operation: its event stays.
LEMMA GotoStep ==
    ASSUME IInv, NEW o \in Ops, NEW next \in Stages, Goto(o, next)
    PROVE  /\ stage' = [stage EXCEPT ![o] = next]
           /\ stage'[o] = next
           /\ ops' = [ops EXCEPT ![o] = ops'[o]] /\ ops'[o] = ops[o]
           /\ UNCHANGED <<status, ledger, refused, ops>>
BY DEF IInv, TypeOK, Goto

\* CanRun is what Active asks for.
LEMMA CanRunActive ==
    ASSUME IInv, NEW o \in Ops, CanRun(o), stage[o] \notin Ended,
           o \in Routes \/ stage[o] # "waiting"
    PROVE  Active(o)
BY Numbers DEF CanRun, Active, IInv, TaskInv

\* A view is admitted.
LEMMA StartInv ==
    ASSUME IInv, NEW o \in Routes, Start(o)
    PROVE  IInv'
<1>1. o \in Ops /\ ops \in [Ops -> Event] /\ "admitted" \in Stages
  BY Numbers DEF IInv, TypeOK, Stages
<1>2. Active(o) /\ stage[o] = "waiting"
  BY <1>1, CanRunActive DEF Start, Startable, Ended
<1>3. Emit(o, "admitted", "admitted")
  BY DEF Start
<1>4. Advance(o)
  BY <1>1, <1>3, EmitStep DEF Advance, Start, LedgerStep
<1>5. OperationInv(o)
  BY <1>1 DEF IInv, OperationsInv
<1>6. OperationInv(o)'
  BY <1>1, <1>2, <1>3, <1>5, EmitStep, ProgressType
     DEF OperationInv, Start, Ended, NoEvent
<1> QED
  BY <1>1, <1>2, <1>3, <1>4, <1>6, EmitStep, ProgressType, AdvanceInv
     DEF Start, Stages, Ended, IInv, TypeOK

\* A view's local part ends, or fails.
LEMMA CollectInv ==
    ASSUME IInv, NEW o \in Routes, Collect(o)
    PROVE  IInv'
<1>1. o \in Ops /\ ops \in [Ops -> Event]
  BY Numbers DEF IInv, TypeOK
<1>2. Active(o) /\ stage[o] = "admitted"
  BY <1>1, CanRunActive DEF Collect, Ended
<1>3. PICK next \in {"asking", "collected", "failing"} : Goto(o, next)
  BY DEF Collect
<1>4. next \in Stages
  BY <1>3 DEF Stages
<1>5. Advance(o)
  BY <1>1, <1>3, <1>4, GotoStep DEF Advance, Collect, LedgerStep
<1>6. OperationInv(o)
  BY <1>1 DEF IInv, OperationsInv
<1>7. OperationInv(o)'
  BY <1>1, <1>2, <1>3, <1>4, <1>6, GotoStep DEF OperationInv, Collect, Ended
<1> QED
  BY <1>1, <1>2, <1>3, <1>4, <1>5, <1>7, GotoStep, AdvanceInv
     DEF Collect, Stages, Ended, IInv, TypeOK

\* A request is recorded and leaves, or does neither.
LEMMA AskInv ==
    ASSUME IInv, NEW o \in Ops, Ask(o)
    PROVE  IInv'
<1>1. o \in Ops /\ ops \in [Ops -> Event] /\ "asked" \in Stages
  BY Numbers DEF IInv, TypeOK, Stages
<1>2. Active(o) /\ stage[o] = "asking"
  BY <1>1, CanRunActive DEF Ask, Ended
<1>3. Emit(o, "before_call", "asked")
  BY DEF Ask
<1>4. Advance(o)
  BY <1>1, <1>3, EmitStep DEF Advance, Ask, LedgerStep
<1>5. OperationInv(o)
  BY <1>1 DEF IInv, OperationsInv
<1>6. OperationInv(o)'
  BY <1>1, <1>2, <1>3, <1>5, EmitStep, ProgressType
     DEF OperationInv, Ask, Ended
<1> QED
  BY <1>1, <1>2, <1>3, <1>4, <1>6, EmitStep, ProgressType, AdvanceInv
     DEF Ask, Stages, Ended, IInv, TypeOK

\* A reply arrives and is recorded, or its record is refused.
LEMMA ReplyInv ==
    ASSUME IInv, NEW o \in Ops, Reply(o)
    PROVE  IInv'
<1>1. o \in Ops /\ ops \in [Ops -> Event] /\ "collected" \in Stages
  BY Numbers DEF IInv, TypeOK, Stages
<1>2. Active(o) /\ stage[o] = "asked"
  BY <1>1, CanRunActive DEF Reply, Ended
<1>3. Emit(o, "after_reply", "collected")
  BY DEF Reply
<1>4. Advance(o)
  BY <1>1, <1>3, EmitStep DEF Advance, Reply, LedgerStep
<1>5. OperationInv(o)
  BY <1>1 DEF IInv, OperationsInv
<1>6. OperationInv(o)'
  BY <1>1, <1>2, <1>3, <1>5, EmitStep, ProgressType
     DEF OperationInv, Reply, Ended
<1> QED
  BY <1>1, <1>2, <1>3, <1>4, <1>6, EmitStep, ProgressType, AdvanceInv
     DEF Reply, Stages, Ended, IInv, TypeOK

\* A view records its end.
LEMMA FinishInv ==
    ASSUME IInv, NEW o \in Routes, Finish(o)
    PROVE  IInv'
<1>1. o \in Ops /\ ops \in [Ops -> Event] /\ "finished" \in Stages
  BY Numbers DEF IInv, TypeOK, Stages, Ended
<1>2. Active(o) /\ stage[o] = "collected"
  BY <1>1, CanRunActive DEF Finish, Ended
<1>3. Emit(o, "finished", "finished")
  BY DEF Finish
<1>4. Advance(o)
  BY <1>1, <1>3, EmitStep DEF Advance, Finish, LedgerStep
<1>5. OperationInv(o)
  BY <1>1 DEF IInv, OperationsInv
<1>6. OperationInv(o)'
  BY <1>1, <1>2, <1>3, <1>5, EmitStep, ProgressType
     DEF OperationInv, Finish, Ended
<1> QED
  BY <1>1, <1>2, <1>3, <1>4, <1>6, EmitStep, ProgressType, AdvanceInv
     DEF Finish, Stages, Ended, IInv, TypeOK

\* A request fails without a reply.
LEMMA CallFailsInv ==
    ASSUME IInv, NEW o \in Ops, CallFails(o)
    PROVE  IInv'
<1>1. ops \in [Ops -> Event] /\ "failing" \in Stages
  BY DEF IInv, TypeOK, Stages
<1>2. Active(o) /\ stage[o] = "asked" /\ Goto(o, "failing")
  BY CanRunActive DEF CallFails, Ended
<1>3. Advance(o)
  BY <1>1, <1>2, GotoStep DEF Advance, CallFails, LedgerStep
<1>4. OperationInv(o)
  BY DEF IInv, OperationsInv
<1>5. OperationInv(o)'
  BY <1>1, <1>2, <1>4, GotoStep DEF OperationInv, CallFails, Ended
<1> QED
  BY <1>1, <1>2, <1>3, <1>5, GotoStep, AdvanceInv
     DEF CallFails, Stages, Ended, IInv, TypeOK

\* The judgment is admitted, after all views.
LEMMA AdmitUnionInv ==
    ASSUME IInv, AdmitUnion
    PROVE  IInv'
<1>1. Union \in Ops /\ ops \in [Ops -> Event] /\ "admitted" \in Stages
  BY Numbers DEF IInv, TypeOK, Stages
<1>2. Active(Union) /\ stage[Union] = "waiting"
  BY Numbers DEF AdmitUnion, Active, IInv, TaskInv, Running, Ended
<1>3. Emit(Union, "admitted", "admitted")
  BY DEF AdmitUnion
<1>4. Advance(Union)
  BY <1>1, <1>3, EmitStep DEF Advance, AdmitUnion, LedgerStep
<1>5. OperationInv(Union)
  BY <1>1 DEF IInv, OperationsInv
<1>6. OperationInv(Union)'
  BY <1>1, <1>2, <1>3, <1>5, EmitStep, ProgressType
     DEF OperationInv, AdmitUnion, Ended, NoEvent
<1> QED
  BY <1>1, <1>2, <1>3, <1>4, <1>6, EmitStep, ProgressType, AdvanceInv
     DEF AdmitUnion, Stages, Ended, IInv, TypeOK

\* The judgment has candidates, or fails.
LEMMA PrepareUnionInv ==
    ASSUME IInv, PrepareUnion
    PROVE  IInv'
<1>1. Union \in Ops /\ ops \in [Ops -> Event]
  BY Numbers DEF IInv, TypeOK
<1>2. Active(Union) /\ stage[Union] = "admitted"
  BY <1>1, CanRunActive DEF PrepareUnion, Ended
<1>3. PICK next \in {"asking", "failing"} : Goto(Union, next)
  BY DEF PrepareUnion
<1>4. next \in Stages
  BY <1>3 DEF Stages
<1>5. Advance(Union)
  BY <1>1, <1>3, <1>4, GotoStep DEF Advance, PrepareUnion, LedgerStep
<1>6. OperationInv(Union)
  BY <1>1 DEF IInv, OperationsInv
<1>7. OperationInv(Union)'
  BY <1>1, <1>2, <1>3, <1>4, <1>6, GotoStep DEF OperationInv, PrepareUnion, Ended
<1> QED
  BY <1>1, <1>2, <1>3, <1>4, <1>5, <1>7, GotoStep, AdvanceInv
     DEF PrepareUnion, Stages, Ended, IInv, TypeOK

\* The judgment is recorded, or fails.
LEMMA JudgeInv ==
    ASSUME IInv, Judge
    PROVE  IInv'
<1>1. Union \in Ops /\ ops \in [Ops -> Event]
      /\ "finished" \in Stages /\ "failing" \in Stages
  BY Numbers DEF IInv, TypeOK, Stages, Ended
<1>2. Active(Union) /\ stage[Union] = "collected"
  BY <1>1, CanRunActive DEF Judge, Ended
<1>3. hits' \in 0..MaxHits
  BY PlanAssumption DEF Judge, IInv, TypeOK
<1>4. OperationInv(Union)
  BY <1>1 DEF IInv, OperationsInv
<1>5. CASE Emit(Union, "finished", "finished")
  <2>1. Advance(Union)
    BY <1>1, <1>5, EmitStep DEF Advance, Judge, LedgerStep
  <2>2. OperationInv(Union)'
    BY <1>1, <1>2, <1>4, <1>5, EmitStep, ProgressType DEF OperationInv, Judge, Ended
  <2> QED
    BY <1>1, <1>2, <1>3, <1>5, <2>1, <2>2, EmitStep, ProgressType, AdvanceInv
       DEF Stages, Ended, IInv, TypeOK
<1>6. CASE Goto(Union, "failing")
  <2>1. Advance(Union)
    BY <1>1, <1>6, GotoStep DEF Advance, Judge, LedgerStep
  <2>2. OperationInv(Union)'
    BY <1>1, <1>2, <1>4, <1>6, GotoStep DEF OperationInv, Judge, Ended
  <2> QED
    BY <1>1, <1>2, <1>3, <1>6, <2>1, <2>2, GotoStep, AdvanceInv
       DEF Stages, Ended, IInv, TypeOK
<1> QED
  BY <1>5, <1>6 DEF Judge
---------------------------------------------------------------------------
(***************************************************************************)
(* The steps that end an operation which failed or was dropped.            *)
(***************************************************************************)

\* The one operation that runs fails; nothing runs afterwards.
LEMMA FailInv ==
    ASSUME IInv, NEW o \in Ops, Fail(o)
    PROVE  IInv'
<1>1. ops \in [Ops -> Event] /\ stage \in [Ops -> Stages] /\ stage[o] = "failing"
  BY DEF Fail, IInv, TypeOK, Stages
<1>2. o \in Running /\ pc \in {"routing", "judging"} /\ issued = 0
  BY <1>1, Numbers
     DEF Running, Ended, IInv, TypeOK, TaskInv, Delivery, AllFinished, HostInv
<1>3. PICK ok \in BOOLEAN : Record(o, Progress(o, "failed"), ok)
  BY DEF Fail
<1>4. ops'[o] = Progress(o, "failed") /\ Progress(o, "failed") \in Event
  BY <1>1, <1>3, ProgressType DEF Record
<1>5. stage'[o] = "failed" /\ refused' \in BOOLEAN
  BY <1>1, <1>3 DEF Fail, Record, IInv, TypeOK
<1>6. Advance(o)
  <2>1. LedgerStep
    BY <1>3, AppendStep DEF Record
  <2> QED
    BY <1>1, <1>3, <1>4, <2>1 DEF Advance, Fail, Record
<1>7. OperationInv(o)'
  <2>1. OperationInv(o)
    BY DEF IInv, OperationsInv
  <2>2. /\ ops'[o].event = "failed"
        /\ ops'[o].attempted = ops[o].attempted /\ ops'[o].requests = ops[o].requests
    BY <1>1, <1>4, ProgressType
  <2>3. ledger'.ops[o] \in {ledger.ops[o], ops'[o]}
    BY <1>6 DEF Advance, LedgerStep
  <2> QED
    BY <1>1, <1>5, <2>1, <2>2, <2>3 DEF OperationInv, Fail, Ended
<1>8. (\A p \in Ops : p # o => stage'[p] = stage[p]) /\ TypeOK' /\ OperationsInv'
  BY <1>4, <1>5, <1>6, <1>7, AdvanceOperations DEF Stages, Ended, Fail, IInv, TypeOK
<1>9. AloneInv'
  <2>1. Running = {o} /\ \A p \in Ops : stage[p] # "failed"
    BY <1>2 DEF IInv, AloneInv, Running
  <2>2. Running' = {}
    BY <1>5, <1>8, <2>1 DEF Running, Ended
  <2> QED
    BY <1>8, <2>1, <2>2 DEF AloneInv
<1>10. TaskInv'
  <2>1. pc' = pc /\ stage[o] \notin {"waiting", "finished"}
    BY <1>1 DEF Fail
  <2> QED
    BY <1>2, <1>8, <2>1, Numbers DEF IInv, TaskInv, Delivery
<1>11. RefusalInv'
  BY <1>5 DEF RefusalInv
<1>12. HostInv'
  BY <1>2 DEF IInv, HostInv, Fail
<1> QED
  BY <1>8, <1>9, <1>10, <1>11, <1>12 DEF IInv

\* An operation that waits is dropped; what it sent stays counted.
LEMMA InterruptInv ==
    ASSUME IInv, NEW o \in Ops, Interrupt(o)
    PROVE  IInv'
<1>1. ops \in [Ops -> Event] /\ stage \in [Ops -> Stages] /\ stage[o] = "asked"
  BY DEF Interrupt, IInv, TypeOK, Stages
<1>2. pc \in {"routing", "judging", "dropping"} /\ issued = 0
  BY <1>1, Numbers
     DEF Ended, IInv, TypeOK, TaskInv, Delivery, AllFinished, HostInv
<1>3. PICK ok \in BOOLEAN : Record(o, Progress(o, "interrupted"), ok)
  BY DEF Interrupt
<1>4. ops'[o] = Progress(o, "interrupted") /\ Progress(o, "interrupted") \in Event
  BY <1>1, <1>3, ProgressType DEF Record
<1>5. stage'[o] = "interrupted" /\ refused' \in BOOLEAN
  BY <1>1, <1>3 DEF Interrupt, Record, IInv, TypeOK
<1>6. Advance(o)
  <2>1. LedgerStep
    BY <1>3, AppendStep DEF Record
  <2> QED
    BY <1>1, <1>3, <1>4, <2>1 DEF Advance, Interrupt, Record
<1>7. OperationInv(o)'
  <2>1. OperationInv(o)
    BY DEF IInv, OperationsInv
  <2>2. /\ ops'[o].event = "interrupted"
        /\ ops'[o].attempted = ops[o].attempted /\ ops'[o].requests = ops[o].requests
    BY <1>1, <1>4, ProgressType
  <2>3. ledger'.ops[o] \in {ledger.ops[o], ops'[o]}
    BY <1>6 DEF Advance, LedgerStep
  <2> QED
    BY <1>1, <1>5, <2>1, <2>2, <2>3 DEF OperationInv, Interrupt, Ended
<1>8. (\A p \in Ops : p # o => stage'[p] = stage[p]) /\ TypeOK' /\ OperationsInv'
  BY <1>4, <1>5, <1>6, <1>7, AdvanceOperations
     DEF Stages, Ended, Interrupt, IInv, TypeOK
<1>9. Running' = {} /\ AloneInv'
  <2>1. Running = {}
    BY DEF Interrupt, IInv, AloneInv, TaskInv, Running
  <2>2. Running' = {}
    BY <1>5, <1>8, <2>1 DEF Running, Ended
  <2> QED
    BY <1>5, <1>8, <2>1, <2>2 DEF IInv, AloneInv
<1>10. TaskInv'
  <2>1. pc' = pc /\ stage[o] \notin {"waiting", "finished"}
    BY <1>1 DEF Interrupt
  <2> QED
    BY <1>2, <1>8, <1>9, <2>1, Numbers DEF IInv, TaskInv, Delivery
<1>11. RefusalInv'
  BY <1>1, <1>8 DEF RefusalInv, Interrupt
<1>12. HostInv'
  BY <1>2 DEF IInv, HostInv, Interrupt
<1> QED
  BY <1>8, <1>9, <1>10, <1>11, <1>12 DEF IInv
---------------------------------------------------------------------------
(***************************************************************************)
(* The steps that leave the operations as they are.                        *)
(***************************************************************************)

Places == {"open", "routing", "judging", "rechecking", "confirming", "fusing",
           "packing", "issuing", "delivering", "receipting", "ready",
           "failing", "dropping", "closing", "closed"}

Statuses == {"running", "awaiting_delivery", "filtered_all", "reranked", "failed"}

\* Outside the operations only the place of the task and the host's part are left to check.
LEMMA QuietInv ==
    ASSUME IInv, UNCHANGED <<stage, ops, sent, replied, roles>>, LedgerStep,
           current' \in 0..MaxReindex, readAt' \in 0..MaxReindex,
           refused' \in BOOLEAN, pc' \in Places, status' \in Statuses,
           hits' \in 0..MaxHits, issued' \in 0..MaxHits,
           TaskInv', RefusalInv', HostInv'
    PROVE  IInv'
<1>1. TypeOK'
  <2>1. ledger'.ops \in [Ops -> Event] /\ ledger'.status \in Statuses
    BY DEF IInv, TypeOK, LedgerStep, Statuses
  <2> QED
    BY <2>1 DEF IInv, TypeOK, Places, Statuses
<1>2. OperationsInv'
  <2> SUFFICES ASSUME NEW p \in Ops PROVE OperationInv(p)'
    BY DEF OperationsInv, Ops
  <2> QED
    BY Untouched DEF IInv, OperationsInv
<1>3. AloneInv'
  BY DEF IInv, AloneInv, Running
<1> QED
  BY <1>1, <1>2, <1>3 DEF IInv

\* A new generation changes nothing of the search.
LEMMA ReindexInv ==
    ASSUME IInv, Reindex
    PROVE  IInv'
<1> USE DEF Reindex, callVars, hostVars
<1>1. current' \in 0..MaxReindex /\ readAt' \in 0..MaxReindex /\ LedgerStep
  BY PlanAssumption DEF IInv, TypeOK, LedgerStep
<1>2. TaskInv' /\ RefusalInv'
  BY DEF IInv, TaskInv, RefusalInv, AllFinished, Running
<1>3. HostInv'
  BY DEF IInv, TypeOK, HostInv, AllFinished
<1> QED
  BY <1>1, <1>2, <1>3, QuietInv DEF IInv, TypeOK, Places, Statuses

\* Steps of the search that only move it.
LEMMA MovesInv ==
    ASSUME IInv, Open \/ Merge \/ CheckUnion \/ Recheck
    PROVE  IInv'
<1> USE DEF callVars, hostVars
<1>1. /\ UNCHANGED <<stage, ops, sent, replied, roles, refused, current, ledger>>
      /\ UNCHANGED <<status, issued>> /\ status = "running" /\ issued = 0
  BY DEF Open, Merge, CheckUnion, Recheck, IInv, HostInv
<1>2. hits' \in 0..MaxHits /\ readAt' \in 0..MaxReindex /\ pc' \in Places
      /\ status' \in Statuses /\ issued' \in 0..MaxHits /\ current' \in 0..MaxReindex
      /\ refused' \in BOOLEAN /\ LedgerStep
  <2>1. hits' \in 0..MaxHits
    BY PlanAssumption DEF Open, Merge, CheckUnion, Recheck, IInv, TypeOK
  <2>2. readAt' \in 0..MaxReindex /\ current' \in 0..MaxReindex
    BY <1>1 DEF Open, Merge, CheckUnion, Recheck, IInv, TypeOK
  <2>3. pc' \in Places
    BY DEF Open, Merge, CheckUnion, Recheck, Places
  <2> QED
    BY <1>1, <2>1, <2>2, <2>3 DEF IInv, TypeOK, Statuses, LedgerStep
<1>3. TaskInv'
  <2>1. CASE Open
    BY <2>1, <1>1, Numbers DEF Open, IInv, TaskInv, Delivery
  <2>2. CASE Merge
    BY <2>2, <1>1, Numbers DEF Merge, IInv, TaskInv, Delivery, Ended
  <2>3. CASE CheckUnion
    BY <2>3, <1>1, Numbers DEF CheckUnion, IInv, TaskInv, Delivery, Ended, AllFinished
  <2>4. CASE Recheck
    BY <2>4, <1>1, Numbers DEF Recheck, IInv, TaskInv, Delivery, AllFinished
  <2> QED
    BY <2>1, <2>2, <2>3, <2>4
<1>4. RefusalInv'
  <2>1. CASE Open
    BY <2>1, <1>1 DEF Open, IInv, RefusalInv
  <2>2. CASE Merge
    BY <2>2, <1>1 DEF Merge, IInv, RefusalInv
  <2>3. CASE CheckUnion \/ Recheck
    BY <2>3 DEF CheckUnion, Recheck, RefusalInv
  <2> QED
    BY <2>1, <2>2, <2>3
<1>5. HostInv'
  <2>1. CASE Open
    BY <2>1, <1>1 DEF Open, IInv, HostInv
  <2>2. CASE Merge
    BY <2>2, <1>1 DEF Merge, IInv, HostInv
  <2>3. CASE CheckUnion
    BY <2>3, <1>1 DEF CheckUnion, IInv, HostInv
  <2>4. CASE Recheck
    BY <2>4, <1>1 DEF Recheck, IInv, TypeOK, HostInv
  <2> QED
    BY <2>1, <2>2, <2>3, <2>4
<1> QED
  BY <1>1, <1>2, <1>3, <1>4, <1>5, QuietInv

\* The last check of the union leaves its event as it is.
LEMMA ConfirmInv ==
    ASSUME IInv, Confirm
    PROVE  IInv'
<1> USE DEF callVars, hostVars
<1>1. /\ UNCHANGED <<stage, sent, replied, roles, current, readAt, hits, issued, status>>
      /\ pc = "confirming" /\ pc' \in {"fusing", "failing"}
      /\ pc' = "fusing" => readAt = Pinned
  BY DEF Confirm, StillPinned, Pinned, IInv, TypeOK, HostInv
<1>2. ops' = ops /\ LedgerStep /\ refused' \in BOOLEAN
  <2>1. CASE UNCHANGED <<callVars, ledger>>
    BY <2>1 DEF LedgerStep, IInv, TypeOK
  <2>2. CASE \E ok \in BOOLEAN : Record(Union, ops[Union], ok)
    <3>1. PICK ok \in BOOLEAN : Record(Union, ops[Union], ok)
      BY <2>2
    <3>2. LedgerStep
      BY <3>1, AppendStep DEF Record
    <3> QED
      BY <3>1, <3>2, Numbers DEF Record, IInv, TypeOK
  <2> QED
    BY <2>1, <2>2 DEF Confirm
<1>3. TaskInv' /\ RefusalInv'
  BY <1>1 DEF IInv, TaskInv, RefusalInv, AllFinished, Delivery, Ended
<1>4. HostInv'
  BY <1>1 DEF IInv, HostInv, AllFinished
<1> QED
  BY <1>1, <1>2, <1>3, <1>4, QuietInv DEF IInv, TypeOK, Places, Statuses

\* The steps of the host that deliver.
LEMMA DeliverInv ==
    ASSUME IInv, Fuse \/ Pack \/ Issue \/ Deliver \/ Receipt
    PROVE  IInv'
<1> USE DEF callVars
<1>1. /\ UNCHANGED <<stage, ops, sent, replied, roles, refused, current, readAt>>
      /\ pc \in {"fusing", "packing", "issuing", "delivering", "receipting"}
      /\ pc' \in {"packing", "issuing", "delivering", "receipting", "ready", "failing"}
  BY DEF Fuse, Pack, Issue, Deliver, Receipt, Persist
<1>2. /\ LedgerStep
      /\ pc' \in {"receipting", "ready"} => ledger'.status = status'
  BY DEF Fuse, Pack, Issue, Deliver, Receipt, Persist, Append, LedgerStep
<1>3. hits' \in 0..MaxHits /\ issued' \in 0..MaxHits /\ status' \in Statuses
  <2>1. CASE Fuse \/ Deliver \/ Receipt
    BY <2>1 DEF Fuse, Deliver, Receipt, IInv, TypeOK, Statuses
  <2>2. CASE Pack
    BY <2>2, PlanAssumption DEF Pack, IInv, TypeOK, Statuses
  <2>3. CASE Issue
    BY <2>3, PlanAssumption DEF Issue, IInv, TypeOK, Statuses
  <2> QED
    BY <2>1, <2>2, <2>3
<1>4. AllFinished /\ AllFinished' /\ readAt = Pinned /\ readAt <= current
  BY <1>1 DEF IInv, TaskInv, HostInv, Delivery, AllFinished
<1>5. TaskInv' /\ RefusalInv'
  BY <1>1, <1>4 DEF TaskInv, RefusalInv, AllFinished, Delivery, Ended
<1>6. HostInv'
  <2>1. CASE Fuse
    BY <2>1, <1>1, <1>4 DEF Fuse, Persist, IInv, HostInv
  <2>2. CASE Pack
    BY <2>2, <1>1, <1>4 DEF Pack, Persist, IInv, HostInv
  <2>3. CASE Issue
    BY <2>3, <1>1, <1>4 DEF Issue, IInv, HostInv
  <2>4. CASE Deliver
    BY <2>4, <1>1, <1>2, <1>4 DEF Deliver, Persist, IInv, HostInv
  <2>5. CASE Receipt
    BY <2>5, <1>1, <1>2, <1>4 DEF Receipt, Persist, IInv, HostInv
  <2> QED
    BY <2>1, <2>2, <2>3, <2>4, <2>5
<1> QED
  BY <1>1, <1>2, <1>3, <1>5, <1>6, QuietInv DEF IInv, TypeOK, Places

\* The steps that end a search which failed or was dropped.
LEMMA EndInv ==
    ASSUME IInv, Abandon \/ Drop \/ Dropped \/ HostFail \/ Close
    PROVE  IInv'
<1> USE DEF callVars, hostVars
<1>1. /\ UNCHANGED <<stage, ops, sent, replied, roles, refused, current, readAt, hits>>
      /\ pc' \in {"failing", "dropping", "closing", "closed"}
      /\ issued' \in {issued, 0}
  BY DEF Abandon, Drop, Dropped, HostFail, Close
<1>2. LedgerStep /\ status' \in Statuses
  BY DEF Abandon, Drop, Dropped, HostFail, Close, Append, LedgerStep, IInv, TypeOK,
         Statuses
<1>3. TaskInv'
  <2>1. stage \in [Ops -> Stages]
    BY DEF IInv, TypeOK, Stages
  <2>2. CASE Abandon
    <3>1. Running = {} /\ Suspended = {} /\ pc' = "failing"
      BY <2>2 DEF Abandon, IInv, AloneInv, Running
    <3> QED
      BY <2>1, <3>1, <1>1 DEF TaskInv, Running, Suspended, Stages, Ended, Delivery
  <2>3. CASE Drop
    BY <2>3, <1>1 DEF Drop, TaskInv, Running, Delivery
  <2>4. CASE Dropped
    <3>1. Running = {} /\ Suspended = {} /\ pc' = "closing"
      BY <2>4 DEF Dropped, IInv, TaskInv
    <3> QED
      BY <2>1, <3>1, <1>1 DEF TaskInv, Running, Suspended, Stages, Ended, Delivery
  <2>5. CASE HostFail \/ Close
    BY <2>5, <1>1 DEF HostFail, Close, IInv, TaskInv, Delivery
  <2> QED
    BY <2>2, <2>3, <2>4, <2>5
<1>4. RefusalInv'
  BY <1>1 DEF RefusalInv
<1>5. HostInv'
  <2>1. CASE Abandon
    BY <2>1, <1>1 DEF Abandon, IInv, HostInv
  <2>2. CASE Drop
    BY <2>2, <1>1 DEF Drop, CanRun, IInv, HostInv
  <2>3. CASE Dropped
    BY <2>3, <1>1 DEF Dropped, IInv, HostInv
  <2>4. CASE HostFail
    BY <2>4, <1>1 DEF HostFail, IInv, HostInv
  <2>5. CASE Close
    BY <2>5, <1>1 DEF Close, IInv, HostInv
  <2> QED
    BY <2>1, <2>2, <2>3, <2>4, <2>5
<1>6. issued' \in 0..MaxHits
  BY <1>1, PlanAssumption DEF IInv, TypeOK
<1> QED
  BY <1>1, <1>2, <1>3, <1>4, <1>5, <1>6, QuietInv DEF IInv, TypeOK, Places
---------------------------------------------------------------------------
(***************************************************************************)
(* The theorems.                                                           *)
(***************************************************************************)

\* Every step of a planned search keeps the invariant.
LEMMA StepInv == IInv /\ [Next]_vars => IInv'
<1> SUFFICES ASSUME IInv, [Next]_vars PROVE IInv'
  OBVIOUS
<1>1. CASE UNCHANGED vars
  <2>1. LedgerStep
    BY <1>1 DEF vars, LedgerStep
  <2>2. TaskInv' /\ RefusalInv' /\ HostInv'
    BY <1>1 DEF vars, IInv, TaskInv, RefusalInv, HostInv, AllFinished, Running
  <2> QED
    BY <1>1, <2>1, <2>2, QuietInv DEF vars, IInv, TypeOK, Places, Statuses
<1>2. CASE Drop \/ Reindex
  BY <1>2, EndInv, ReindexInv
<1>3. CASE \E o \in Ops : Service(o)
  BY <1>3, ReplyInv, CallFailsInv DEF Service
<1>4. CASE Run
  <2>1. CASE \E o \in Routes : RunView(o)
    BY <2>1, StartInv, CollectInv, FinishInv DEF RunView
  <2>2. CASE \E o \in Ops : RunCall(o)
    BY <2>2, AskInv, FailInv, InterruptInv DEF RunCall
  <2>3. CASE Open \/ Merge \/ CheckUnion \/ Recheck
    BY <2>3, MovesInv
  <2>4. CASE AdmitUnion \/ PrepareUnion \/ Judge
    BY <2>4, AdmitUnionInv, PrepareUnionInv, JudgeInv
  <2>5. CASE Confirm
    BY <2>5, ConfirmInv
  <2>6. CASE Fuse \/ Pack \/ Issue \/ Deliver \/ Receipt
    BY <2>6, DeliverInv
  <2>7. CASE Abandon \/ Dropped \/ HostFail \/ Close
    BY <2>7, EndInv
  <2> QED
    BY <1>4, <2>1, <2>2, <2>3, <2>4, <2>5, <2>6, <2>7 DEF Run
<1> QED
  BY <1>1, <1>2, <1>3, <1>4 DEF Next

\* The inductive invariant of planned searches.
THEOREM Invariant == Spec => []IInv
<1>1. Init => IInv
  BY InitInv
<1>2. IInv /\ [Next]_vars => IInv'
  BY StepInv
<1> QED
  BY <1>1, <1>2, PTL DEF Spec

\* Every variable keeps its type, so the counts of a search never pass one
\* attempt and one request for each operation.
THEOREM TypeCorrect == Spec => []TypeOK
<1>1. IInv => TypeOK
  BY DEF IInv
<1> QED
  BY <1>1, Invariant, PTL

\* The ledger file brackets the requests at every moment: one that was sent is on
\* file as an attempt, a reply on file did arrive.
THEOREM Brackets == Spec => []LedgerBrackets
<1>1. IInv => LedgerBrackets
  BY DEF IInv, OperationsInv, OperationInv, LedgerBrackets
<1> QED
  BY <1>1, Invariant, PTL

\* When a search is over, every operation that began says how it ended, and what
\* was sent and answered is counted.
THEOREM Accounted == Spec => []CallsAccountedFor
<1>1. IInv => CallsAccountedFor
  <2> SUFFICES ASSUME IInv, pc \in {"ready", "closed"}, NEW o \in Ops
               PROVE  /\ ops[o].event # "none" => ops[o].event \in Ended
                      /\ o \in sent => ops[o].attempted = 1
                      /\ (o \in replied) = (ops[o].requests = 1)
    BY DEF CallsAccountedFor
  <2>1. OperationInv(o)
    BY DEF IInv, OperationsInv
  <2>2. stage[o] \in {"waiting"} \cup Ended
    BY DEF IInv, TaskInv, Delivery, AllFinished, Ended
  <2>3. stage[o] = "waiting" => ops[o].event = "none"
    BY <2>1 DEF OperationInv, NoEvent
  <2> QED
    BY <2>1, <2>2, <2>3 DEF OperationInv
<1> QED
  BY <1>1, Invariant, PTL

\* Evidence is only issued from a union of all views, each finished and on file.
THEOREM NoPartial == Spec => []NoPartialSuccess
<1>1. IInv => NoPartialSuccess
  <2> SUFFICES ASSUME IInv, issued > 0 \/ pc = "ready" PROVE NoPartialSuccess
    BY DEF NoPartialSuccess
  <2>1. AllFinished
    BY DEF IInv, TaskInv, HostInv, Delivery
  <2>2. \A o \in Ops : OperationInv(o)
    BY DEF IInv, OperationsInv
  <2>3. sent = replied
    BY <2>1, <2>2 DEF AllFinished, OperationInv, IInv, TypeOK
  <2> QED
    BY <2>1, <2>2, <2>3 DEF NoPartialSuccess, AllFinished, OperationInv, Ended
<1> QED
  BY <1>1, Invariant, PTL

\* A search that failed leaves nothing to cite, one that succeeded what the ledger
\* says.
THEOREM Recorded == Spec => []IssuedAsRecorded
<1>1. IInv => IssuedAsRecorded
  BY DEF IInv, HostInv, IssuedAsRecorded
<1> QED
  BY <1>1, Invariant, PTL

\* What is delivered was read while the pinned generation was current, however
\* often others publish.
THEOREM Current == Spec => []DeliveredSnapshotCurrent
<1>1. IInv => DeliveredSnapshotCurrent
  BY DEF IInv, HostInv, DeliveredSnapshotCurrent
<1> QED
  BY <1>1, Invariant, PTL

\* However many views are in flight, one operation at most fails.
THEOREM SingleCause == Spec => []OneCause
<1>1. IInv => OneCause
  <2> SUFFICES ASSUME IInv PROVE OneCause
    OBVIOUS
  <2> DEFINE failed == {o \in Ops : ops[o].event = "failed"}
  <2>1. \A o, p \in failed : o = p
    BY DEF IInv, OperationsInv, OperationInv, AloneInv
  <2>2. CASE failed = {}
    BY <2>2, FS_EmptySet DEF OneCause
  <2>3. CASE \E o \in failed : TRUE
    <3>1. PICK o \in failed : failed = {o}
      BY <2>1, <2>3
    <3>2. Cardinality(failed) = 1
      BY <3>1, FS_Singleton
    <3> QED
      BY <3>2 DEF OneCause
  <2> QED
    BY <2>2, <2>3
<1> QED
  BY <1>1, Invariant, PTL

\* A search that is over has a complete record with one cause.
THEOREM Complete == Spec => []RecordComplete
<1>1. CallsAccountedFor /\ OneCause => RecordComplete
  BY DEF RecordComplete
<1> QED
  BY <1>1, Accounted, SingleCause, PTL

\* Delivery is whole, recorded and current, for any number of views in flight.
THEOREM WholeDelivery == Spec => []DeliverySound
<1>1. NoPartialSuccess /\ IssuedAsRecorded /\ DeliveredSnapshotCurrent => DeliverySound
  BY DEF DeliverySound
<1> QED
  BY <1>1, NoPartial, Recorded, Current, PTL

\* No request leaves after the ledger has refused a record, nor in the step of the
\* refusal.
THEOREM NothingAfterRefusal == Spec => NoCallAfterRefusal
<1>1. IInv /\ [Next]_vars => [refused' => sent' = sent]_vars
  <2> SUFFICES ASSUME IInv, Next, refused', sent' # sent PROVE FALSE
    BY DEF vars
  <2>1. PICK o \in Ops : Ask(o)
    BY DEF Next, Run, RunView, RunCall, Service, Drop, Reindex, Start, Collect, Finish,
           Fail, Interrupt, Reply, CallFails, Open, Merge, AdmitUnion, PrepareUnion,
           Judge, CheckUnion, Recheck, Confirm, Fuse, Pack, Issue, Deliver, Receipt,
           Abandon, Dropped, HostFail, Close, callVars
  <2>2. stage'[o] = "asked" /\ refused
    <3>1. "asked" \in Stages /\ Emit(o, "before_call", "asked") /\ stage'[o] = "asked"
      BY <2>1 DEF Ask, Stages
    <3> QED
      BY <3>1, EmitStep
  <2>3. PICK p \in Ops : stage[p] \in {"failing", "failed"}
    BY <2>1, <2>2 DEF Ask, CanRun, IInv, RefusalInv
  <2>4. p \in Running
    BY <2>1, <2>3 DEF Ask, CanRun, Running, Ended
  <2> QED
    BY <2>1, <2>3, <2>4 DEF Ask, CanRun
<1> QED
  BY <1>1, Invariant, PTL DEF Spec, NoCallAfterRefusal
=============================================================================

------------------------ MODULE EnrichLedgerProofs -------------------------
(***************************************************************************)
(* Proofs about the abstract enrichment ledger, for every budget, every    *)
(* number of support retries and every set of windows.                     *)
(***************************************************************************)
EXTENDS EnrichLedger, TLAPS

---------------------------------------------------------------------------
(* Type correctness.                                                       *)

LEMMA ReserveType ==
  ASSUME NEW l \in LedgerType, NEW kind \in Kinds, NEW unit \in Units
  PROVE  Reserve(l, kind, unit) \in LedgerType
<1> DEFINE c == [kind |-> kind, unit |-> unit]
           b == IF kind = "builder" THEN l.builderCalls + 1 ELSE l.builderCalls
           j == IF kind = "jev" THEN l.jevCalls + 1 ELSE l.jevCalls
           cs == Append(l.calls, c)
<1>1. c \in Call
  BY DEF Call
<1>2. l.calls \in Seq(Call) /\ l.builderCalls \in Nat /\ l.jevCalls \in Nat
  BY DEF LedgerType
<1>3. cs \in Seq(Call)
  <2> HIDE DEF c
  <2> QED BY <1>1, <1>2
<1>4. b \in Nat /\ j \in Nat
  BY <1>2
<1>5. Reserve(l, kind, unit) = [l EXCEPT !.calls = cs, !.builderCalls = b,
                                         !.jevCalls = j]
  BY DEF Reserve, LedgerType
<1> HIDE DEF c, cs, b, j
<1> QED
  BY <1>3, <1>4, <1>5 DEF LedgerType

LEMMA FinishType ==
  ASSUME NEW l \in LedgerType, NEW outcome \in Outcomes
  PROVE  Finish(l, outcome) \in LedgerType
<1>1. Append(l.receipts, outcome) \in Seq(Outcomes)
  BY DEF LedgerType
<1> QED
  BY <1>1 DEF Finish, LedgerType

LEMMA AdmitRetryType ==
  ASSUME NEW l \in LedgerType, NEW call \in Nat
  PROVE  AdmitRetry(l, call) \in LedgerType
<1>1. Append(l.retries, call) \in Seq(Nat)
  BY DEF LedgerType
<1> QED
  BY <1>1 DEF AdmitRetry, LedgerType

LEMMA RebuildType ==
  ASSUME NEW l \in LedgerType, NEW call \in Nat
  PROVE  Rebuild(l, call) \in LedgerType
<1>1. Append(l.rebuilds, call) \in Seq(Nat) /\ Len(l.calls) \in Nat
  BY DEF LedgerType
<1> QED
  BY <1>1 DEF Rebuild, LedgerType

LEMMA CompleteWindowType ==
  ASSUME NEW l \in LedgerType, NEW unit \in Units, NEW last \in Nat
  PROVE  CompleteWindow(l, unit, last) \in LedgerType
<1> DEFINE w == [unit |-> unit, first |-> l.committed + 1, last |-> last]
           ws == Append(l.windows, w)
<1>1. w \in Window
  BY DEF LedgerType, Window
<1>2. ws \in Seq(Window)
  <2>1. l.windows \in Seq(Window)
    BY DEF LedgerType
  <2> HIDE DEF w
  <2> QED BY <1>1, <2>1
<1>3. CompleteWindow(l, unit, last) = [l EXCEPT !.windows = ws, !.committed = last]
  BY DEF CompleteWindow, LedgerType
<1> HIDE DEF w, ws
<1> QED
  BY <1>2, <1>3 DEF LedgerType

LEMMA TypeInit == Init => TypeOK
<1>1. /\ <<>> \in Seq(Call) /\ <<>> \in Seq(Outcomes) /\ <<>> \in Seq(Window)
      /\ <<>> \in Seq(Nat)
  OBVIOUS
<1> QED
  BY <1>1 DEF Init, TypeOK, LedgerType, EmptyLedger

LEMMA TypeStep == TypeOK /\ [Next]_vars => TypeOK'
<1> SUFFICES ASSUME ledger \in LedgerType, [Next]_vars
             PROVE  ledger' \in LedgerType
  BY DEF TypeOK
<1>1. CASE Bind
  BY <1>1 DEF Bind, LedgerType
<1>2. ASSUME NEW kind \in Kinds, NEW unit \in Units, ReserveCall(kind, unit)
      PROVE  ledger' \in LedgerType
  BY <1>2, ReserveType DEF ReserveCall
<1>3. ASSUME NEW outcome \in Outcomes, FinishCall(outcome)
      PROVE  ledger' \in LedgerType
  BY <1>3, FinishType DEF FinishCall
<1>4. CASE ReserveRetry
  <2> DEFINE call == Len(ledger.calls)
             unit == ledger.calls[call].unit
  <2>1. ledger.calls \in Seq(Call) /\ call \in Nat
    BY DEF LedgerType
  <2>2. call > 0
    BY <1>4 DEF ReserveRetry, CanRetry
  <2>3. unit \in Units
    <3>1. ledger.calls[call] \in Call
      BY <2>1, <2>2
    <3> QED BY <3>1 DEF Call
  <2>4. AdmitRetry(ledger, call) \in LedgerType
    BY <2>1, AdmitRetryType
  <2>5. "jev" \in Kinds
    BY DEF Kinds
  <2>6. ledger' = Reserve(AdmitRetry(ledger, call), "jev", unit)
    BY <1>4 DEF ReserveRetry
  <2> QED
    BY <2>3, <2>4, <2>5, <2>6, ReserveType
<1>5. ASSUME NEW unit \in Units, Complete(unit) PROVE ledger' \in LedgerType
  <2>1. Len(ledger.calls) \in Nat
    BY DEF LedgerType
  <2> QED
    BY <1>5, <2>1, CompleteWindowType DEF Complete
<1>6. CASE Fail
  BY <1>6 DEF Fail, LedgerType
<1>7. CASE AdmitRebuild
  <2>1. Len(ledger.calls) \in Nat
    BY DEF LedgerType
  <2> QED
    BY <1>7, <2>1, RebuildType DEF AdmitRebuild
<1>8. ASSUME NEW artifact \in Artifacts, Prepare(artifact)
      PROVE  ledger' \in LedgerType
  BY <1>8 DEF Prepare, LedgerType
<1>9. CASE Publish
  BY <1>9 DEF Publish, LedgerType
<1>10. CASE UNCHANGED vars
  BY <1>10 DEF vars
<1> QED
  BY <1>1, <1>2, <1>3, <1>4, <1>5, <1>6, <1>7, <1>8, <1>9, <1>10 DEF Next

\* Every ledger that Ledger::apply can produce is well formed, field by field.
THEOREM TypeCorrect == Spec => []TypeOK
  BY TypeInit, TypeStep, PTL DEF Spec

---------------------------------------------------------------------------
(* What the rules leave alone.                                             *)

SameHistory(m, l) ==
    m.calls = l.calls /\ m.receipts = l.receipts /\ m.windows = l.windows
SameCounts(m, l) == m.builderCalls = l.builderCalls /\ m.jevCalls = l.jevCalls
SamePublication(m, l) == m.prepared = l.prepared /\ m.published = l.published

LEMMA ReserveCalls ==
  ASSUME NEW l \in LedgerType, NEW kind \in Kinds, NEW unit
  PROVE  Reserve(l, kind, unit).calls
           = Append(l.calls, [kind |-> kind, unit |-> unit])
  BY DEF LedgerType, Reserve

LEMMA ReserveFields ==
  ASSUME NEW l \in LedgerType, NEW kind \in Kinds, NEW unit
  PROVE  LET m == Reserve(l, kind, unit) IN
         /\ kind = "builder" => m.builderCalls = l.builderCalls + 1
                                /\ m.jevCalls = l.jevCalls
         /\ kind = "jev" => m.builderCalls = l.builderCalls
                            /\ m.jevCalls = l.jevCalls + 1
         /\ m.receipts = l.receipts /\ m.windows = l.windows
         /\ m.committed = l.committed
         /\ m.rebuilds = l.rebuilds /\ m.retries = l.retries
         /\ SamePublication(m, l)
  BY DEF LedgerType, Reserve, SamePublication

LEMMA FinishFields ==
  ASSUME NEW l \in LedgerType, NEW outcome
  PROVE  LET m == Finish(l, outcome) IN
         /\ m.receipts = Append(l.receipts, outcome)
         /\ m.calls = l.calls /\ m.windows = l.windows
         /\ m.committed = l.committed
         /\ m.rebuilds = l.rebuilds /\ m.retries = l.retries
         /\ SameCounts(m, l) /\ SamePublication(m, l)
  BY DEF LedgerType, Finish, SameCounts, SamePublication

LEMMA AdmitRetryFields ==
  ASSUME NEW l \in LedgerType, NEW call
  PROVE  LET m == AdmitRetry(l, call) IN
         /\ m.retries = Append(l.retries, call)
         /\ m.bound = l.bound /\ m.failed = l.failed
         /\ m.committed = l.committed /\ m.rebuilds = l.rebuilds
         /\ SameHistory(m, l) /\ SameCounts(m, l) /\ SamePublication(m, l)
  BY DEF LedgerType, AdmitRetry, SameHistory, SameCounts, SamePublication

LEMMA CompleteWindowWindows ==
  ASSUME NEW l \in LedgerType, NEW unit, NEW last
  PROVE  CompleteWindow(l, unit, last).windows
           = Append(l.windows, [unit |-> unit, first |-> l.committed + 1,
                                last |-> last])
  BY DEF LedgerType, CompleteWindow

LEMMA CompleteWindowFields ==
  ASSUME NEW l \in LedgerType, NEW unit, NEW last
  PROVE  LET m == CompleteWindow(l, unit, last) IN
         /\ m.committed = last
         /\ m.calls = l.calls /\ m.receipts = l.receipts
         /\ m.rebuilds = l.rebuilds /\ m.retries = l.retries
         /\ SameCounts(m, l) /\ SamePublication(m, l)
  BY DEF LedgerType, CompleteWindow, SameCounts, SamePublication

LEMMA RebuildFields ==
  ASSUME NEW l \in LedgerType, NEW call
  PROVE  LET m == Rebuild(l, call) IN
         /\ m.committed = Len(l.calls)
         /\ m.rebuilds = Append(l.rebuilds, call)
         /\ m.retries = l.retries
         /\ SameHistory(m, l) /\ SameCounts(m, l) /\ SamePublication(m, l)
  BY DEF LedgerType, Rebuild, SameHistory, SameCounts, SamePublication

---------------------------------------------------------------------------
(* The budgets, the pending call and the publication.  CallBudget alone is *)
(* not inductive: the limits move with the admitted rebuilds and retries,  *)
(* so the invariant relates the counters to the admissions made so far.    *)

CallLimits ==
    /\ Len(ledger.calls) = ledger.builderCalls + ledger.jevCalls
    /\ ledger.builderCalls <= MaxBuilder + Len(ledger.rebuilds)
    /\ ledger.jevCalls <= MaxJev + Len(ledger.rebuilds) + Len(ledger.retries)
    /\ Len(ledger.rebuilds) <= MaxRebuilds
    /\ Len(ledger.retries) <= SupportRetries

CountInv == TypeOK /\ CallLimits /\ OnePendingCall /\ PreparedQuiescent

LEMMA Lengths ==
  ASSUME TypeOK
  PROVE  /\ Len(ledger.calls) \in Nat /\ Len(ledger.receipts) \in Nat
         /\ Len(ledger.rebuilds) \in Nat /\ Len(ledger.retries) \in Nat
         /\ Len(ledger.windows) \in Nat
         /\ ledger.committed \in Nat
         /\ ledger.builderCalls \in Nat /\ ledger.jevCalls \in Nat
  BY DEF TypeOK, LedgerType

\* How a counter may follow the two kinds of admissions that extend its limit.
LEMMA LimitExtended ==
  ASSUME NEW max \in Nat, NEW r \in Nat, NEW t \in Nat, NEW n \in Nat,
         n <= max + r + t
  PROVE  /\ n <= max + (r + 1) + t
         /\ n + 1 <= max + r + (t + 1)
         /\ n < max + r + (t + 1)
         /\ n < max + r + t => n + 1 <= max + r + t
  OBVIOUS

LEMMA CountInit == Init => CountInv
  BY TypeInit, BudgetAssumption
  DEF Init, EmptyLedger, CountInv, CallLimits, OnePendingCall,
      PreparedQuiescent, MaxRebuilds

LEMMA CountReserve ==
  ASSUME CountInv, NEW kind \in Kinds, NEW unit \in Units,
         ReserveCall(kind, unit)
  PROVE  CallLimits' /\ OnePendingCall' /\ PreparedQuiescent'
<1>1. ledger \in LedgerType /\ ledger.calls \in Seq(Call)
  BY DEF CountInv, TypeOK, LedgerType
<1> DEFINE c == [kind |-> kind, unit |-> unit]
<1>2. ledger'.calls = Append(ledger.calls, c)
  BY <1>1, ReserveCalls DEF ReserveCall
<1>3. Len(ledger'.calls) = Len(ledger.calls) + 1
  <2> HIDE DEF c
  <2> QED BY <1>1, <1>2
<1>4. /\ kind = "builder" => /\ ledger'.builderCalls = ledger.builderCalls + 1
                             /\ ledger'.jevCalls = ledger.jevCalls
      /\ kind = "jev" => /\ ledger'.builderCalls = ledger.builderCalls
                         /\ ledger'.jevCalls = ledger.jevCalls + 1
      /\ ledger'.receipts = ledger.receipts
      /\ ledger'.committed = ledger.committed
      /\ ledger'.rebuilds = ledger.rebuilds /\ ledger'.retries = ledger.retries
      /\ ledger'.prepared = ledger.prepared /\ ledger'.published = ledger.published
  BY <1>1, ReserveFields DEF ReserveCall, SamePublication
<1>5. /\ ledger.prepared = NoArtifact /\ Settled(ledger)
      /\ AttemptCount(ledger, kind) < EffectiveCallLimit(ledger, kind)
  BY DEF ReserveCall, CanReserve
<1>6. kind = "builder" \/ kind = "jev"
  BY DEF Kinds
<1>7. TypeOK /\ CallLimits /\ OnePendingCall /\ PreparedQuiescent
  BY DEF CountInv
<1>8. CallLimits'
  <2>0. MaxBuilder \in Nat /\ MaxJev \in Nat
    BY BudgetAssumption
  <2>1. Len(ledger'.calls) = ledger'.builderCalls + ledger'.jevCalls
    BY <1>3, <1>4, <1>6, <1>7, Lengths DEF CallLimits
  <2>2. CASE kind = "builder"
    <3>1. ledger.builderCalls < MaxBuilder + Len(ledger.rebuilds)
      BY <1>5, <2>2 DEF AttemptCount, EffectiveCallLimit
    <3>2. ledger'.builderCalls <= MaxBuilder + Len(ledger'.rebuilds)
      BY <1>4, <1>7, <2>0, <2>2, <3>1, Lengths
    <3> QED
      BY <1>4, <1>7, <2>1, <2>2, <3>2 DEF CallLimits
  <2>3. CASE kind = "jev"
    <3>1. ledger.jevCalls < MaxJev + Len(ledger.rebuilds) + Len(ledger.retries)
      BY <1>5, <2>3 DEF AttemptCount, EffectiveCallLimit
    <3>2. ledger.jevCalls + 1 <= MaxJev + Len(ledger.rebuilds) + Len(ledger.retries)
      BY <1>7, <2>0, <3>1, Lengths, LimitExtended DEF CallLimits
    <3> QED
      BY <1>4, <1>7, <2>1, <2>3, <3>2 DEF CallLimits
  <2> QED
    BY <1>6, <2>2, <2>3
<1>9. OnePendingCall'
  BY <1>3, <1>4, <1>5, <1>7, Lengths DEF OnePendingCall, Settled
<1> QED
  BY <1>4, <1>5, <1>7, <1>8, <1>9 DEF PreparedQuiescent

LEMMA CountRetry ==
  ASSUME CountInv, ReserveRetry
  PROVE  CallLimits' /\ OnePendingCall' /\ PreparedQuiescent'
<1> DEFINE call == Len(ledger.calls)
           m == AdmitRetry(ledger, call)
           u == ledger.calls[call].unit
           c == [kind |-> "jev", unit |-> u]
<1>1. ledger \in LedgerType /\ ledger.calls \in Seq(Call) /\ call \in Nat
      /\ ledger.retries \in Seq(Nat)
  BY DEF CountInv, TypeOK, LedgerType
<1>2. m \in LedgerType /\ "jev" \in Kinds
  BY <1>1, AdmitRetryType DEF Kinds
<1>3. ledger' = Reserve(m, "jev", u)
  BY DEF ReserveRetry
<1>4. /\ m.calls = ledger.calls /\ m.receipts = ledger.receipts
      /\ m.retries = Append(ledger.retries, call)
      /\ m.rebuilds = ledger.rebuilds /\ m.committed = ledger.committed
      /\ m.builderCalls = ledger.builderCalls /\ m.jevCalls = ledger.jevCalls
      /\ m.prepared = ledger.prepared /\ m.published = ledger.published
  BY <1>1, AdmitRetryFields DEF SameHistory, SameCounts, SamePublication
<1> HIDE DEF m, u
<1>5. /\ ledger'.calls = Append(ledger.calls, c)
      /\ ledger'.retries = Append(ledger.retries, call)
  BY <1>2, <1>3, <1>4, ReserveFields, ReserveCalls
<1>6. /\ Len(ledger'.calls) = Len(ledger.calls) + 1
      /\ Len(ledger'.retries) = Len(ledger.retries) + 1
  <2> HIDE DEF c, call
  <2> QED BY <1>1, <1>5
<1>7. /\ ledger'.builderCalls = ledger.builderCalls
      /\ ledger'.jevCalls = ledger.jevCalls + 1
      /\ ledger'.receipts = ledger.receipts
      /\ ledger'.committed = ledger.committed
      /\ ledger'.rebuilds = ledger.rebuilds
      /\ ledger'.prepared = ledger.prepared /\ ledger'.published = ledger.published
  BY <1>2, <1>3, <1>4, ReserveFields DEF SamePublication
<1>8. /\ ledger.prepared = NoArtifact /\ Settled(ledger)
      /\ Len(ledger.retries) < SupportRetries
      /\ ledger.jevCalls < MaxJev + Len(ledger.rebuilds) + Len(ledger'.retries)
  <2>1. CanRetry(ledger, call) /\ CanReserve(m, "jev")
    BY DEF ReserveRetry, m
  <2>2. m.retries = ledger'.retries
    BY <1>4, <1>5
  <2> HIDE DEF call
  <2> QED
    BY <1>4, <2>1, <2>2 DEF CanRetry, CanReserve, AttemptCount, EffectiveCallLimit
<1>9. TypeOK /\ CallLimits /\ OnePendingCall /\ PreparedQuiescent
  BY DEF CountInv
<1>10. CallLimits'
  <2>0. MaxBuilder \in Nat /\ MaxJev \in Nat /\ SupportRetries \in Nat
    BY BudgetAssumption
  <2>1. Len(ledger'.calls) = ledger'.builderCalls + ledger'.jevCalls
    BY <1>6, <1>7, <1>9, Lengths DEF CallLimits
  <2>2. ledger'.builderCalls <= MaxBuilder + Len(ledger'.rebuilds)
    BY <1>7, <1>9 DEF CallLimits
  <2>3. ledger'.jevCalls <= MaxJev + Len(ledger'.rebuilds) + Len(ledger'.retries)
    <3>1. ledger.jevCalls + 1
            <= MaxJev + Len(ledger.rebuilds) + (Len(ledger.retries) + 1)
      BY <1>9, <2>0, Lengths, LimitExtended DEF CallLimits
    <3> QED
      BY <1>6, <1>7, <3>1
  <2>4. Len(ledger'.retries) <= SupportRetries
    BY <1>6, <1>8, <1>9, <2>0, Lengths
  <2> QED
    BY <1>7, <1>9, <2>1, <2>2, <2>3, <2>4 DEF CallLimits
<1>11. OnePendingCall'
  BY <1>6, <1>7, <1>8, <1>9, Lengths DEF OnePendingCall, Settled
<1> QED
  BY <1>7, <1>8, <1>9, <1>10, <1>11 DEF PreparedQuiescent

LEMMA CountFinish ==
  ASSUME CountInv, NEW outcome \in Outcomes, FinishCall(outcome)
  PROVE  CallLimits' /\ OnePendingCall' /\ PreparedQuiescent'
<1>1. ledger \in LedgerType /\ ledger.receipts \in Seq(Outcomes)
  BY DEF CountInv, TypeOK, LedgerType
<1>2. /\ ledger'.receipts = Append(ledger.receipts, outcome)
      /\ ledger'.calls = ledger.calls /\ ledger'.committed = ledger.committed
      /\ ledger'.rebuilds = ledger.rebuilds /\ ledger'.retries = ledger.retries
      /\ ledger'.builderCalls = ledger.builderCalls
      /\ ledger'.jevCalls = ledger.jevCalls
      /\ ledger'.prepared = ledger.prepared /\ ledger'.published = ledger.published
  BY <1>1, FinishFields DEF FinishCall, SameCounts, SamePublication
<1>3. Len(ledger'.receipts) = Len(ledger.receipts) + 1
  BY <1>1, <1>2
<1>4. Len(ledger.calls) = Len(ledger.receipts) + 1
  BY DEF FinishCall, CanFinish
<1> QED
  BY <1>2, <1>3, <1>4, Lengths
  DEF CountInv, CallLimits, OnePendingCall, PreparedQuiescent, Settled, Quiescent

LEMMA CountComplete ==
  ASSUME CountInv, NEW unit \in Units, Complete(unit)
  PROVE  CallLimits' /\ OnePendingCall' /\ PreparedQuiescent'
<1>1. ledger \in LedgerType
  BY DEF CountInv, TypeOK
<1>2. /\ ledger'.calls = ledger.calls /\ ledger'.receipts = ledger.receipts
      /\ ledger'.committed = Len(ledger.calls)
      /\ ledger'.rebuilds = ledger.rebuilds /\ ledger'.retries = ledger.retries
      /\ ledger'.builderCalls = ledger.builderCalls
      /\ ledger'.jevCalls = ledger.jevCalls
      /\ ledger'.prepared = ledger.prepared /\ ledger'.published = ledger.published
  <2>1. ledger' = CompleteWindow(ledger, unit, Len(ledger.calls))
    BY DEF Complete
  <2> QED
    BY <1>1, <2>1, CompleteWindowFields DEF SameCounts, SamePublication
<1>3. Settled(ledger) /\ ledger.committed + 1 <= Len(ledger.calls)
  BY DEF Complete, CanCompleteWindow
<1> QED
  BY <1>2, <1>3, Lengths
  DEF CountInv, CallLimits, OnePendingCall, PreparedQuiescent, Settled, Quiescent

LEMMA CountRebuild ==
  ASSUME CountInv, AdmitRebuild
  PROVE  CallLimits' /\ OnePendingCall' /\ PreparedQuiescent'
<1> DEFINE call == Len(ledger.calls)
<1>1. ledger \in LedgerType /\ ledger.rebuilds \in Seq(Nat) /\ call \in Nat
  BY DEF CountInv, TypeOK, LedgerType
<1>2. /\ ledger'.calls = ledger.calls /\ ledger'.receipts = ledger.receipts
      /\ ledger'.committed = call
      /\ ledger'.retries = ledger.retries
      /\ ledger'.builderCalls = ledger.builderCalls
      /\ ledger'.jevCalls = ledger.jevCalls
      /\ ledger'.prepared = ledger.prepared /\ ledger'.published = ledger.published
  BY <1>1, RebuildFields
  DEF AdmitRebuild, SameHistory, SameCounts, SamePublication
<1>3. Len(ledger'.rebuilds) = Len(ledger.rebuilds) + 1
  <2>1. ledger'.rebuilds = Append(ledger.rebuilds, call)
    BY <1>1, RebuildFields DEF AdmitRebuild
  <2> HIDE DEF call
  <2> QED BY <1>1, <2>1
<1>4. /\ ledger.prepared = NoArtifact /\ Settled(ledger)
      /\ Len(ledger.rebuilds) < MaxRebuilds /\ ~ledger.published
  BY DEF AdmitRebuild, CanRebuild
<1>5. TypeOK /\ CallLimits /\ OnePendingCall /\ PreparedQuiescent
  BY DEF CountInv
<1>6. CallLimits'
  <2>0. MaxBuilder \in Nat /\ MaxJev \in Nat
    BY BudgetAssumption
  <2>1. Len(ledger'.calls) = ledger'.builderCalls + ledger'.jevCalls
    BY <1>2, <1>5 DEF CallLimits
  <2>2. ledger'.builderCalls <= MaxBuilder + Len(ledger'.rebuilds)
    BY <1>2, <1>3, <1>5, <2>0, Lengths DEF CallLimits
  <2>3. ledger'.jevCalls <= MaxJev + Len(ledger'.rebuilds) + Len(ledger'.retries)
    BY <1>2, <1>3, <1>5, <2>0, Lengths, LimitExtended DEF CallLimits
  <2>4. Len(ledger'.rebuilds) <= MaxRebuilds
    BY <1>3, <1>4, <1>5, Lengths DEF MaxRebuilds
  <2>5. Len(ledger'.retries) <= SupportRetries
    BY <1>2, <1>5 DEF CallLimits
  <2> QED
    BY <2>1, <2>2, <2>3, <2>4, <2>5 DEF CallLimits
<1>7. OnePendingCall'
  BY <1>2, <1>4, <1>5, Lengths DEF OnePendingCall, Settled
<1> QED
  BY <1>2, <1>4, <1>6, <1>7 DEF PreparedQuiescent

LEMMA CountStep == CountInv /\ [Next]_vars => CountInv'
<1> SUFFICES ASSUME CountInv, [Next]_vars
             PROVE  CallLimits' /\ OnePendingCall' /\ PreparedQuiescent'
  BY TypeStep DEF CountInv
<1>0. ledger \in LedgerType /\ CallLimits /\ OnePendingCall /\ PreparedQuiescent
  BY DEF CountInv, TypeOK
<1>1. CASE Bind
  <2>1. /\ SameHistory(ledger', ledger) /\ SameCounts(ledger', ledger)
        /\ SamePublication(ledger', ledger)
        /\ ledger'.committed = ledger.committed
        /\ ledger'.rebuilds = ledger.rebuilds /\ ledger'.retries = ledger.retries
    BY <1>0, <1>1 DEF Bind, LedgerType, SameHistory, SameCounts, SamePublication
  <2> QED
    BY <1>0, <2>1 DEF CallLimits, OnePendingCall, PreparedQuiescent, Quiescent,
                      Settled, SameHistory, SameCounts, SamePublication
<1>2. ASSUME NEW kind \in Kinds, NEW unit \in Units, ReserveCall(kind, unit)
      PROVE  CallLimits' /\ OnePendingCall' /\ PreparedQuiescent'
  BY <1>2, CountReserve
<1>3. ASSUME NEW outcome \in Outcomes, FinishCall(outcome)
      PROVE  CallLimits' /\ OnePendingCall' /\ PreparedQuiescent'
  BY <1>3, CountFinish
<1>4. CASE ReserveRetry
  BY <1>4, CountRetry
<1>5. ASSUME NEW unit \in Units, Complete(unit)
      PROVE  CallLimits' /\ OnePendingCall' /\ PreparedQuiescent'
  BY <1>5, CountComplete
<1>6. CASE Fail
  <2>1. /\ SameHistory(ledger', ledger) /\ SameCounts(ledger', ledger)
        /\ SamePublication(ledger', ledger)
        /\ ledger'.committed = ledger.committed
        /\ ledger'.rebuilds = ledger.rebuilds /\ ledger'.retries = ledger.retries
    BY <1>0, <1>6 DEF Fail, LedgerType, SameHistory, SameCounts, SamePublication
  <2> QED
    BY <1>0, <2>1 DEF CallLimits, OnePendingCall, PreparedQuiescent, Quiescent,
                      Settled, SameHistory, SameCounts, SamePublication
<1>7. CASE AdmitRebuild
  BY <1>7, CountRebuild
<1>8. ASSUME NEW artifact \in Artifacts, Prepare(artifact)
      PROVE  CallLimits' /\ OnePendingCall' /\ PreparedQuiescent'
  <2>1. /\ SameHistory(ledger', ledger) /\ SameCounts(ledger', ledger)
        /\ ledger'.published = ledger.published
        /\ ledger'.prepared = artifact
        /\ ledger'.committed = ledger.committed
        /\ ledger'.rebuilds = ledger.rebuilds /\ ledger'.retries = ledger.retries
    BY <1>0, <1>8 DEF Prepare, LedgerType, SameHistory, SameCounts
  <2>2. Quiescent(ledger) /\ Settled(ledger) /\ ~ledger.published
    BY <1>0, <1>8, Lengths
    DEF Prepare, CanPrepare, Live, Quiescent, Settled, OnePendingCall, TypeOK
  <2> QED
    BY <1>0, <2>1, <2>2 DEF CallLimits, OnePendingCall, PreparedQuiescent,
                            Quiescent, Settled, SameHistory, SameCounts
<1>9. CASE Publish
  <2>1. /\ SameHistory(ledger', ledger) /\ SameCounts(ledger', ledger)
        /\ ledger'.prepared = ledger.prepared
        /\ ledger'.committed = ledger.committed
        /\ ledger'.rebuilds = ledger.rebuilds /\ ledger'.retries = ledger.retries
    BY <1>0, <1>9 DEF Publish, LedgerType, SameHistory, SameCounts
  <2>2. ledger.prepared # NoArtifact
    BY <1>9 DEF Publish, CanPublish
  <2> QED
    BY <1>0, <2>1, <2>2 DEF CallLimits, OnePendingCall, PreparedQuiescent,
                            Quiescent, Settled, SameHistory, SameCounts
<1>10. CASE UNCHANGED vars
  BY <1>0, <1>10 DEF vars, CallLimits, OnePendingCall, PreparedQuiescent,
                     Quiescent, Settled
<1> QED
  BY <1>1, <1>2, <1>3, <1>4, <1>5, <1>6, <1>7, <1>8, <1>9, <1>10 DEF Next

LEMMA CountInvariant == Spec => []CountInv
  BY CountInit, CountStep, PTL DEF Spec

\* The provider calls that a ledger ever admits, through every resume, retry
\* and rebuild, stay within the announced budgets.
THEOREM BudgetKept == Spec => []CallBudget
<1>1. CountInv => CallBudget
  <2> SUFFICES ASSUME CountInv PROVE CallBudget
    OBVIOUS
  <2>1. TypeOK /\ CallLimits
    BY DEF CountInv
  <2>2. /\ MaxBuilder \in Nat /\ MaxJev \in Nat /\ SupportRetries \in Nat
        /\ MaxRebuilds \in Nat
    BY BudgetAssumption DEF MaxRebuilds
  <2>3. ledger.builderCalls <= MaxBuilder + MaxRebuilds
    BY <2>1, <2>2, Lengths DEF CallLimits
  <2>4. ledger.jevCalls <= MaxJev + MaxRebuilds + SupportRetries
    <3>1. \A n, m, r, t, r2, t2 \in Nat :
            n <= m + r + t /\ r <= r2 /\ t <= t2 => n <= m + r2 + t2
      OBVIOUS
    <3> QED
      BY <2>1, <2>2, <3>1, Lengths DEF CallLimits
  <2> QED
    BY <2>1, <2>3, <2>4 DEF CallLimits, CallBudget
<1> QED
  BY <1>1, CountInvariant, PTL

\* At most one call is without a receipt, and none in the committed prefix.
THEOREM OneCallPending == Spec => []OnePendingCall
<1>1. CountInv => OnePendingCall
  BY DEF CountInv
<1> QED
  BY <1>1, CountInvariant, PTL

\* A publication is prepared only from a fully accounted history, and no
\* ledger is published that was not prepared.
THEOREM PublicationQuiescent == Spec => []PreparedQuiescent
<1>1. CountInv => PreparedQuiescent
  BY DEF CountInv
<1> QED
  BY <1>1, CountInvariant, PTL

\* A support retry never fails for want of budget: the partial update that
\* Ledger::apply would leave behind cannot happen.
THEOREM RetryAlwaysFits == Spec => []RetryFits
<1>1. CountInv => RetryFits
  <2> DEFINE call == Len(ledger.calls)
             m == AdmitRetry(ledger, call)
  <2> SUFFICES ASSUME CountInv, Live(ledger), CanRetry(ledger, call),
                      ledger.prepared = NoArtifact
               PROVE  CanReserve(m, "jev")
    BY DEF RetryFits
  <2>1. /\ ledger \in LedgerType /\ CallLimits /\ TypeOK
        /\ ledger.retries \in Seq(Nat) /\ call \in Nat
    BY DEF CountInv, TypeOK, LedgerType
  <2>2. /\ m.calls = ledger.calls /\ m.receipts = ledger.receipts
        /\ m.bound = ledger.bound /\ m.failed = ledger.failed
        /\ m.rebuilds = ledger.rebuilds /\ m.jevCalls = ledger.jevCalls
        /\ m.prepared = ledger.prepared /\ m.published = ledger.published
    BY <2>1, AdmitRetryFields DEF SameHistory, SameCounts, SamePublication
  <2>3. Len(m.retries) = Len(ledger.retries) + 1
    <3>1. m.retries = Append(ledger.retries, call)
      BY <2>1, AdmitRetryFields
    <3> HIDE DEF m, call
    <3> QED BY <2>1, <3>1
  <2>4. ledger.jevCalls < MaxJev + Len(ledger.rebuilds) + Len(m.retries)
    <3>1. MaxJev \in Nat
      BY BudgetAssumption
    <3>2. ledger.jevCalls
            < MaxJev + Len(ledger.rebuilds) + (Len(ledger.retries) + 1)
      BY <2>1, <3>1, Lengths, LimitExtended DEF CallLimits
    <3> QED
      BY <2>3, <3>2
  <2>5. Settled(ledger)
    BY DEF CanRetry
  <2> HIDE DEF m
  <2> QED
    BY <2>2, <2>4, <2>5
    DEF CanReserve, Live, Settled, AttemptCount, EffectiveCallLimit
<1> QED
  BY <1>1, CountInvariant, PTL

\* What was published was made from a history that nothing changes afterwards.
THEOREM HistoryFrozen == Spec => PreparedFreezesHistory
<1> DEFINE Frozen == ledger.prepared # NoArtifact =>
                       /\ ledger'.prepared = ledger.prepared
                       /\ ledger'.calls = ledger.calls
                       /\ ledger'.receipts = ledger.receipts
                       /\ ledger'.windows = ledger.windows
<1>1. CountInv /\ [Next]_vars => [Frozen]_vars
  <2> SUFFICES ASSUME CountInv, Next, ledger.prepared # NoArtifact PROVE Frozen
    OBVIOUS
  <2>0. /\ ledger \in LedgerType /\ TypeOK
        /\ Quiescent(ledger) /\ Settled(ledger)
    BY DEF CountInv, PreparedQuiescent, TypeOK
  <2>1. CASE Bind
    BY <2>0, <2>1 DEF Bind, LedgerType
  <2>2. ASSUME NEW kind \in Kinds, NEW unit \in Units, ReserveCall(kind, unit)
        PROVE  FALSE
    BY <2>2 DEF ReserveCall, CanReserve
  <2>3. ASSUME NEW outcome \in Outcomes, FinishCall(outcome) PROVE FALSE
    BY <2>0, <2>3, Lengths DEF FinishCall, CanFinish, Settled
  <2>4. ASSUME ReserveRetry PROVE FALSE
    <3> DEFINE m == AdmitRetry(ledger, Len(ledger.calls))
    <3>1. m.prepared = ledger.prepared
      BY <2>0, AdmitRetryFields DEF SamePublication
    <3>2. m.prepared = NoArtifact
      BY <2>4 DEF ReserveRetry, CanReserve
    <3> QED
      BY <3>1, <3>2
  <2>5. ASSUME NEW unit \in Units, Complete(unit) PROVE FALSE
    BY <2>0, <2>5, Lengths DEF Complete, CanCompleteWindow, Quiescent
  <2>6. CASE Fail
    BY <2>0, <2>6 DEF Fail, LedgerType
  <2>7. ASSUME AdmitRebuild PROVE FALSE
    BY <2>7 DEF AdmitRebuild, CanRebuild
  <2>8. ASSUME NEW artifact \in Artifacts, Prepare(artifact) PROVE FALSE
    BY <2>8 DEF Prepare, CanPrepare
  <2>9. CASE Publish
    BY <2>0, <2>9 DEF Publish, LedgerType
  <2> QED
    BY <2>1, <2>2, <2>3, <2>4, <2>5, <2>6, <2>7, <2>8, <2>9 DEF Next
<1> HIDE DEF Frozen
<1>2. Spec => [][Frozen]_vars
  BY <1>1, CountInvariant, PTL DEF Spec
<1> QED
  BY <1>2 DEF PreparedFreezesHistory, Frozen

---------------------------------------------------------------------------
(* The history of calls: it only grows, and what windows, rebuilds and     *)
(* retries say about it stays true.                                        *)

Grows(s, t) == Len(s) <= Len(t) /\ \A i \in 1..Len(s) : t[i] = s[i]

LEMMA AppendGrows ==
  ASSUME NEW S, NEW s \in Seq(S), NEW e
  PROVE  Grows(s, Append(s, e))
<1>1. Len(Append(s, e)) = Len(s) + 1 /\ Len(s) \in Nat
  OBVIOUS
<1>2. \A i \in 1..Len(s) : Append(s, e)[i] = s[i]
  OBVIOUS
<1> QED
  BY <1>1, <1>2 DEF Grows

LEMMA SelfGrows ==
  ASSUME NEW S, NEW s \in Seq(S)
  PROVE  Grows(s, s)
  BY DEF Grows

\* One step extends the calls and receipts, and moves committed forward.
HistoryGrows ==
    /\ Grows(ledger.calls, ledger'.calls)
    /\ Grows(ledger.receipts, ledger'.receipts)
    /\ ledger.committed <= ledger'.committed

LEMMA Growth == CountInv /\ [Next]_vars => HistoryGrows
<1> SUFFICES ASSUME CountInv, [Next]_vars PROVE HistoryGrows
  OBVIOUS
<1>0. /\ ledger \in LedgerType /\ TypeOK
      /\ ledger.calls \in Seq(Call) /\ ledger.receipts \in Seq(Outcomes)
      /\ ledger.committed \in Nat /\ Len(ledger.calls) \in Nat
  BY DEF CountInv, TypeOK, LedgerType
<1>a. /\ Grows(ledger.calls, ledger.calls)
      /\ Grows(ledger.receipts, ledger.receipts)
      /\ ledger.committed <= ledger.committed
  BY <1>0, SelfGrows
<1>b. ASSUME ledger'.calls = ledger.calls, ledger'.receipts = ledger.receipts,
             ledger'.committed = ledger.committed
      PROVE  HistoryGrows
  BY <1>a, <1>b DEF HistoryGrows
<1>c. ledger.committed <= Len(ledger.calls)
  BY Lengths DEF CountInv, OnePendingCall
<1>1. CASE Bind
  BY <1>0, <1>1, <1>b DEF Bind, LedgerType
<1>2. ASSUME NEW kind \in Kinds, NEW unit \in Units, ReserveCall(kind, unit)
      PROVE  HistoryGrows
  <2> DEFINE c == [kind |-> kind, unit |-> unit]
  <2>1. ledger'.calls = Append(ledger.calls, c)
    BY <1>0, <1>2, ReserveCalls DEF ReserveCall
  <2>2. /\ ledger'.receipts = ledger.receipts
        /\ ledger'.committed = ledger.committed
    BY <1>0, <1>2, ReserveFields DEF ReserveCall
  <2> HIDE DEF c
  <2>3. Grows(ledger.calls, Append(ledger.calls, c))
    BY <1>0, AppendGrows
  <2> QED
    BY <1>a, <2>1, <2>2, <2>3 DEF HistoryGrows
<1>3. ASSUME NEW outcome \in Outcomes, FinishCall(outcome)
      PROVE  HistoryGrows
  <2>1. /\ ledger'.receipts = Append(ledger.receipts, outcome)
        /\ ledger'.calls = ledger.calls /\ ledger'.committed = ledger.committed
    BY <1>0, <1>3, FinishFields DEF FinishCall
  <2>2. Grows(ledger.receipts, Append(ledger.receipts, outcome))
    BY <1>0, AppendGrows
  <2> QED
    BY <1>a, <2>1, <2>2 DEF HistoryGrows
<1>4. CASE ReserveRetry
  <2> DEFINE m == AdmitRetry(ledger, Len(ledger.calls))
             u == ledger.calls[Len(ledger.calls)].unit
             c == [kind |-> "jev", unit |-> u]
  <2>1. m \in LedgerType /\ "jev" \in Kinds
    BY <1>0, AdmitRetryType DEF Kinds
  <2>2. ledger' = Reserve(m, "jev", u)
    BY <1>4 DEF ReserveRetry
  <2>3. /\ m.calls = ledger.calls /\ m.receipts = ledger.receipts
        /\ m.committed = ledger.committed
    BY <1>0, AdmitRetryFields DEF SameHistory
  <2> HIDE DEF m, u
  <2>4. ledger'.calls = Append(ledger.calls, c)
    BY <2>1, <2>2, <2>3, ReserveCalls
  <2>5. ledger'.receipts = ledger.receipts /\ ledger'.committed = ledger.committed
    BY <2>1, <2>2, <2>3, ReserveFields
  <2> HIDE DEF c
  <2>6. Grows(ledger.calls, Append(ledger.calls, c))
    BY <1>0, AppendGrows
  <2> QED
    BY <1>a, <2>4, <2>5, <2>6 DEF HistoryGrows
<1>5. ASSUME NEW unit \in Units, Complete(unit) PROVE HistoryGrows
  <2>1. ledger' = CompleteWindow(ledger, unit, Len(ledger.calls))
    BY <1>5 DEF Complete
  <2>2. /\ ledger'.calls = ledger.calls /\ ledger'.receipts = ledger.receipts
        /\ ledger'.committed = Len(ledger.calls)
    BY <1>0, <2>1, CompleteWindowFields
  <2> QED
    BY <1>a, <1>c, <2>2 DEF HistoryGrows
<1>6. CASE Fail
  BY <1>0, <1>6, <1>b DEF Fail, LedgerType
<1>7. CASE AdmitRebuild
  <2>1. ledger' = Rebuild(ledger, Len(ledger.calls))
    BY <1>7 DEF AdmitRebuild
  <2>2. /\ ledger'.calls = ledger.calls /\ ledger'.receipts = ledger.receipts
        /\ ledger'.committed = Len(ledger.calls)
    BY <1>0, <2>1, RebuildFields DEF SameHistory
  <2> QED
    BY <1>a, <1>c, <2>2 DEF HistoryGrows
<1>8. ASSUME NEW artifact \in Artifacts, Prepare(artifact) PROVE HistoryGrows
  BY <1>0, <1>8, <1>b DEF Prepare, LedgerType
<1>9. CASE Publish
  BY <1>0, <1>9, <1>b DEF Publish, LedgerType
<1>10. CASE UNCHANGED vars
  BY <1>10, <1>b DEF vars
<1> QED
  BY <1>1, <1>2, <1>3, <1>4, <1>5, <1>6, <1>7, <1>8, <1>9, <1>10 DEF Next

\* Which actions touch the lists of windows, rebuilds and retries.
LEMMA ListChanges ==
  ASSUME CountInv, [Next]_vars
  PROVE  /\ ledger'.retries = ledger.retries \/ ReserveRetry
         /\ ledger'.windows = ledger.windows \/ \E unit \in Units : Complete(unit)
         /\ ledger'.rebuilds = ledger.rebuilds \/ AdmitRebuild
<1>0. ledger \in LedgerType /\ Len(ledger.calls) \in Nat /\ ledger.calls \in Seq(Call)
  BY DEF CountInv, TypeOK, LedgerType
<1>1. CASE Bind
  BY <1>0, <1>1 DEF Bind, LedgerType
<1>2. ASSUME NEW kind \in Kinds, NEW unit \in Units, ReserveCall(kind, unit)
      PROVE  /\ ledger'.retries = ledger.retries
             /\ ledger'.windows = ledger.windows
             /\ ledger'.rebuilds = ledger.rebuilds
  BY <1>0, <1>2, ReserveFields DEF ReserveCall
<1>3. ASSUME NEW outcome \in Outcomes, FinishCall(outcome)
      PROVE  /\ ledger'.retries = ledger.retries
             /\ ledger'.windows = ledger.windows
             /\ ledger'.rebuilds = ledger.rebuilds
  BY <1>0, <1>3, FinishFields DEF FinishCall
<1>4. CASE ReserveRetry
  <2> DEFINE m == AdmitRetry(ledger, Len(ledger.calls))
             u == ledger.calls[Len(ledger.calls)].unit
  <2>1. m \in LedgerType /\ "jev" \in Kinds
    BY <1>0, AdmitRetryType DEF Kinds
  <2>2. ledger' = Reserve(m, "jev", u)
    BY <1>4 DEF ReserveRetry
  <2>3. m.windows = ledger.windows /\ m.rebuilds = ledger.rebuilds
    BY <1>0, AdmitRetryFields DEF SameHistory
  <2> HIDE DEF m, u
  <2> QED
    BY <1>4, <2>1, <2>2, <2>3, ReserveFields
<1>5. ASSUME NEW unit \in Units, Complete(unit)
      PROVE  ledger'.retries = ledger.retries /\ ledger'.rebuilds = ledger.rebuilds
  <2>1. ledger' = CompleteWindow(ledger, unit, Len(ledger.calls))
    BY <1>5 DEF Complete
  <2> QED
    BY <1>0, <2>1, CompleteWindowFields
<1>6. CASE Fail
  BY <1>0, <1>6 DEF Fail, LedgerType
<1>7. CASE AdmitRebuild
  <2>1. ledger' = Rebuild(ledger, Len(ledger.calls))
    BY <1>7 DEF AdmitRebuild
  <2> QED
    BY <1>0, <1>7, <2>1, RebuildFields DEF SameHistory
<1>8. ASSUME NEW artifact \in Artifacts, Prepare(artifact)
      PROVE  /\ ledger'.retries = ledger.retries
             /\ ledger'.windows = ledger.windows
             /\ ledger'.rebuilds = ledger.rebuilds
  BY <1>0, <1>8 DEF Prepare, LedgerType
<1>9. CASE Publish
  BY <1>0, <1>9 DEF Publish, LedgerType
<1>10. CASE UNCHANGED vars
  BY <1>10 DEF vars
<1> QED
  BY <1>1, <1>2, <1>3, <1>4, <1>5, <1>6, <1>7, <1>8, <1>9, <1>10 DEF Next

LEMMA RetryLinksStep ==
  ASSUME CountInv, RetryLinks, [Next]_vars
  PROVE  RetryLinks'
<1>0. /\ ledger \in LedgerType /\ ledger.calls \in Seq(Call)
      /\ ledger.retries \in Seq(Nat) /\ Len(ledger.calls) \in Nat
      /\ Len(ledger.receipts) \in Nat /\ Len(ledger.retries) \in Nat
      /\ Len(ledger.calls) <= Len(ledger.receipts) + 1
  BY DEF CountInv, TypeOK, LedgerType, OnePendingCall
<1>1. /\ Grows(ledger.calls, ledger'.calls)
      /\ Grows(ledger.receipts, ledger'.receipts)
      /\ Len(ledger'.calls) \in Nat
  <2>1. TypeOK'
    BY TypeStep DEF CountInv
  <2> QED
    BY <2>1, Growth DEF HistoryGrows, TypeOK, LedgerType
\* What holds of an admitted retry goes on holding.
<1>2. ASSUME NEW i \in 1..Len(ledger.retries)
      PROVE  LET c == ledger.retries[i] IN
             /\ c \in Nat /\ c >= 1 /\ c < Len(ledger.calls)
             /\ c < Len(ledger'.calls)
             /\ ledger'.calls[c].kind = "jev"
             /\ ledger'.receipts[c] = "transient"
             /\ ledger'.calls[c + 1] = ledger'.calls[c]
             /\ \A j \in 1..(i - 1) : ledger.retries[j] < c
  <2> DEFINE c == ledger.retries[i]
  <2>1. c \in Nat
    BY <1>0
  <2>2. /\ c >= 1 /\ c < Len(ledger.calls)
        /\ ledger.calls[c].kind = "jev" /\ ledger.receipts[c] = "transient"
        /\ ledger.calls[c + 1] = ledger.calls[c]
        /\ \A j \in 1..(i - 1) : ledger.retries[j] < c
    BY DEF RetryLinks
  <2>3. /\ c \in 1..Len(ledger.calls) /\ c + 1 \in 1..Len(ledger.calls)
        /\ c \in 1..Len(ledger.receipts)
    BY <1>0, <2>1, <2>2
  <2>4. /\ ledger'.calls[c] = ledger.calls[c]
        /\ ledger'.calls[c + 1] = ledger.calls[c + 1]
        /\ ledger'.receipts[c] = ledger.receipts[c]
        /\ c < Len(ledger'.calls)
    <3>1. ledger'.calls[c] = ledger.calls[c]
      BY <1>1, <2>3 DEF Grows
    <3>2. ledger'.calls[c + 1] = ledger.calls[c + 1]
      BY <1>1, <2>3 DEF Grows
    <3>3. ledger'.receipts[c] = ledger.receipts[c]
      BY <1>1, <2>3 DEF Grows
    <3>4. c < Len(ledger'.calls)
      <4>1. Len(ledger.calls) <= Len(ledger'.calls)
        BY <1>1 DEF Grows
      <4> QED
        BY <1>0, <1>1, <2>1, <2>2, <4>1
    <3> QED
      BY <3>1, <3>2, <3>3, <3>4
  <2> QED
    BY <2>1, <2>2, <2>4
<1>3. CASE ledger'.retries = ledger.retries
  BY <1>2, <1>3 DEF RetryLinks
<1>4. CASE ReserveRetry
  <2> DEFINE call == Len(ledger.calls)
             n == Len(ledger.retries)
             m == AdmitRetry(ledger, call)
             u == ledger.calls[call].unit
             e == [kind |-> "jev", unit |-> u]
  <2>1. m \in LedgerType /\ "jev" \in Kinds
    BY <1>0, AdmitRetryType DEF Kinds
  <2>2. ledger' = Reserve(m, "jev", u)
    BY <1>4 DEF ReserveRetry
  <2>3. /\ m.calls = ledger.calls /\ m.receipts = ledger.receipts
        /\ m.retries = Append(ledger.retries, call)
    BY <1>0, AdmitRetryFields DEF SameHistory
  <2>4. /\ call > 0 /\ ledger.calls[call].kind = "jev"
        /\ ledger.receipts[call] = "transient"
        /\ call = Len(ledger.receipts)
    BY <1>4 DEF ReserveRetry, CanRetry, Settled
  <2>5. ledger.calls[call] = e
    <3>1. ledger.calls[call] \in Call
      BY <1>0, <2>4
    <3> QED
      BY <2>4, <3>1 DEF Call
  <2> HIDE DEF m, u
  <2>6. /\ ledger'.calls = Append(ledger.calls, e)
        /\ ledger'.receipts = ledger.receipts
        /\ ledger'.retries = Append(ledger.retries, call)
    BY <2>1, <2>2, <2>3, ReserveCalls, ReserveFields
  <2> HIDE DEF e, call
  <2>7. /\ ledger'.calls[call + 1] = e /\ call < Len(ledger'.calls)
        /\ ledger'.calls[call] = e
    BY <1>0, <2>4, <2>5, <2>6 DEF call
  <2>8. e.kind = "jev"
    BY DEF e
  <2>9. /\ Len(ledger'.retries) = n + 1
        /\ ledger'.retries[n + 1] = call
        /\ \A i \in 1..n : ledger'.retries[i] = ledger.retries[i]
    BY <1>0, <2>6 DEF call
  <2>10. ASSUME NEW i \in 1..Len(ledger'.retries)
         PROVE  LET c == ledger'.retries[i] IN
                /\ c >= 1 /\ c < Len(ledger'.calls)
                /\ ledger'.calls[c].kind = "jev"
                /\ ledger'.receipts[c] = "transient"
                /\ ledger'.calls[c + 1] = ledger'.calls[c]
                /\ \A j \in 1..(i - 1) : ledger'.retries[j] < c
    <3>1. CASE i \in 1..n
      <4>1. ledger'.retries[i] = ledger.retries[i]
        BY <2>9, <3>1
      <4>2. \A j \in 1..(i - 1) : ledger'.retries[j] = ledger.retries[j]
        <5>1. 1..(i - 1) \subseteq 1..n
          BY <1>0, <3>1
        <5> QED
          BY <2>9, <5>1
      <4> QED
        BY <1>2, <3>1, <4>1, <4>2
    <3>2. CASE i = n + 1
      <4>1. \A j \in 1..n : ledger'.retries[j] < call
        BY <1>2, <2>9 DEF call
      <4>2. call >= 1 /\ 1..(i - 1) = 1..n
        BY <1>0, <2>4, <3>2 DEF call
      <4> QED
        BY <2>4, <2>6, <2>7, <2>8, <2>9, <3>2, <4>1, <4>2
    <3> QED
      BY <1>0, <2>9, <3>1, <3>2
  <2> QED
    BY <2>10 DEF RetryLinks
<1> QED
  BY <1>3, <1>4, ListChanges

LEMMA WindowsSoundStep ==
  ASSUME CountInv, WindowsSound, [Next]_vars
  PROVE  WindowsSound'
<1> DEFINE n == Len(ledger.windows)
<1>0. /\ ledger \in LedgerType /\ ledger.windows \in Seq(Window) /\ n \in Nat
      /\ ledger.committed \in Nat
      /\ Len(ledger.calls) \in Nat /\ Len(ledger.receipts) \in Nat
      /\ ledger.committed <= Len(ledger.receipts)
      /\ Len(ledger.receipts) <= Len(ledger.calls)
  BY DEF CountInv, TypeOK, LedgerType, OnePendingCall
<1>1. /\ Grows(ledger.calls, ledger'.calls)
      /\ Grows(ledger.receipts, ledger'.receipts)
      /\ ledger.committed <= ledger'.committed /\ ledger'.committed \in Nat
  <2>1. TypeOK'
    BY TypeStep DEF CountInv
  <2> QED
    BY <2>1, Growth DEF HistoryGrows, TypeOK, LedgerType
\* What holds of a completed window goes on holding.
<1>2. ASSUME NEW i \in 1..n
      PROVE  LET w == ledger.windows[i] IN
             /\ 1 <= w.first /\ w.first <= w.last
             /\ w.last <= ledger.committed /\ w.last <= ledger'.committed
             /\ \A j \in 1..(i - 1) : ledger.windows[j].last < w.first
             /\ ledger'.receipts[w.first] = "ok" /\ ledger'.receipts[w.last] = "ok"
             /\ \A c \in w.first..w.last :
                  /\ ledger'.calls[c].unit = w.unit
                  /\ ledger'.calls[c].kind = IF c = w.first THEN "builder" ELSE "jev"
  <2> DEFINE w == ledger.windows[i]
  <2>1. w \in Window
    BY <1>0
  <2>2. w.first \in Nat /\ w.last \in Nat
    BY <2>1 DEF Window
  <2>3. /\ 1 <= w.first /\ w.first <= w.last /\ w.last <= ledger.committed
        /\ \A j \in 1..(i - 1) : ledger.windows[j].last < w.first
        /\ ledger.receipts[w.first] = "ok" /\ ledger.receipts[w.last] = "ok"
        /\ \A c \in w.first..w.last :
             /\ ledger.calls[c].unit = w.unit
             /\ ledger.calls[c].kind = IF c = w.first THEN "builder" ELSE "jev"
    BY DEF WindowsSound
  <2> HIDE DEF w
  <2>4. w.last <= ledger'.committed
    BY <1>0, <1>1, <2>2, <2>3
  <2>5. ledger'.receipts[w.first] = "ok" /\ ledger'.receipts[w.last] = "ok"
    <3>1. w.first \in 1..Len(ledger.receipts) /\ w.last \in 1..Len(ledger.receipts)
      BY <1>0, <2>2, <2>3
    <3> QED
      BY <1>1, <2>3, <3>1 DEF Grows
  <2>6. ASSUME NEW c \in w.first..w.last
        PROVE  ledger'.calls[c] = ledger.calls[c]
    <3>1. c \in 1..Len(ledger.calls)
      BY <1>0, <2>2, <2>3
    <3> QED
      BY <1>1, <3>1 DEF Grows
  <2> QED
    BY <2>3, <2>4, <2>5, <2>6 DEF w
<1>3. CASE ledger'.windows = ledger.windows
  BY <1>2, <1>3 DEF WindowsSound
<1>4. ASSUME NEW unit \in Units, Complete(unit) PROVE WindowsSound'
  <2> DEFINE first == ledger.committed + 1
             last == Len(ledger.calls)
             v == [unit |-> unit, first |-> first, last |-> last]
  <2>1. ledger' = CompleteWindow(ledger, unit, last)
    BY <1>4 DEF Complete
  <2>2. /\ ledger'.windows = Append(ledger.windows, v)
    BY <1>0, <2>1, CompleteWindowWindows
  <2>3. /\ ledger'.calls = ledger.calls /\ ledger'.receipts = ledger.receipts
        /\ ledger'.committed = last
    BY <1>0, <2>1, CompleteWindowFields
  <2>4. /\ first <= last
        /\ \A c \in first..last :
             /\ ledger.calls[c].unit = unit
             /\ ledger.calls[c].kind = IF c = first THEN "builder" ELSE "jev"
             /\ c \in {first, last} => ledger.receipts[c] = "ok"
    BY <1>4 DEF Complete, CanCompleteWindow
  <2>5. v.unit = unit /\ v.first = first /\ v.last = last
    OBVIOUS
  <2>6. first \in Nat /\ last \in Nat /\ 1 <= first
    BY <1>0
  <2>7. first \in first..last /\ last \in first..last
    BY <2>4, <2>6
  <2> HIDE DEF v
  <2>8. /\ Len(ledger'.windows) = n + 1
        /\ ledger'.windows[n + 1] = v
        /\ \A i \in 1..n : ledger'.windows[i] = ledger.windows[i]
    BY <1>0, <2>2
  <2>9. \A i \in 1..n : ledger.windows[i].last < first
    <3> SUFFICES ASSUME NEW i \in 1..n PROVE ledger.windows[i].last < first
      OBVIOUS
    <3>1. ledger.windows[i] \in Window
      BY <1>0
    <3>2. ledger.windows[i].last \in Nat
      BY <3>1 DEF Window
    <3> QED
      BY <1>0, <1>2, <3>2
  <2> HIDE DEF first, last, n
  <2>10. ASSUME NEW i \in 1..Len(ledger'.windows)
         PROVE  LET w == ledger'.windows[i] IN
                /\ 1 <= w.first /\ w.first <= w.last
                /\ w.last <= ledger'.committed
                /\ \A j \in 1..(i - 1) : ledger'.windows[j].last < w.first
                /\ ledger'.receipts[w.first] = "ok"
                /\ ledger'.receipts[w.last] = "ok"
                /\ \A c \in w.first..w.last :
                     /\ ledger'.calls[c].unit = w.unit
                     /\ ledger'.calls[c].kind
                          = IF c = w.first THEN "builder" ELSE "jev"
    <3>1. CASE i \in 1..n
      <4>1. ledger'.windows[i] = ledger.windows[i]
        BY <2>8, <3>1
      <4>2. \A j \in 1..(i - 1) : ledger'.windows[j] = ledger.windows[j]
        <5>1. 1..(i - 1) \subseteq 1..n
          BY <1>0, <3>1
        <5> QED
          BY <2>8, <5>1
      <4> QED
        BY <1>2, <3>1, <4>1, <4>2
    <3>2. CASE i = n + 1
      <4>1. 1..(i - 1) = 1..n
        BY <1>0, <3>2
      <4>2. \A j \in 1..(i - 1) : ledger'.windows[j].last < first
        BY <2>8, <2>9, <4>1
      <4>3. ledger'.receipts[first] = "ok" /\ ledger'.receipts[last] = "ok"
        BY <2>3, <2>4, <2>7
      <4>4. \A c \in first..last :
              /\ ledger'.calls[c].unit = unit
              /\ ledger'.calls[c].kind = IF c = first THEN "builder" ELSE "jev"
        BY <2>3, <2>4
      <4>5. last <= ledger'.committed
        BY <2>3, <2>6
      <4> QED
        BY <2>4, <2>5, <2>6, <2>8, <3>2, <4>2, <4>3, <4>4, <4>5
    <3> QED
      BY <1>0, <2>8, <3>1, <3>2 DEF n
  <2> QED
    BY <2>10 DEF WindowsSound
<1> QED
  BY <1>3, <1>4, ListChanges

LEMMA RetiredCallsStep ==
  ASSUME CountInv, WindowsSound, RetiredCallsUnused, [Next]_vars
  PROVE  RetiredCallsUnused'
<1> DEFINE n == Len(ledger.windows)
           k == Len(ledger.rebuilds)
<1>0. /\ ledger \in LedgerType /\ ledger.windows \in Seq(Window) /\ n \in Nat
      /\ ledger.rebuilds \in Seq(Nat) /\ k \in Nat
      /\ ledger.committed \in Nat /\ Len(ledger.calls) \in Nat
      /\ Len(ledger.receipts) \in Nat
      /\ ledger.committed <= Len(ledger.receipts)
      /\ Len(ledger.receipts) <= Len(ledger.calls)
  BY DEF CountInv, TypeOK, LedgerType, OnePendingCall
<1>1. /\ Grows(ledger.receipts, ledger'.receipts)
      /\ ledger.committed <= ledger'.committed /\ ledger'.committed \in Nat
  <2>1. TypeOK'
    BY TypeStep DEF CountInv
  <2> QED
    BY <2>1, Growth DEF HistoryGrows, TypeOK, LedgerType
\* What holds of a retired call goes on holding.
<1>2. ASSUME NEW i \in 1..k
      PROVE  LET c == ledger.rebuilds[i] IN
             /\ c \in 1..ledger.committed /\ c \in 1..ledger'.committed
             /\ ledger'.receipts[c] = "transient"
             /\ \A j \in 1..n :
                  c \notin ledger.windows[j].first..ledger.windows[j].last
  <2> DEFINE c == ledger.rebuilds[i]
  <2>1. /\ c \in 1..ledger.committed /\ ledger.receipts[c] = "transient"
        /\ \A j \in 1..n :
             c \notin ledger.windows[j].first..ledger.windows[j].last
    BY DEF RetiredCallsUnused
  <2> HIDE DEF c
  <2>2. c \in 1..ledger'.committed /\ c \in 1..Len(ledger.receipts)
    BY <1>0, <1>1, <2>1
  <2>3. ledger'.receipts[c] = ledger.receipts[c]
    BY <1>1, <2>2 DEF Grows
  <2> QED
    BY <2>1, <2>2, <2>3 DEF c
<1>3. CASE ledger'.windows = ledger.windows /\ ledger'.rebuilds = ledger.rebuilds
  BY <1>2, <1>3 DEF RetiredCallsUnused
<1>4. ASSUME NEW unit \in Units, Complete(unit) PROVE RetiredCallsUnused'
  <2> DEFINE first == ledger.committed + 1
             last == Len(ledger.calls)
             v == [unit |-> unit, first |-> first, last |-> last]
  <2>1. ledger' = CompleteWindow(ledger, unit, last)
    BY <1>4 DEF Complete
  <2>2. ledger'.windows = Append(ledger.windows, v)
    BY <1>0, <2>1, CompleteWindowWindows
  <2>3. ledger'.rebuilds = ledger.rebuilds
    BY <1>0, <2>1, CompleteWindowFields
  <2>4. v.first = first /\ v.last = last /\ first \in Nat /\ last \in Nat
    BY <1>0
  <2> HIDE DEF v
  <2>5. /\ Len(ledger'.windows) = n + 1
        /\ ledger'.windows[n + 1] = v
        /\ \A i \in 1..n : ledger'.windows[i] = ledger.windows[i]
    BY <1>0, <2>2
  <2>6. ASSUME NEW i \in 1..k, NEW j \in 1..Len(ledger'.windows)
        PROVE  ledger.rebuilds[i]
                 \notin ledger'.windows[j].first..ledger'.windows[j].last
    <3>1. CASE j \in 1..n
      BY <1>2, <2>5, <3>1
    <3>2. CASE j = n + 1
      BY <1>0, <1>2, <2>4, <2>5, <3>2
    <3> QED
      BY <1>0, <2>5, <3>1, <3>2
  <2> QED
    BY <1>2, <2>3, <2>6 DEF RetiredCallsUnused
<1>5. CASE AdmitRebuild
  <2> DEFINE call == Len(ledger.calls)
  <2>1. ledger' = Rebuild(ledger, call)
    BY <1>5 DEF AdmitRebuild
  <2>2. /\ ledger'.windows = ledger.windows
        /\ ledger'.rebuilds = Append(ledger.rebuilds, call)
        /\ ledger'.receipts = ledger.receipts
        /\ ledger'.committed = call
    BY <1>0, <2>1, RebuildFields DEF SameHistory
  <2>3. /\ ledger.receipts[call] = "transient" /\ call > 0
        /\ ledger.committed + 1 <= call
    BY <1>5 DEF AdmitRebuild, CanRebuild
  <2>4. call \in Nat
    BY <1>0
  <2> HIDE DEF call
  <2>5. /\ Len(ledger'.rebuilds) = k + 1
        /\ ledger'.rebuilds[k + 1] = call
        /\ \A i \in 1..k : ledger'.rebuilds[i] = ledger.rebuilds[i]
    BY <1>0, <2>2, <2>4
  <2>6. ASSUME NEW j \in 1..n
        PROVE  call \notin ledger.windows[j].first..ledger.windows[j].last
    <3>1. ledger.windows[j] \in Window
      BY <1>0
    <3>2. ledger.windows[j].last \in Nat /\ ledger.windows[j].first \in Nat
      BY <3>1 DEF Window
    <3>3. ledger.windows[j].last <= ledger.committed
      BY DEF WindowsSound
    <3> QED
      BY <1>0, <2>3, <2>4, <3>2, <3>3
  <2>7. ASSUME NEW i \in 1..Len(ledger'.rebuilds)
        PROVE  LET c == ledger'.rebuilds[i] IN
               /\ c \in 1..ledger'.committed
               /\ ledger'.receipts[c] = "transient"
               /\ \A j \in 1..Len(ledger'.windows) :
                    c \notin ledger'.windows[j].first..ledger'.windows[j].last
    <3>1. CASE i \in 1..k
      BY <1>2, <2>2, <2>5, <3>1
    <3>2. CASE i = k + 1
      <4>1. call \in 1..ledger'.committed
        BY <2>2, <2>3, <2>4
      <4> QED
        BY <2>2, <2>3, <2>5, <2>6, <3>2, <4>1
    <3> QED
      BY <1>0, <2>5, <3>1, <3>2
  <2> QED
    BY <2>7 DEF RetiredCallsUnused
<1> QED
  BY <1>3, <1>4, <1>5, ListChanges

LEMMA HistoryInvariant ==
  Spec => [](CountInv /\ RetryLinks /\ WindowsSound /\ RetiredCallsUnused)
<1> DEFINE I == CountInv /\ RetryLinks /\ WindowsSound /\ RetiredCallsUnused
<1>1. Init => I
  <2>1. Init => Len(ledger.retries) = 0 /\ Len(ledger.windows) = 0
                /\ Len(ledger.rebuilds) = 0
    BY DEF Init, EmptyLedger
  <2> QED
    BY <2>1, CountInit DEF RetryLinks, WindowsSound, RetiredCallsUnused
<1>2. I /\ [Next]_vars => I'
  BY CountStep, RetryLinksStep, WindowsSoundStep, RetiredCallsStep
<1> HIDE DEF I
<1>3. Spec => []I
  BY <1>1, <1>2, PTL DEF Spec
<1> QED
  BY <1>3 DEF I

\* Completed windows own disjoint, ascending ranges of successful calls.
THEOREM WindowsAreSound == Spec => []WindowsSound
  BY HistoryInvariant, PTL

\* A call retired by a rebuild is never part of a completed window.
THEOREM RetiredAreUnused == Spec => []RetiredCallsUnused
  BY HistoryInvariant, PTL

\* Every support retry repeats the request of the failed call right before it.
THEOREM RetriesAreLinked == Spec => []RetryLinks
  BY HistoryInvariant, PTL

\* The events that are admitted form a sound history, for every budget.
THEOREM HistoryIsSound == Spec => []HistorySound
<1>1. WindowsSound /\ RetiredCallsUnused /\ RetryLinks => HistorySound
  BY DEF HistorySound
<1> QED
  BY <1>1, HistoryInvariant, PTL
============================================================================

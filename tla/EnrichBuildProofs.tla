--------------------------- MODULE EnrichBuildProofs ---------------------------
(***************************************************************************)
(* The navigation builder on its ledger file, for any number of processes, *)
(* windows, budgets, records, restarts, crashes and failed writes.         *)
(*                                                                         *)
(* The file governs: BuildInv says what is in it (FileOK), who may write   *)
(* to it (LockOK, CreatedOK), what the handle of a run has to do with it   *)
(* (HandleOK), and how far a run has come with the window it pays for      *)
(* (LoopOK, WindowOK, PublishOK).  Every append is an event that the       *)
(* ledger in the file accepts, so the file refines EnrichLedger, and what  *)
(* EnrichLedgerProofs proves of a ledger is known of the file.             *)
(***************************************************************************)
EXTENDS EnrichBuild, WellFoundedInduction, TLAPS

Hist == INSTANCE EnrichLedgerProofs WITH ledger <- durable, Units <- 1..UnitCount,
                                         Artifacts <- ArtifactSet

Event ==
    {Bound(gen) : gen \in Nat} \cup
    {CallReserved(kind, unit) : kind \in Kinds, unit \in 1..UnitCount} \cup
    {CallFinished(outcome) : outcome \in Outcomes} \cup
    {RetryReserved(call, unit) : call \in Nat, unit \in 1..UnitCount} \cup
    {WindowCompleted(unit, last) : unit \in 1..UnitCount, last \in Nat} \cup
    {Checkpoint, Failed} \cup {RebuildAdmitted(call) : call \in Nat} \cup
    {PublicationPrepared(artifact) : artifact \in ArtifactSet} \cup
    {Published(artifact) : artifact \in ArtifactSet}

Sending == {"builder_reserved", "builder_sent", "support", "jev_reserved", "jev_sent",
            "window"}
Working == {"loop", "publishing", "recording", "complete", "stopping", "incomplete"}
             \cup Sending
Ending  == {"failing", "failed"}
Holding == {"replaying", "abandoned"} \cup Working \cup Ending
Early   == {"idle", "planned", "created", "replaying"}
Labels  == Early \cup Holding

Run == [mode : {"none", "new", "resume", "rebuild"}, gen : Gens \cup {0}, reused : Nat,
        ordinal : Nat, rebuild : Nat, retry : Nat]
SentCall == [call : Nat, kind : Kinds, unit : Nat]

BuildTypeOK ==
    /\ exists \in BOOLEAN /\ torn \in BOOLEAN /\ log \in Seq(Event)
    /\ generation \in Gens /\ sent \in Seq(SentCall)
    /\ pc \in [Procs -> Labels] /\ run \in [Procs -> Run]
    /\ mem \in [Procs -> Hist!LedgerType] /\ poisoned \in [Procs -> BOOLEAN]

\* What is left to write when the publication is still to come, and before it.
Room(n) == Len(log) + n <= MaxRecords
Retries == SupportRetries - Len(durable.retries)

\* The ledger in the file.
FileOK ==
    /\ Hist!CountInv
    /\ log = <<>> => durable = EmptyLedger
    /\ log # <<>> => durable.bound
    /\ durable.prepared # NoArtifact =>
         ~durable.failed /\ Len(durable.windows) = UnitCount
    /\ Len(durable.windows) <= UnitCount
    /\ \A i \in 1..Len(durable.windows) : durable.windows[i].unit = i
    /\ ~Quiescent(durable) => Len(durable.windows) < UnitCount

\* It has room for what ends the build.
RoomOK ==
    /\ ~Quiescent(durable) /\ ~durable.failed => Room(1)
    /\ Len(durable.windows) = UnitCount /\ durable.prepared = NoArtifact
       /\ ~durable.failed => Room(2)
    /\ durable.prepared # NoArtifact /\ ~durable.published => Room(1)

\* What the program has said and published.
SaidOK ==
    /\ report = "incomplete" => lock = NoProc /\ ResumeSafe
    /\ PublishedWasPrepared

\* Only the holder of the lock writes; nobody has a file that was just created.
LockOK == \A p \in Procs : pc[p] \in Holding => lock = p
CreatedOK ==
    /\ ~exists => log = <<>> /\ ~torn /\ \A p \in Procs : pc[p] \in {"idle", "planned"}
    /\ \A p \in Procs : pc[p] = "created" =>
         /\ exists /\ log = <<>> /\ ~torn
         /\ \A q \in Procs \ {p} : pc[q] \in {"idle", "planned", "replaying"}

\* The handle of a run is what a replay of the file gives.
HandleOK(p) ==
    /\ pc[p] \in Early =>
         /\ mem[p] = EmptyLedger /\ ~poisoned[p]
         /\ run[p].ordinal = 0 /\ run[p].reused = 0
         /\ run[p].mode = "rebuild" <=> run[p].rebuild # 0
    /\ pc[p] = "created" => run[p].mode = "new"
    /\ run[p].retry # 0 => pc[p] \in {"support"} \cup Ending
    /\ pc[p] # "idle" => run[p].gen \in Gens
    /\ pc[p] \in Working => ~poisoned[p]
    /\ pc[p] \in Working \cup Ending /\ ~poisoned[p] =>
         mem[p] = durable /\ ~torn /\ durable.bound

\* Between windows: the windows of the file are reused one by one, and a rebuild is
\* pending or every call is committed.
LoopOK(p) ==
    pc[p] = "loop" =>
        /\ IF run[p].ordinal < run[p].reused
           THEN Len(durable.windows) = run[p].reused
           ELSE Len(durable.windows) = run[p].ordinal
        /\ IF run[p].rebuild = 0
           THEN Quiescent(durable) /\ ~durable.failed
           ELSE CanRebuild(durable, run[p].rebuild)

\* The calls of a window that is not complete: one builder call that succeeded, then
\* Jev calls, each but the last of which failed and was retried.
Paying(l, unit) ==
    LET first == l.committed + 1
        last  == Len(l.calls) IN
    /\ first <= last /\ last <= first + 1 + Len(l.retries)
    /\ \A c \in first..last :
         /\ l.calls[c].unit = unit
         /\ l.calls[c].kind = IF c = first THEN "builder" ELSE "jev"
    /\ \A c \in first..(last - 1) :
         IF c = first THEN l.receipts[c] = "ok"
         ELSE l.receipts[c] # "ok" /\ Retried(l, c)

JevLeft(l) == AttemptCount(l, "jev") < EffectiveCallLimit(l, "jev")
Pending(l) == Len(l.calls) = Len(l.receipts) + 1

WindowOK(p) ==
    LET first == durable.committed + 1
        last  == Len(durable.calls) IN
    /\ pc[p] \in Sending =>
         /\ Len(durable.windows) = run[p].ordinal /\ run[p].ordinal < UnitCount
         /\ run[p].reused <= run[p].ordinal /\ run[p].rebuild = 0
         /\ Live(durable) /\ durable.prepared = NoArtifact
         /\ Paying(durable, Unit(p))
    /\ pc[p] \in {"builder_reserved", "builder_sent"} =>
         Pending(durable) /\ last = first /\ JevLeft(durable) /\ Room(6 + 2 * Retries)
    /\ pc[p] \in {"jev_reserved", "jev_sent"} =>
         Pending(durable) /\ last > first /\ Room(4 + 2 * Retries)
    /\ pc[p] \in {"builder_reserved", "jev_reserved"} =>
         \A i \in 1..Len(sent) : sent[i].call < last
    /\ pc[p] = "support" => Settled(durable) /\
         IF run[p].retry = 0
         THEN /\ last = first /\ durable.receipts[last] = "ok"
              /\ JevLeft(durable) /\ Room(5 + 2 * Retries)
         ELSE run[p].retry = last /\ CanRetry(durable, last) /\ Room(3 + 2 * Retries)
    /\ pc[p] = "window" =>
         Settled(durable) /\ durable.receipts[last] = "ok" /\ Room(3)

\* After the windows.
PublishOK(p) ==
    /\ pc[p] = "stopping" =>
         Len(durable.windows) < UnitCount /\ durable.prepared = NoArtifact
    /\ pc[p] = "incomplete" => Quiescent(durable) /\ Live(durable)
    /\ pc[p] \in {"publishing", "recording"} => durable.prepared # NoArtifact
    /\ pc[p] = "recording" => ~durable.published

ProcOK(p) == HandleOK(p) /\ LoopOK(p) /\ WindowOK(p) /\ PublishOK(p)

BuildInv ==
    /\ BuildTypeOK /\ FileOK /\ RoomOK /\ SaidOK /\ LockOK /\ CreatedOK
    /\ ReservedAndSentOnce
    /\ \A p \in Procs : ProcOK(p)
---------------------------------------------------------------------------
(***************************************************************************)
(* The replay of a file of events, by induction on its length.             *)
(***************************************************************************)

\* The ledgers along the first n events of a file.
Along(f, s, n) ==
    f = [i \in 0..n |-> IF i = 0 THEN EmptyLedger ELSE Apply(f[i - 1], s[i])]

\* What holds of 0 and is handed on holds of every number.
LEMMA LeastOne ==
    ASSUME NEW bad \in SUBSET Nat, bad # {}
    PROVE  \E n \in bad : \A m \in bad : ~(m < n)
<1>1. \E n \in bad : \A m \in bad : ~(<<m, n>> \in OpToRel(<, Nat))
  BY NatLessThanWellFounded, WFMin
<1> QED BY <1>1 DEF OpToRel

\* A file of any length can be replayed.
LEMMA AlongExists ==
    ASSUME NEW s
    PROVE  \A n \in Nat : \E f : Along(f, s, n)
<1> DEFINE bad == {n \in Nat : ~\E f : Along(f, s, n)}
<1>1. ASSUME bad # {} PROVE FALSE
  <2>1. PICK n \in bad : \A m \in bad : ~(m < n)
    BY <1>1, LeastOne
  <2>2. CASE n = 0
    <3>1. Along([i \in 0..0 |-> EmptyLedger], s, 0)
      BY DEF Along
    <3> QED BY <2>1, <2>2, <3>1
  <2>3. CASE n # 0
    <3>1. n - 1 \in Nat /\ n - 1 \notin bad
      BY <2>1, <2>3
    <3>2. PICK f : Along(f, s, n - 1)
      BY <3>1
    <3> DEFINE g == [i \in 0..n |-> IF i = n THEN Apply(f[n - 1], s[n]) ELSE f[i]]
    <3>3. \A i \in 0..(n - 1) :
            f[i] = IF i = 0 THEN EmptyLedger ELSE Apply(f[i - 1], s[i])
      BY <3>2 DEF Along
    <3>4. \A i \in 0..n : g[i] = IF i = 0 THEN EmptyLedger ELSE Apply(g[i - 1], s[i])
      <4> SUFFICES ASSUME NEW i \in 0..n
                   PROVE  g[i] = IF i = 0 THEN EmptyLedger ELSE Apply(g[i - 1], s[i])
        OBVIOUS
      <4>1. CASE i = n
        <5>1. g[i] = Apply(f[n - 1], s[n])
          BY <4>1
        <5>2. g[i - 1] = f[n - 1]
          BY <2>3, <3>1, <4>1
        <5> QED BY <2>3, <4>1, <5>1, <5>2
      <4>2. CASE i # n
        <5>1. g[i] = f[i] /\ i \in 0..(n - 1)
          BY <3>1, <4>2
        <5>2. i # 0 => g[i - 1] = f[i - 1]
          BY <3>1, <4>2
        <5> QED BY <3>3, <5>1, <5>2
      <4> QED BY <4>1, <4>2
    <3>5. Along(g, s, n)
      <4>1. g = [i \in 0..n |-> g[i]]
        OBVIOUS
      <4> HIDE DEF g
      <4> QED BY <3>4, <4>1 DEF Along
    <3> QED BY <2>1, <3>5
  <2> QED BY <2>2, <2>3
<1> QED BY <1>1

\* Two files that begin alike give the same ledger there.
LEMMA AlongAgree ==
    ASSUME NEW s, NEW t, NEW f, NEW g, NEW n \in Nat, NEW k \in Nat, n <= k,
           Along(f, s, n), Along(g, t, k), \A i \in 1..n : s[i] = t[i]
    PROVE  f[n] = g[n]
<1>1. /\ \A i \in 0..n : f[i] = IF i = 0 THEN EmptyLedger ELSE Apply(f[i - 1], s[i])
      /\ \A i \in 0..k : g[i] = IF i = 0 THEN EmptyLedger ELSE Apply(g[i - 1], t[i])
  BY DEF Along
<1> DEFINE bad == {i \in 0..n : f[i] # g[i]}
<1>2. ASSUME bad # {} PROVE FALSE
  <2>1. bad \in SUBSET Nat
    OBVIOUS
  <2> HIDE DEF bad
  <2>2. PICK i \in bad : \A m \in bad : ~(m < i)
    BY <1>2, <2>1, LeastOne
  <2>3. i \in 0..n /\ f[i] # g[i]
    BY <2>2 DEF bad
  <2>4. CASE i = 0
    BY <1>1, <2>3, <2>4
  <2>5. CASE i # 0
    <3>1. i - 1 \in 0..n /\ i - 1 \notin bad
      BY <2>2, <2>3, <2>5
    <3>2. f[i - 1] = g[i - 1]
      BY <3>1 DEF bad
    <3>3. i \in 1..n /\ i \in 0..k /\ s[i] = t[i]
      BY <2>3, <2>5
    <3> QED BY <1>1, <2>3, <2>5, <3>2, <3>3
  <2> QED BY <2>4, <2>5
<1> QED BY <1>2

\* The ledger of a file is the last one along its events.
LEMMA ReplayAlong ==
    ASSUME NEW S, NEW s \in Seq(S)
    PROVE  \E f : Along(f, s, Len(s)) /\ Replay(s) = f[Len(s)]
<1> DEFINE after == CHOOSE f : f = [i \in 0..Len(s) |->
                      IF i = 0 THEN EmptyLedger ELSE Apply(f[i - 1], s[i])]
<1>1. Replay(s) = after[Len(s)]
  BY DEF Replay
<1>2. \E f : Along(f, s, Len(s))
  BY AlongExists
<1>3. Along(after, s, Len(s))
  BY <1>2 DEF Along
<1> QED BY <1>1, <1>3

\* An empty file gives an empty ledger.
LEMMA ReplayEmpty == Replay(<<>>) = EmptyLedger
<1>1. PICK f : Along(f, <<>>, Len(<<>>)) /\ Replay(<<>>) = f[Len(<<>>)]
  <2>1. <<>> \in Seq(Nat)
    OBVIOUS
  <2> QED BY <2>1, ReplayAlong
<1> QED BY <1>1 DEF Along

\* A further event is applied to what the file gave before.
LEMMA ReplayAppend ==
    ASSUME NEW S, NEW s \in Seq(S), NEW e \in S
    PROVE  Replay(Append(s, e)) = Apply(Replay(s), e)
<1> DEFINE n == Len(s)
           t == Append(s, e)
<1>1. /\ t \in Seq(S) /\ Len(t) = n + 1 /\ t[n + 1] = e /\ n \in Nat
      /\ \A i \in 1..n : s[i] = t[i]
  OBVIOUS
<1>2. PICK f : Along(f, s, n) /\ Replay(s) = f[n]
  BY ReplayAlong
<1> HIDE DEF t
<1>3. PICK g : Along(g, t, n + 1) /\ Replay(t) = g[n + 1]
  BY <1>1, ReplayAlong
<1>4. ASSUME NEW k \in Nat, NEW m \in Nat, k = n, m = n + 1
      PROVE  Replay(t) = Apply(Replay(s), e)
  <2>1. Along(f, s, k) /\ Along(g, t, m) /\ k <= m
    BY <1>1, <1>2, <1>3, <1>4
  <2>2. \A i \in 1..k : s[i] = t[i]
    BY <1>1, <1>4
  <2>3. f[k] = g[k]
    BY <2>1, <2>2, AlongAgree
  <2>4. g[m] = Apply(g[k], t[m])
    <3>1. \A i \in 0..m :
            g[i] = IF i = 0 THEN EmptyLedger ELSE Apply(g[i - 1], t[i])
      BY <2>1 DEF Along
    <3>2. m \in 0..m /\ m # 0 /\ m - 1 = k
      BY <1>1, <1>4
    <3> QED BY <3>1, <3>2
  <2> QED BY <1>1, <1>2, <1>3, <1>4, <2>3, <2>4
<1> QED BY <1>1, <1>4 DEF t
---------------------------------------------------------------------------
(***************************************************************************)
(* What an event does to the fields of a ledger.                           *)
(***************************************************************************)

SameCalls(m, l) == /\ m.calls = l.calls /\ m.receipts = l.receipts
                   /\ m.builderCalls = l.builderCalls /\ m.jevCalls = l.jevCalls
SameWindows(m, l)    == m.windows = l.windows /\ m.committed = l.committed
SameAdmissions(m, l) == m.rebuilds = l.rebuilds /\ m.retries = l.retries
SameFlags(m, l)      == m.bound = l.bound /\ m.failed = l.failed
SameOverlay(m, l)    == m.prepared = l.prepared /\ m.published = l.published

\* The types of the fields, as a fact of its own.
LEMMA LedgerFields ==
    ASSUME NEW l \in Hist!LedgerType
    PROVE  /\ l.bound \in BOOLEAN /\ l.failed \in BOOLEAN /\ l.published \in BOOLEAN
           /\ l.calls \in Seq(Hist!Call) /\ l.receipts \in Seq(Outcomes)
           /\ l.windows \in Seq(Hist!Window) /\ l.committed \in Nat
           /\ l.builderCalls \in Nat /\ l.jevCalls \in Nat
           /\ l.rebuilds \in Seq(Nat) /\ l.retries \in Seq(Nat)
           /\ l.prepared \in ArtifactSet \cup {NoArtifact}
  BY DEF Hist!LedgerType, Hist!NoArtifact, NoArtifact, Hist!Outcomes, Outcomes

\* The lengths of its lists.
LEMMA LedgerLengths ==
    ASSUME NEW l \in Hist!LedgerType
    PROVE  /\ Len(l.calls) \in Nat /\ Len(l.receipts) \in Nat /\ Len(l.windows) \in Nat
           /\ Len(l.rebuilds) \in Nat /\ Len(l.retries) \in Nat
  BY LedgerFields

\* The first record.
LEMMA BoundFields ==
    ASSUME NEW l \in Hist!LedgerType, NEW gen
    PROVE  LET m == Apply(l, Bound(gen)) IN
           /\ m.bound /\ m.failed = l.failed
           /\ SameCalls(m, l) /\ SameWindows(m, l) /\ SameAdmissions(m, l)
           /\ SameOverlay(m, l)
<1>1. Apply(l, Bound(gen)) = [l EXCEPT !.bound = TRUE]
  BY DEF Apply, Bound
<1> QED BY <1>1 DEF Hist!LedgerType, SameCalls, SameWindows, SameAdmissions, SameOverlay

\* A reservation adds one call and counts it.
LEMMA ReservedFields ==
    ASSUME NEW l \in Hist!LedgerType, NEW kind \in Kinds, NEW unit
    PROVE  LET m == Apply(l, CallReserved(kind, unit)) IN
           /\ m.calls = Append(l.calls, [kind |-> kind, unit |-> unit])
           /\ m.receipts = l.receipts
           /\ kind = "builder" =>
                m.builderCalls = l.builderCalls + 1 /\ m.jevCalls = l.jevCalls
           /\ kind = "jev" =>
                m.builderCalls = l.builderCalls /\ m.jevCalls = l.jevCalls + 1
           /\ SameWindows(m, l) /\ SameAdmissions(m, l) /\ SameFlags(m, l)
           /\ SameOverlay(m, l)
<1>1. Apply(l, CallReserved(kind, unit)) = Reserve(l, kind, unit)
  BY DEF Apply, CallReserved
<1> QED BY <1>1 DEF Reserve, Kinds, Hist!LedgerType, SameWindows, SameAdmissions,
                    SameFlags, SameOverlay

\* A receipt is added and nothing else.
LEMMA FinishedFields ==
    ASSUME NEW l \in Hist!LedgerType, NEW outcome
    PROVE  LET m == Apply(l, CallFinished(outcome)) IN
           /\ m.receipts = Append(l.receipts, outcome)
           /\ m.calls = l.calls
           /\ m.builderCalls = l.builderCalls /\ m.jevCalls = l.jevCalls
           /\ SameWindows(m, l) /\ SameAdmissions(m, l) /\ SameFlags(m, l)
           /\ SameOverlay(m, l)
<1>1. Apply(l, CallFinished(outcome)) = [l EXCEPT !.receipts = Append(@, outcome)]
  BY DEF Apply, CallFinished, Finish
<1> QED BY <1>1 DEF Hist!LedgerType, SameWindows, SameAdmissions, SameFlags, SameOverlay

\* A support retry is admitted and its Jev call reserved.
LEMMA RetriedFields ==
    ASSUME NEW l \in Hist!LedgerType, NEW call, NEW unit
    PROVE  LET m == Apply(l, RetryReserved(call, unit)) IN
           /\ m.calls = Append(l.calls, [kind |-> "jev", unit |-> unit])
           /\ m.receipts = l.receipts
           /\ m.builderCalls = l.builderCalls /\ m.jevCalls = l.jevCalls + 1
           /\ m.retries = Append(l.retries, call) /\ m.rebuilds = l.rebuilds
           /\ SameWindows(m, l) /\ SameFlags(m, l) /\ SameOverlay(m, l)
<1>1. Apply(l, RetryReserved(call, unit)) = Reserve(AdmitRetry(l, call), "jev", unit)
  BY DEF Apply, RetryReserved
<1> QED BY <1>1 DEF Reserve, AdmitRetry, Hist!LedgerType, SameWindows, SameFlags,
                    SameOverlay

\* A completed window takes the calls that no window has yet.
LEMMA CompletedFields ==
    ASSUME NEW l \in Hist!LedgerType, NEW unit, NEW last
    PROVE  LET m == Apply(l, WindowCompleted(unit, last)) IN
           /\ m.windows = Append(l.windows, [unit |-> unit, first |-> l.committed + 1,
                                             last |-> last])
           /\ m.committed = last
           /\ SameCalls(m, l) /\ SameAdmissions(m, l) /\ SameFlags(m, l)
           /\ SameOverlay(m, l)
<1>1. Apply(l, WindowCompleted(unit, last)) = CompleteWindow(l, unit, last)
  BY DEF Apply, WindowCompleted
<1> QED BY <1>1 DEF CompleteWindow, Hist!LedgerType, SameCalls, SameAdmissions,
                    SameFlags, SameOverlay

\* A checkpoint changes nothing.
LEMMA CheckpointFields ==
    ASSUME NEW l
    PROVE  Apply(l, Checkpoint) = l
  BY DEF Apply, Checkpoint

\* A failure closes the ledger.
LEMMA FailedFields ==
    ASSUME NEW l \in Hist!LedgerType
    PROVE  LET m == Apply(l, Failed) IN
           /\ m.failed /\ m.bound = l.bound
           /\ SameCalls(m, l) /\ SameWindows(m, l) /\ SameAdmissions(m, l)
           /\ SameOverlay(m, l)
<1>1. Apply(l, Failed) = [l EXCEPT !.failed = TRUE]
  BY DEF Apply, Failed
<1> QED BY <1>1 DEF Hist!LedgerType, SameCalls, SameWindows, SameAdmissions, SameOverlay

\* A rebuild retires the calls that no window has yet and opens the ledger again.
LEMMA RebuiltFields ==
    ASSUME NEW l \in Hist!LedgerType, NEW call
    PROVE  LET m == Apply(l, RebuildAdmitted(call)) IN
           /\ m.committed = Len(l.calls) /\ m.failed = FALSE /\ m.bound = l.bound
           /\ m.rebuilds = Append(l.rebuilds, call) /\ m.retries = l.retries
           /\ m.windows = l.windows
           /\ SameCalls(m, l) /\ SameOverlay(m, l)
<1>1. Apply(l, RebuildAdmitted(call)) = Rebuild(l, call)
  BY DEF Apply, RebuildAdmitted
<1> QED BY <1>1 DEF Rebuild, Hist!LedgerType, SameCalls, SameOverlay

\* The artifact of the publication.
LEMMA PreparedFields ==
    ASSUME NEW l \in Hist!LedgerType, NEW artifact
    PROVE  LET m == Apply(l, PublicationPrepared(artifact)) IN
           /\ m.prepared = artifact /\ m.published = l.published
           /\ SameCalls(m, l) /\ SameWindows(m, l) /\ SameAdmissions(m, l)
           /\ SameFlags(m, l)
<1>1. Apply(l, PublicationPrepared(artifact)) = [l EXCEPT !.prepared = artifact]
  BY DEF Apply, PublicationPrepared
<1> QED BY <1>1 DEF Hist!LedgerType, SameCalls, SameWindows, SameAdmissions, SameFlags

\* The publication itself.
LEMMA PublishedFields ==
    ASSUME NEW l \in Hist!LedgerType, NEW artifact
    PROVE  LET m == Apply(l, Published(artifact)) IN
           /\ m.published /\ m.prepared = l.prepared
           /\ SameCalls(m, l) /\ SameWindows(m, l) /\ SameAdmissions(m, l)
           /\ SameFlags(m, l)
<1>1. Apply(l, Published(artifact)) = [l EXCEPT !.published = TRUE]
  BY DEF Apply, Published
<1> QED BY <1>1 DEF Hist!LedgerType, SameCalls, SameWindows, SameAdmissions, SameFlags
---------------------------------------------------------------------------
(***************************************************************************)
(* An accepted event is a step of the abstract ledger.                     *)
(***************************************************************************)

\* One more line of the file, accepted where it stands.
Logged(e, gen) ==
    log' = Append(log, e) /\ durable' = Apply(durable, e) /\ Accepts(durable, e, gen)

\* A step of the abstract ledger, which is the one that EnrichLedgerProofs is about, or
\* none.
Follows == durable' = durable \/ (Abs!Next /\ Hist!Next)

\* No artifact is no artifact of a ledger.
LEMMA NoneIsNoArtifact == NoArtifact \notin ArtifactSet /\ Hist!NoArtifact \notin ArtifactSet
  BY DEF NoArtifact, Hist!NoArtifact, ArtifactSet

\* The condition under which each event is accepted.
LEMMA AcceptsEach ==
    ASSUME NEW l, NEW gen
    PROVE  /\ \A g : Accepts(l, Bound(g), gen) <=> ~l.bound /\ g = gen
           /\ \A kind, unit : Accepts(l, CallReserved(kind, unit), gen)
                                <=> CanReserve(l, kind)
           /\ \A outcome : Accepts(l, CallFinished(outcome), gen) <=> CanFinish(l)
           /\ \A call, unit : Accepts(l, RetryReserved(call, unit), gen)
                <=> /\ Live(l) /\ CanRetry(l, call) /\ unit = l.calls[call].unit
                    /\ CanReserve(AdmitRetry(l, call), "jev")
           /\ \A unit, last : Accepts(l, WindowCompleted(unit, last), gen)
                                <=> CanCompleteWindow(l, unit, last)
           /\ Accepts(l, Checkpoint, gen) <=> CanCheckpoint(l)
           /\ Accepts(l, Failed, gen) <=> Live(l)
           /\ \A call : Accepts(l, RebuildAdmitted(call), gen) <=> CanRebuild(l, call)
           /\ \A artifact : Accepts(l, PublicationPrepared(artifact), gen)
                              <=> CanPrepare(l)
           /\ \A artifact : Accepts(l, Published(artifact), gen)
                              <=> CanPublish(l, artifact)
<1>1. \A g : Accepts(l, Bound(g), gen) <=> ~l.bound /\ g = gen
  BY DEF Accepts, Bound
<1>2. \A kind, unit : Accepts(l, CallReserved(kind, unit), gen) <=> CanReserve(l, kind)
  BY DEF Accepts, CallReserved
<1>3. \A outcome : Accepts(l, CallFinished(outcome), gen) <=> CanFinish(l)
  BY DEF Accepts, CallFinished
<1>4. \A call, unit : Accepts(l, RetryReserved(call, unit), gen)
        <=> /\ Live(l) /\ CanRetry(l, call) /\ unit = l.calls[call].unit
            /\ CanReserve(AdmitRetry(l, call), "jev")
  BY DEF Accepts, RetryReserved
<1>5. \A unit, last : Accepts(l, WindowCompleted(unit, last), gen)
                        <=> CanCompleteWindow(l, unit, last)
  BY DEF Accepts, WindowCompleted
<1>6. /\ Accepts(l, Checkpoint, gen) <=> CanCheckpoint(l)
      /\ Accepts(l, Failed, gen) <=> Live(l)
  BY DEF Accepts, Checkpoint, Failed
<1>7. \A call : Accepts(l, RebuildAdmitted(call), gen) <=> CanRebuild(l, call)
  BY DEF Accepts, RebuildAdmitted
<1>8. \A artifact : Accepts(l, PublicationPrepared(artifact), gen) <=> CanPrepare(l)
  BY DEF Accepts, PublicationPrepared
<1>9. \A artifact : Accepts(l, Published(artifact), gen) <=> CanPublish(l, artifact)
  BY DEF Accepts, Published
<1> QED BY <1>1, <1>2, <1>3, <1>4, <1>5, <1>6, <1>7, <1>8, <1>9

\* Every event keeps a ledger of the right type.
LEMMA ApplyType ==
    ASSUME NEW l \in Hist!LedgerType, NEW e \in Event
    PROVE  Apply(l, e) \in Hist!LedgerType
<1>1. CASE \E gen \in Nat : e = Bound(gen)
  <2>1. Apply(l, e) = [l EXCEPT !.bound = TRUE]
    BY <1>1 DEF Apply, Bound
  <2> QED BY <2>1 DEF Hist!LedgerType
<1>2. ASSUME NEW kind \in Kinds, NEW unit \in 1..UnitCount, e = CallReserved(kind, unit)
      PROVE  Apply(l, e) \in Hist!LedgerType
  <2>1. Apply(l, e) = Hist!Reserve(l, kind, unit)
    BY <1>2 DEF Apply, CallReserved, Reserve, Hist!Reserve
  <2>2. kind \in Hist!Kinds
    BY DEF Hist!Kinds, Kinds
  <2> QED BY <2>1, <2>2, Hist!ReserveType, NoneIsNoArtifact, BudgetAssumption
<1>3. ASSUME NEW outcome \in Outcomes, e = CallFinished(outcome)
      PROVE  Apply(l, e) \in Hist!LedgerType
  <2>1. Apply(l, e) = Hist!Finish(l, outcome)
    BY <1>3 DEF Apply, CallFinished, Finish, Hist!Finish
  <2>2. outcome \in Hist!Outcomes
    BY DEF Hist!Outcomes, Outcomes
  <2> QED BY <2>1, <2>2, Hist!FinishType, NoneIsNoArtifact, BudgetAssumption
<1>4. ASSUME NEW call \in Nat, NEW unit \in 1..UnitCount, e = RetryReserved(call, unit)
      PROVE  Apply(l, e) \in Hist!LedgerType
  <2>1. Apply(l, e) = Hist!Reserve(Hist!AdmitRetry(l, call), "jev", unit)
    BY <1>4 DEF Apply, RetryReserved, Reserve, Hist!Reserve, AdmitRetry, Hist!AdmitRetry
  <2>2. Hist!AdmitRetry(l, call) \in Hist!LedgerType
    BY Hist!AdmitRetryType, NoneIsNoArtifact, BudgetAssumption
  <2>3. "jev" \in Hist!Kinds
    BY DEF Hist!Kinds
  <2> QED BY <2>1, <2>2, <2>3, Hist!ReserveType, NoneIsNoArtifact, BudgetAssumption
<1>5. ASSUME NEW unit \in 1..UnitCount, NEW last \in Nat, e = WindowCompleted(unit, last)
      PROVE  Apply(l, e) \in Hist!LedgerType
  <2>1. Apply(l, e) = Hist!CompleteWindow(l, unit, last)
    BY <1>5 DEF Apply, WindowCompleted, CompleteWindow, Hist!CompleteWindow
  <2> QED BY <2>1, Hist!CompleteWindowType, NoneIsNoArtifact, BudgetAssumption
<1>6. CASE e = Checkpoint
  BY <1>6, CheckpointFields
<1>7. CASE e = Failed
  <2>1. Apply(l, e) = [l EXCEPT !.failed = TRUE]
    BY <1>7 DEF Apply, Failed
  <2> QED BY <2>1 DEF Hist!LedgerType
<1>8. ASSUME NEW call \in Nat, e = RebuildAdmitted(call)
      PROVE  Apply(l, e) \in Hist!LedgerType
  <2>1. Apply(l, e) = Hist!Rebuild(l, call)
    BY <1>8 DEF Apply, RebuildAdmitted, Rebuild, Hist!Rebuild
  <2> QED BY <2>1, Hist!RebuildType, NoneIsNoArtifact, BudgetAssumption
<1>9. ASSUME NEW artifact \in ArtifactSet, e = PublicationPrepared(artifact)
      PROVE  Apply(l, e) \in Hist!LedgerType
  <2>1. Apply(l, e) = [l EXCEPT !.prepared = artifact]
    BY <1>9 DEF Apply, PublicationPrepared
  <2> QED BY <2>1 DEF Hist!LedgerType
<1>10. CASE \E artifact \in ArtifactSet : e = Published(artifact)
  <2>1. Apply(l, e) = [l EXCEPT !.published = TRUE]
    BY <1>10 DEF Apply, Published
  <2> QED BY <2>1 DEF Hist!LedgerType
<1> QED BY <1>1, <1>2, <1>3, <1>4, <1>5, <1>6, <1>7, <1>8, <1>9, <1>10 DEF Event

\* What the count invariant says of the ledger in the file.
LEMMA FileFacts ==
    ASSUME Hist!CountInv
    PROVE  /\ durable \in Hist!LedgerType
           /\ durable.committed <= Len(durable.receipts)
           /\ Len(durable.receipts) <= Len(durable.calls)
           /\ Len(durable.calls) <= Len(durable.receipts) + 1
           /\ Len(durable.calls) = durable.builderCalls + durable.jevCalls
           /\ durable.jevCalls <= MaxJev + Len(durable.rebuilds) + Len(durable.retries)
           /\ Len(durable.rebuilds) <= MaxRebuilds
           /\ Len(durable.retries) <= SupportRetries
           /\ durable.prepared # NoArtifact => Quiescent(durable) /\ Settled(durable)
           /\ durable.published => durable.prepared # NoArtifact
  BY DEF Hist!CountInv, Hist!TypeOK, Hist!OnePendingCall, Hist!CallLimits,
         Hist!PreparedQuiescent, Hist!NoArtifact, NoArtifact, Hist!Quiescent, Quiescent,
         Hist!Settled, Settled, Hist!MaxRebuilds, MaxRebuilds

\* A retry that the failed call allows is never refused for want of budget.
LEMMA RetryAdmitted ==
    ASSUME Hist!CountInv, NEW call, CanRetry(durable, call), Live(durable),
           durable.prepared = NoArtifact
    PROVE  CanReserve(AdmitRetry(durable, call), "jev")
<1> DEFINE m == AdmitRetry(durable, call)
<1>1. durable \in Hist!LedgerType /\ call \in Nat
  BY FileFacts, LedgerLengths DEF CanRetry
<1>2. /\ m.retries = Append(durable.retries, call)
      /\ m.calls = durable.calls /\ m.receipts = durable.receipts
      /\ m.bound = durable.bound /\ m.failed = durable.failed
      /\ m.rebuilds = durable.rebuilds /\ m.jevCalls = durable.jevCalls
      /\ m.prepared = durable.prepared /\ m.published = durable.published
  BY <1>1 DEF AdmitRetry, Hist!LedgerType
<1> HIDE DEF m
<1>3. Len(m.retries) = Len(durable.retries) + 1
  BY <1>1, <1>2, LedgerFields
<1>4. durable.jevCalls < MaxJev + Len(durable.rebuilds) + (Len(durable.retries) + 1)
  <2>1. /\ MaxJev \in Nat /\ Len(durable.rebuilds) \in Nat /\ Len(durable.retries) \in Nat
        /\ durable.jevCalls \in Nat
    BY <1>1, LedgerFields, LedgerLengths, BudgetAssumption
  <2>2. durable.jevCalls <= MaxJev + Len(durable.rebuilds) + Len(durable.retries)
    BY FileFacts
  <2> QED BY <2>1, <2>2, Hist!LimitExtended, NoneIsNoArtifact, BudgetAssumption
<1>5. AttemptCount(m, "jev") < EffectiveCallLimit(m, "jev")
  BY <1>2, <1>3, <1>4 DEF AttemptCount, EffectiveCallLimit
<1>6. Live(m) /\ Settled(m) /\ m.prepared = NoArtifact
  BY <1>2 DEF Live, Settled, CanRetry
<1> QED BY <1>5, <1>6 DEF CanReserve, m

\* An accepted event is a step of the abstract ledger or, for a checkpoint, none.
LEMMA EventFollows ==
    ASSUME Hist!CountInv, NEW e \in Event, NEW gen, Logged(e, gen)
    PROVE  Follows
<1> USE DEF Logged
<1>0. durable \in Hist!LedgerType
  BY FileFacts
<1>1. ASSUME NEW g \in Nat, e = Bound(g)
      PROVE  Abs!Next /\ Hist!Next
  <2>1. ~durable.bound /\ durable' = [durable EXCEPT !.bound = TRUE]
    BY <1>1, AcceptsEach DEF Apply, Bound
  <2> QED BY <2>1 DEF Abs!Next, Abs!Bind, Hist!Next, Hist!Bind
<1>2. ASSUME NEW kind \in Kinds, NEW unit \in 1..UnitCount, e = CallReserved(kind, unit)
      PROVE  Abs!Next /\ Hist!Next
  <2>1. CanReserve(durable, kind) /\ durable' = Reserve(durable, kind, unit)
    BY <1>2, AcceptsEach DEF Apply, CallReserved
  <2>2. Abs!ReserveCall(kind, unit)
    BY <2>1 DEF Abs!ReserveCall, Abs!CanReserve, CanReserve, Abs!Reserve, Reserve, Live,
      Abs!Live, Settled, Abs!Settled, AttemptCount, Abs!AttemptCount,
      EffectiveCallLimit, Abs!EffectiveCallLimit, NoArtifact, Abs!NoArtifact
  <2>3. Hist!ReserveCall(kind, unit)
    BY <2>1 DEF Hist!ReserveCall, Hist!CanReserve, CanReserve, Hist!Reserve, Reserve, Live,
      Hist!Live, Settled, Hist!Settled, AttemptCount, Hist!AttemptCount,
      EffectiveCallLimit, Hist!EffectiveCallLimit, NoArtifact, Hist!NoArtifact
  <2> QED BY <2>2, <2>3 DEF Abs!Next, Hist!Next, Abs!Kinds, Hist!Kinds, Kinds
<1>3. ASSUME NEW outcome \in Outcomes, e = CallFinished(outcome)
      PROVE  Abs!Next /\ Hist!Next
  <2>1. CanFinish(durable) /\ durable' = Finish(durable, outcome)
    BY <1>3, AcceptsEach DEF Apply, CallFinished
  <2>2. Abs!FinishCall(outcome) /\ Hist!FinishCall(outcome)
    BY <2>1 DEF Abs!FinishCall, Hist!FinishCall, CanFinish, Abs!CanFinish, Hist!CanFinish,
      Finish, Abs!Finish, Hist!Finish, Live, Abs!Live, Hist!Live
  <2> QED BY <2>2 DEF Abs!Next, Hist!Next, Abs!Outcomes, Hist!Outcomes, Outcomes
<1>4. ASSUME NEW call \in Nat, NEW unit \in 1..UnitCount, e = RetryReserved(call, unit)
      PROVE  Abs!Next /\ Hist!Next
  <2>1. /\ Live(durable) /\ CanRetry(durable, call)
        /\ unit = durable.calls[call].unit
        /\ CanReserve(AdmitRetry(durable, call), "jev")
        /\ durable' = Reserve(AdmitRetry(durable, call), "jev", unit)
    <3>1. durable' = Reserve(AdmitRetry(durable, call), "jev", unit)
      BY <1>4 DEF Apply, RetryReserved
    <3>2. Accepts(durable, RetryReserved(call, unit), gen)
      BY <1>4
    <3>3. Accepts(durable, RetryReserved(call, unit), gen)
            <=> /\ Live(durable) /\ CanRetry(durable, call)
                /\ unit = durable.calls[call].unit
                /\ CanReserve(AdmitRetry(durable, call), "jev")
      BY DEF Accepts, RetryReserved
    <3> QED BY <3>1, <3>2, <3>3
  <2>2. call = Len(durable.calls)
    BY <2>1 DEF CanRetry
  <2>3. Abs!ReserveRetry
    BY <2>1, <2>2 DEF Abs!ReserveRetry, Abs!CanReserve, CanReserve, Abs!Reserve, Reserve,
      Live, Abs!Live, Settled, Abs!Settled, AttemptCount, Abs!AttemptCount, Abs!CanRetry,
      CanRetry, Abs!AdmitRetry, AdmitRetry, EffectiveCallLimit, Abs!EffectiveCallLimit,
      NoArtifact, Abs!NoArtifact
  <2>4. Hist!ReserveRetry
    BY <2>1, <2>2 DEF Hist!ReserveRetry, Hist!CanReserve, CanReserve, Hist!Reserve, Reserve,
      Live, Hist!Live, Settled, Hist!Settled, AttemptCount, Hist!AttemptCount,
      Hist!CanRetry, CanRetry, Hist!AdmitRetry, AdmitRetry, EffectiveCallLimit,
      Hist!EffectiveCallLimit, NoArtifact, Hist!NoArtifact
  <2> QED BY <2>3, <2>4 DEF Abs!Next, Hist!Next
<1>5. ASSUME NEW unit \in 1..UnitCount, NEW last \in Nat, e = WindowCompleted(unit, last)
      PROVE  Abs!Next /\ Hist!Next
  <2>1. /\ CanCompleteWindow(durable, unit, last)
        /\ durable' = CompleteWindow(durable, unit, last)
    BY <1>5, AcceptsEach DEF Apply, WindowCompleted
  <2>2. last = Len(durable.calls)
    BY <2>1 DEF CanCompleteWindow
  <2>3. Abs!Complete(unit)
    BY <2>1, <2>2 DEF Abs!Complete, CanCompleteWindow, Abs!CanCompleteWindow, Live, Abs!Live,
      Settled, Abs!Settled, CompleteWindow, Abs!CompleteWindow, Retried, Abs!Retried
  <2>4. Hist!Complete(unit)
    BY <2>1, <2>2 DEF Hist!Complete, CanCompleteWindow, Hist!CanCompleteWindow, Live,
      Hist!Live, Settled, Hist!Settled, CompleteWindow, Hist!CompleteWindow, Retried,
      Hist!Retried
  <2> QED BY <2>3, <2>4 DEF Abs!Next, Hist!Next
<1>6. CASE e = Checkpoint
  BY <1>6, CheckpointFields DEF Follows
<1>7. ASSUME e = Failed
      PROVE  Abs!Next /\ Hist!Next
  <2>1. Live(durable) /\ durable' = [durable EXCEPT !.failed = TRUE]
    BY <1>7, AcceptsEach DEF Apply, Failed
  <2> QED BY <2>1 DEF Abs!Next, Hist!Next, Abs!Fail, Hist!Fail, Live, Abs!Live, Hist!Live
<1>8. ASSUME NEW call \in Nat, e = RebuildAdmitted(call)
      PROVE  Abs!Next /\ Hist!Next
  <2>1. CanRebuild(durable, call) /\ durable' = Rebuild(durable, call)
    BY <1>8, AcceptsEach DEF Apply, RebuildAdmitted
  <2>2. call = Len(durable.calls)
    BY <2>1 DEF CanRebuild
  <2>3. Abs!AdmitRebuild
    BY <2>1, <2>2 DEF Abs!AdmitRebuild, CanRebuild, Abs!CanRebuild, Rebuild, Abs!Rebuild,
      Settled, Abs!Settled, Retried, Abs!Retried, NoArtifact, Abs!NoArtifact,
      MaxRebuilds, Abs!MaxRebuilds
  <2>4. Hist!AdmitRebuild
    BY <2>1, <2>2 DEF Hist!AdmitRebuild, CanRebuild, Hist!CanRebuild, Rebuild, Hist!Rebuild,
      Settled, Hist!Settled, Retried, Hist!Retried, NoArtifact, Hist!NoArtifact,
      MaxRebuilds, Hist!MaxRebuilds
  <2> QED BY <2>3, <2>4 DEF Abs!Next, Hist!Next
<1>9. ASSUME NEW artifact \in ArtifactSet, e = PublicationPrepared(artifact)
      PROVE  Abs!Next /\ Hist!Next
  <2>1. CanPrepare(durable) /\ durable' = [durable EXCEPT !.prepared = artifact]
    BY <1>9, AcceptsEach DEF Apply, PublicationPrepared
  <2>2. Abs!Prepare(artifact) /\ Hist!Prepare(artifact)
    BY <2>1 DEF Abs!Prepare, Hist!Prepare, CanPrepare, Abs!CanPrepare, Hist!CanPrepare,
      Live, Abs!Live, Hist!Live, Quiescent, Abs!Quiescent, Hist!Quiescent, NoArtifact,
      Abs!NoArtifact, Hist!NoArtifact
  <2> QED BY <2>2 DEF Abs!Next, Hist!Next
<1>10. ASSUME NEW artifact \in ArtifactSet, e = Published(artifact)
       PROVE  Abs!Next /\ Hist!Next
  <2>1. CanPublish(durable, artifact) /\ durable' = [durable EXCEPT !.published = TRUE]
    BY <1>10, AcceptsEach DEF Apply, Published
  <2>2. Abs!Publish /\ Hist!Publish
    BY <2>1 DEF Abs!Publish, Hist!Publish, CanPublish, Abs!CanPublish, Hist!CanPublish,
      Live, Abs!Live, Hist!Live, NoArtifact, Abs!NoArtifact, Hist!NoArtifact
  <2> QED BY <2>2 DEF Abs!Next, Hist!Next
<1> QED BY <1>1, <1>2, <1>3, <1>4, <1>5, <1>6, <1>7, <1>8, <1>9, <1>10 DEF Event, Follows

\* So the counts of the file keep to the budgets.
LEMMA EventCounts ==
    ASSUME Hist!CountInv, NEW e \in Event, NEW gen, Logged(e, gen)
    PROVE  Hist!CountInv'
<1>1. [Hist!Next]_(Hist!vars)
  BY EventFollows DEF Follows, Hist!vars
<1>2. Hist!CountInv /\ [Hist!Next]_(Hist!vars) => Hist!CountInv'
  BY Hist!CountStep, NoneIsNoArtifact, BudgetAssumption, Zenon
<1> QED BY <1>1, <1>2
---------------------------------------------------------------------------
(***************************************************************************)
(* What an accepted event leaves of the file, one lemma per event.         *)
(***************************************************************************)

\* The length of a list that got one more element, and what it had before.
LEMMA Appending ==
    ASSUME NEW S, NEW s \in Seq(S), NEW x
    PROVE  /\ Len(Append(s, x)) = Len(s) + 1 /\ Len(s) \in Nat
           /\ Append(s, x) # <<>>
           /\ Append(s, x)[Len(s) + 1] = x
           /\ \A i \in 1..Len(s) : Append(s, x)[i] = s[i]
  OBVIOUS

\* Every event: the file grows by a line, the list of calls by at most one, and an
\* artifact that was prepared stays the prepared one.
LEMMA EventKeeps ==
    ASSUME Hist!CountInv, log \in Seq(Event), NEW e \in Event, NEW gen, Logged(e, gen)
    PROVE  /\ log' \in Seq(Event) /\ Len(log') = Len(log) + 1 /\ log' # <<>>
           /\ durable'.bound
           /\ Hist!Grows(durable.calls, durable'.calls)
           /\ durable.prepared # NoArtifact => durable'.prepared = durable.prepared
<1>0. durable \in Hist!LedgerType
  BY FileFacts
<1>1. log' \in Seq(Event) /\ Len(log') = Len(log) + 1 /\ log' # <<>>
  <2>1. log' = Append(log, e)
    BY DEF Logged
  <2>2. Append(log, e) \in Seq(Event)
    OBVIOUS
  <2> QED BY <2>1, <2>2, Appending
<1>2. Hist!Grows(durable.calls, durable'.calls)
  <2>1. [Hist!Next]_(Hist!vars)
    BY EventFollows DEF Follows, Hist!vars
  <2>2. Hist!CountInv /\ [Hist!Next]_(Hist!vars) => Hist!HistoryGrows
    BY Hist!Growth, NoneIsNoArtifact, BudgetAssumption, Zenon
  <2> QED BY <2>1, <2>2 DEF Hist!HistoryGrows
<1>3. durable' = Apply(durable, e) /\ Accepts(durable, e, gen)
  BY DEF Logged
<1>4. ASSUME NEW g \in Nat, e = Bound(g)
      PROVE  durable'.bound /\ durable'.prepared = durable.prepared
  BY <1>0, <1>3, <1>4, BoundFields DEF SameOverlay
<1>5. ASSUME NEW kind \in Kinds, NEW unit \in 1..UnitCount, e = CallReserved(kind, unit)
      PROVE  durable'.bound /\ durable'.prepared = durable.prepared
  <2>1. CanReserve(durable, kind)
    BY <1>3, <1>5, AcceptsEach
  <2>2. durable.bound
    BY <2>1 DEF CanReserve, Live
  <2> QED BY <1>0, <1>3, <1>5, <2>2, ReservedFields DEF SameOverlay, SameFlags
<1>6. ASSUME NEW outcome \in Outcomes, e = CallFinished(outcome)
      PROVE  durable'.bound /\ durable'.prepared = durable.prepared
  BY <1>0, <1>3, <1>6, AcceptsEach, FinishedFields
  DEF SameOverlay, SameFlags, CanFinish, Live
<1>7. ASSUME NEW call \in Nat, NEW unit \in 1..UnitCount, e = RetryReserved(call, unit)
      PROVE  durable'.bound /\ durable'.prepared = durable.prepared
  <2>1. Accepts(durable, RetryReserved(call, unit), gen) => durable.bound
    BY DEF Accepts, RetryReserved, Live
  <2>2. LET m == Apply(durable, RetryReserved(call, unit)) IN
        SameFlags(m, durable) /\ SameOverlay(m, durable)
    BY <1>0, RetriedFields
  <2> QED BY <1>3, <1>7, <2>1, <2>2 DEF SameOverlay, SameFlags
<1>8. ASSUME NEW unit \in 1..UnitCount, NEW last \in Nat, e = WindowCompleted(unit, last)
      PROVE  durable'.bound /\ durable'.prepared = durable.prepared
  <2>1. CanCompleteWindow(durable, unit, last)
    BY <1>3, <1>8, AcceptsEach
  <2>2. durable.bound
    BY <2>1 DEF CanCompleteWindow, Live
  <2>3. LET m == Apply(durable, WindowCompleted(unit, last)) IN
        SameFlags(m, durable) /\ SameOverlay(m, durable)
    BY <1>0, CompletedFields
  <2> QED BY <1>3, <1>8, <2>2, <2>3 DEF SameOverlay, SameFlags
<1>9. ASSUME e = Checkpoint
      PROVE  durable'.bound /\ durable'.prepared = durable.prepared
  BY <1>3, <1>9, AcceptsEach, CheckpointFields DEF CanCheckpoint, Live
<1>10. ASSUME e = Failed
       PROVE  durable'.bound /\ durable'.prepared = durable.prepared
  BY <1>0, <1>3, <1>10, AcceptsEach, FailedFields DEF SameOverlay, Live
<1>11. ASSUME NEW call \in Nat, e = RebuildAdmitted(call)
       PROVE  durable'.bound /\ durable'.prepared = durable.prepared
  BY <1>0, <1>3, <1>11, AcceptsEach, RebuiltFields DEF SameOverlay, CanRebuild
<1>12. ASSUME NEW artifact \in ArtifactSet, e = PublicationPrepared(artifact)
       PROVE  durable'.bound /\ durable.prepared = NoArtifact
  BY <1>0, <1>3, <1>12, AcceptsEach, PreparedFields DEF SameFlags, CanPrepare, Live
<1>13. ASSUME NEW artifact \in ArtifactSet, e = Published(artifact)
       PROVE  durable'.bound /\ durable'.prepared = durable.prepared
  BY <1>0, <1>3, <1>13, AcceptsEach, PublishedFields DEF SameFlags, CanPublish, Live
<1> QED BY <1>1, <1>2, <1>4, <1>5, <1>6, <1>7, <1>8, <1>9, <1>10, <1>11, <1>12, <1>13
        DEF Event

\* What an event does to a file, for every event but a completed window: the conditions
\* on the windows stay as they are.
LEMMA EventFile ==
    ASSUME BuildTypeOK, FileOK, NEW e \in Event, NEW gen, Logged(e, gen),
           durable'.windows = durable.windows,
           durable'.prepared # NoArtifact =>
             ~durable'.failed /\ Len(durable.windows) = UnitCount,
           ~Quiescent(durable') => Len(durable.windows) < UnitCount
    PROVE  FileOK'
<1>1. Hist!CountInv' /\ log' # <<>> /\ durable'.bound
  BY EventCounts, EventKeeps DEF FileOK, BuildTypeOK
<1>2. /\ Len(durable'.windows) <= UnitCount
      /\ \A i \in 1..Len(durable'.windows) : durable'.windows[i].unit = i
  BY DEF FileOK
<1> QED BY <1>1, <1>2 DEF FileOK

\* The room left after one more line.
LEMMA LessRoom ==
    ASSUME BuildTypeOK, Hist!CountInv, NEW e \in Event, NEW gen, Logged(e, gen),
           NEW n \in Nat, Room(n + 1)
    PROVE  Len(log') + n <= MaxRecords
<1>1. Len(log') = Len(log) + 1 /\ Len(log) \in Nat
  BY EventKeeps DEF BuildTypeOK
<1> QED BY <1>1, BuildAssumption DEF Room

\* The first record: a ledger without windows, ready for the first.
LEMMA BoundFile ==
    ASSUME BuildTypeOK, FileOK, RoomOK, NEW gen \in Nat, log = <<>>, Logged(Bound(gen), gen)
    PROVE  /\ FileOK' /\ RoomOK'
           /\ durable'.windows = <<>> /\ Quiescent(durable') /\ ~durable'.failed
<1>1. durable \in Hist!LedgerType /\ durable = EmptyLedger /\ Bound(gen) \in Event
  BY FileFacts DEF FileOK, Event
<1>2. LET m == Apply(durable, Bound(gen)) IN
      /\ m.bound /\ m.failed = durable.failed
      /\ SameCalls(m, durable) /\ SameWindows(m, durable) /\ SameOverlay(m, durable)
  BY <1>1, BoundFields
<1>3. /\ durable'.windows = <<>> /\ durable'.calls = <<>> /\ durable'.committed = 0
      /\ durable'.failed = FALSE /\ durable'.prepared = NoArtifact
      /\ durable.windows = <<>>
  BY <1>1, <1>2 DEF Logged, SameCalls, SameWindows, SameOverlay, EmptyLedger
<1>4. Quiescent(durable') /\ Len(durable.windows) = 0
  BY <1>3 DEF Quiescent
<1>5. FileOK'
  BY <1>1, <1>3, <1>4, EventFile
<1>6. RoomOK'
  BY <1>3, <1>4, BuildAssumption DEF RoomOK
<1> QED BY <1>3, <1>4, <1>5, <1>6

\* A reserved call. One more record must fit, the one that marks a failure.
LEMMA ReservedFile ==
    ASSUME BuildTypeOK, FileOK, NEW kind \in Kinds, NEW unit \in 1..UnitCount,
           NEW gen, Logged(CallReserved(kind, unit), gen),
           Len(durable.windows) < UnitCount, Room(2)
    PROVE  FileOK' /\ RoomOK'
<1>1. durable \in Hist!LedgerType /\ CallReserved(kind, unit) \in Event
  BY FileFacts DEF FileOK, Event
<1>2. LET m == Apply(durable, CallReserved(kind, unit)) IN
      SameWindows(m, durable) /\ SameFlags(m, durable) /\ SameOverlay(m, durable)
  BY <1>1, ReservedFields
<1>3. /\ durable'.windows = durable.windows /\ durable'.failed = durable.failed
      /\ durable'.prepared = durable.prepared
  BY <1>2 DEF Logged, SameWindows, SameFlags, SameOverlay
<1>4. durable.prepared = NoArtifact
  <2>1. CanReserve(durable, kind)
    BY AcceptsEach DEF Logged
  <2> QED BY <2>1 DEF CanReserve
<1>5. FileOK'
  BY <1>1, <1>3, <1>4, EventFile
<1>6. Len(log') + 1 <= MaxRecords
  BY <1>1, LessRoom DEF FileOK
<1>7. RoomOK'
  BY <1>3, <1>4, <1>6 DEF RoomOK, Room
<1> QED BY <1>5, <1>7

\* A receipt.
LEMMA FinishedFile ==
    ASSUME BuildTypeOK, FileOK, NEW outcome \in Outcomes, NEW gen,
           Logged(CallFinished(outcome), gen), Room(2)
    PROVE  FileOK' /\ RoomOK'
<1>1. durable \in Hist!LedgerType /\ CallFinished(outcome) \in Event
  BY FileFacts DEF FileOK, Event
<1>2. LET m == Apply(durable, CallFinished(outcome)) IN
      SameWindows(m, durable) /\ SameFlags(m, durable) /\ SameOverlay(m, durable)
  BY <1>1, FinishedFields
<1>3. /\ durable'.windows = durable.windows /\ durable'.failed = durable.failed
      /\ durable'.prepared = durable.prepared
  BY <1>2 DEF Logged, SameWindows, SameFlags, SameOverlay
<1>4. Len(durable.calls) = Len(durable.receipts) + 1
  <2>1. CanFinish(durable)
    BY AcceptsEach DEF Logged
  <2> QED BY <2>1 DEF CanFinish
<1>5. durable.prepared = NoArtifact /\ Len(durable.windows) < UnitCount
  <2>1. ~Settled(durable) /\ ~Quiescent(durable)
    BY <1>1, <1>4, FileFacts, LedgerLengths, LedgerFields DEF FileOK, Settled, Quiescent
  <2> QED BY <2>1, FileFacts DEF FileOK
<1>6. FileOK'
  BY <1>1, <1>3, <1>5, EventFile
<1>7. Len(log') + 1 <= MaxRecords
  BY <1>1, LessRoom DEF FileOK
<1>8. RoomOK'
  BY <1>3, <1>5, <1>7 DEF RoomOK, Room
<1> QED BY <1>6, <1>8

\* A support retry.
LEMMA RetriedFile ==
    ASSUME BuildTypeOK, FileOK, NEW call \in Nat, NEW unit \in 1..UnitCount,
           NEW gen, Logged(RetryReserved(call, unit), gen),
           durable.prepared = NoArtifact, Len(durable.windows) < UnitCount, Room(2)
    PROVE  FileOK' /\ RoomOK'
<1>1. durable \in Hist!LedgerType /\ RetryReserved(call, unit) \in Event
  BY FileFacts DEF FileOK, Event
<1>2. LET m == Apply(durable, RetryReserved(call, unit)) IN
      SameWindows(m, durable) /\ SameFlags(m, durable) /\ SameOverlay(m, durable)
  BY <1>1, RetriedFields
<1>3. /\ durable'.windows = durable.windows /\ durable'.failed = durable.failed
      /\ durable'.prepared = durable.prepared
  BY <1>2 DEF Logged, SameWindows, SameFlags, SameOverlay
<1>4. FileOK'
  BY <1>1, <1>3, EventFile
<1>5. Len(log') + 1 <= MaxRecords
  BY <1>1, LessRoom DEF FileOK
<1>6. RoomOK'
  BY <1>3, <1>5 DEF RoomOK, Room
<1> QED BY <1>4, <1>6

\* A completed window: it is the next one of the plan, and after the last there is room
\* for the two records of the publication.
LEMMA CompletedFile ==
    ASSUME BuildTypeOK, FileOK, NEW unit \in 1..UnitCount, NEW last \in Nat,
           NEW gen, Logged(WindowCompleted(unit, last), gen),
           unit = Len(durable.windows) + 1, Room(3)
    PROVE  /\ FileOK' /\ RoomOK' /\ Quiescent(durable') /\ ~durable'.failed
           /\ Len(durable'.windows) = unit
<1>0. durable \in Hist!LedgerType /\ WindowCompleted(unit, last) \in Event
  BY FileFacts DEF FileOK, Event
<1> DEFINE w == [unit |-> unit, first |-> durable.committed + 1, last |-> last]
<1>1. LET m == Apply(durable, WindowCompleted(unit, last)) IN
      /\ m.windows = Append(durable.windows, w)
      /\ m.committed = last
      /\ SameCalls(m, durable) /\ SameFlags(m, durable) /\ SameOverlay(m, durable)
  BY <1>0, CompletedFields
<1>2. /\ durable'.windows = Append(durable.windows, w) /\ durable'.committed = last
      /\ durable'.calls = durable.calls /\ durable'.failed = durable.failed
      /\ durable'.prepared = durable.prepared
  BY <1>1 DEF Logged, SameCalls, SameFlags, SameOverlay
<1>3. Live(durable) /\ Len(durable.calls) = last /\ durable.committed + 1 <= last
  <2>1. CanCompleteWindow(durable, unit, last)
    <3>1. Accepts(durable, WindowCompleted(unit, last), gen)
      BY DEF Logged
    <3> QED BY <3>1 DEF Accepts, WindowCompleted
  <2> QED BY <2>1 DEF CanCompleteWindow
<1>4. Quiescent(durable') /\ ~durable'.failed /\ durable.prepared = NoArtifact
  <2>1. ~Quiescent(durable)
    BY <1>0, <1>3, LedgerFields DEF Quiescent
  <2> QED BY <1>2, <1>3, <2>1, FileFacts DEF FileOK, Quiescent, Live
<1>5. /\ Len(durable'.windows) = unit
      /\ \A i \in 1..unit : durable'.windows[i].unit = i
  <2>1. durable.windows \in Seq(Hist!Window) /\ w.unit = unit
    BY <1>0, LedgerFields
  <2> HIDE DEF w
  <2>2. /\ Len(durable'.windows) = unit /\ durable'.windows[unit] = w
        /\ \A i \in 1..Len(durable.windows) : durable'.windows[i] = durable.windows[i]
    BY <1>2, <2>1, Appending
  <2>3. Len(durable.windows) \in Nat
    BY <1>0, LedgerLengths
  <2> QED BY <2>1, <2>2, <2>3 DEF FileOK
<1>6. Hist!CountInv' /\ log' # <<>> /\ durable'.bound
  BY <1>0, EventCounts, EventKeeps DEF FileOK, BuildTypeOK
<1>7. FileOK'
  BY <1>2, <1>4, <1>5, <1>6 DEF FileOK
<1>8. Len(log') + 2 <= MaxRecords
  BY <1>0, LessRoom DEF FileOK
<1>9. RoomOK'
  BY <1>2, <1>4, <1>8 DEF RoomOK, Room
<1> QED BY <1>4, <1>5, <1>7, <1>9

\* A checkpoint of a build that has windows left.
LEMMA CheckpointFile ==
    ASSUME BuildTypeOK, FileOK, NEW gen, Logged(Checkpoint, gen),
           durable.prepared = NoArtifact, Len(durable.windows) < UnitCount
    PROVE  FileOK' /\ RoomOK' /\ Quiescent(durable') /\ Live(durable')
<1>1. Checkpoint \in Event /\ durable' = durable
  BY CheckpointFields DEF Event, Logged
<1>2. CanCheckpoint(durable)
  BY AcceptsEach DEF Logged
<1>3. FileOK'
  BY <1>1, EventFile
<1>4. RoomOK'
  BY <1>1, <1>2 DEF RoomOK, CanCheckpoint
<1> QED BY <1>1, <1>2, <1>3, <1>4 DEF CanCheckpoint

\* A failure, before the publication was prepared.
LEMMA FailedFile ==
    ASSUME BuildTypeOK, FileOK, NEW gen, Logged(Failed, gen),
           durable.prepared = NoArtifact
    PROVE  FileOK' /\ RoomOK'
<1>1. durable \in Hist!LedgerType /\ Failed \in Event
  BY FileFacts DEF FileOK, Event
<1>2. LET m == Apply(durable, Failed) IN
      /\ m.failed /\ SameCalls(m, durable) /\ SameWindows(m, durable)
      /\ SameOverlay(m, durable)
  BY <1>1, FailedFields
<1>3. /\ durable'.windows = durable.windows /\ durable'.failed
      /\ durable'.prepared = durable.prepared /\ durable'.calls = durable.calls
      /\ durable'.committed = durable.committed
  BY <1>2 DEF Logged, SameCalls, SameWindows, SameOverlay
<1>4. FileOK'
  BY <1>1, <1>3, EventFile DEF Quiescent, FileOK
<1>5. RoomOK'
  BY <1>3 DEF RoomOK
<1> QED BY <1>4, <1>5

\* The admission of a rebuild leaves a quiescent ledger that has not failed.
LEMMA RebuiltFile ==
    ASSUME BuildTypeOK, FileOK, NEW call \in Nat, NEW gen,
           Logged(RebuildAdmitted(call), gen)
    PROVE  /\ FileOK' /\ RoomOK' /\ Quiescent(durable') /\ ~durable'.failed
           /\ durable'.windows = durable.windows
<1>1. durable \in Hist!LedgerType /\ RebuildAdmitted(call) \in Event
  BY FileFacts DEF FileOK, Event
<1>2. LET m == Apply(durable, RebuildAdmitted(call)) IN
      /\ m.committed = Len(durable.calls) /\ m.failed = FALSE
      /\ m.windows = durable.windows
      /\ SameCalls(m, durable) /\ SameOverlay(m, durable)
  BY <1>1, RebuiltFields
<1>3. /\ durable'.windows = durable.windows /\ durable'.failed = FALSE
      /\ durable'.prepared = durable.prepared /\ Quiescent(durable')
  BY <1>2 DEF Logged, SameCalls, SameOverlay, Quiescent
<1>4. durable.prepared = NoArtifact /\ Len(durable.windows) < UnitCount
  <2>1. CanRebuild(durable, call)
    BY AcceptsEach DEF Logged
  <2>2. durable.prepared = NoArtifact /\ call = Len(durable.calls)
        /\ durable.committed + 1 <= call
    BY <2>1 DEF CanRebuild
  <2>3. ~Quiescent(durable)
    BY <1>1, <2>2, LedgerFields DEF Quiescent
  <2> QED BY <2>2, <2>3 DEF FileOK
<1>5. FileOK'
  BY <1>1, <1>3, <1>4, EventFile
<1>6. RoomOK'
  BY <1>3, <1>4 DEF RoomOK
<1> QED BY <1>3, <1>5, <1>6

\* The preparation of the publication, when all windows are complete.
LEMMA PreparedFile ==
    ASSUME BuildTypeOK, FileOK, NEW artifact \in ArtifactSet, NEW gen,
           Logged(PublicationPrepared(artifact), gen),
           Len(durable.windows) = UnitCount, Room(2)
    PROVE  /\ FileOK' /\ RoomOK' /\ durable'.prepared = artifact
           /\ durable.prepared = NoArtifact
<1>1. durable \in Hist!LedgerType /\ PublicationPrepared(artifact) \in Event
  BY FileFacts DEF FileOK, Event
<1>2. LET m == Apply(durable, PublicationPrepared(artifact)) IN
      /\ m.prepared = artifact /\ SameCalls(m, durable) /\ SameWindows(m, durable)
      /\ SameFlags(m, durable)
  BY <1>1, PreparedFields
<1>3. /\ durable'.windows = durable.windows /\ durable'.failed = durable.failed
      /\ durable'.prepared = artifact /\ durable'.calls = durable.calls
      /\ durable'.committed = durable.committed
  BY <1>2 DEF Logged, SameCalls, SameWindows, SameFlags
<1>4. Live(durable) /\ Quiescent(durable) /\ durable.prepared = NoArtifact
  <2>1. CanPrepare(durable)
    BY AcceptsEach DEF Logged
  <2> QED BY <2>1 DEF CanPrepare
<1>5. FileOK'
  BY <1>1, <1>3, <1>4, EventFile DEF Quiescent, Live
<1>6. Len(log') + 1 <= MaxRecords
  <2> DEFINE e == PublicationPrepared(artifact)
  <2>1. Room(1 + 1) /\ Hist!CountInv /\ e \in Event /\ Logged(e, gen)
    BY <1>1 DEF FileOK
  <2> HIDE DEF e
  <2> QED BY <2>1, LessRoom
<1>7. RoomOK'
  BY <1>3, <1>4, <1>6, NoneIsNoArtifact DEF RoomOK, Room, Quiescent
<1> QED BY <1>3, <1>4, <1>5, <1>7

\* The publication.
LEMMA PublishedFile ==
    ASSUME BuildTypeOK, FileOK, NEW artifact \in ArtifactSet, NEW gen,
           Logged(Published(artifact), gen)
    PROVE  FileOK' /\ RoomOK'
<1>1. durable \in Hist!LedgerType /\ Published(artifact) \in Event
  BY FileFacts DEF FileOK, Event
<1>2. LET m == Apply(durable, Published(artifact)) IN
      /\ m.published /\ m.prepared = durable.prepared
      /\ SameCalls(m, durable) /\ SameWindows(m, durable) /\ SameFlags(m, durable)
  BY <1>1, PublishedFields
<1>3. /\ durable'.windows = durable.windows /\ durable'.failed = durable.failed
      /\ durable'.prepared = durable.prepared /\ durable'.calls = durable.calls
      /\ durable'.committed = durable.committed /\ durable'.published
  BY <1>2 DEF Logged, SameCalls, SameWindows, SameFlags
<1>4. durable.prepared # NoArtifact
  <2>1. CanPublish(durable, artifact)
    BY AcceptsEach DEF Logged
  <2> QED BY <2>1 DEF CanPublish
<1>5. FileOK'
  BY <1>1, <1>3, <1>4, EventFile DEF Quiescent, FileOK
<1>6. Quiescent(durable')
  BY <1>3, <1>4, FileFacts DEF FileOK, Quiescent
<1>7. RoomOK'
  BY <1>3, <1>4, <1>6 DEF RoomOK
<1> QED BY <1>5, <1>7
---------------------------------------------------------------------------
(***************************************************************************)
(* What a step of one process leaves of the others, and the shapes that    *)
(* steps have: an end, a move without a record, a record, a failed record. *)
(***************************************************************************)

\* The other processes are where they were.
Others(p) ==
    \A q \in Procs \ {p} :
        /\ pc'[q] = pc[q] /\ mem'[q] = mem[q]
        /\ poisoned'[q] = poisoned[q] /\ run'[q] = run[q]

\* Where the process itself goes, and with what.
Moves(p, label, r) == pc' = [pc EXCEPT ![p] = label] /\ run' = [run EXCEPT ![p] = r]

\* A process that has not opened the file knows nothing of it.
LEMMA OutsiderKept ==
    ASSUME BuildInv, NEW p \in Procs, NEW q \in Procs \ {p}, Others(p), pc[q] \notin Holding
    PROVE  ProcOK(q)'
<1>1. /\ pc'[q] = pc[q] /\ mem'[q] = mem[q] /\ poisoned'[q] = poisoned[q]
      /\ run'[q] = run[q] /\ ProcOK(q)
  BY DEF Others, BuildInv
<1>2. pc[q] \in Early
  BY DEF BuildInv, BuildTypeOK, Labels
<1>3. pc[q] \notin Working /\ pc[q] \notin Ending /\ pc[q] \notin Sending
      /\ pc[q] \notin {"support"} \cup Ending
  BY DEF Holding, Working, Sending
<1>4. HandleOK(q)'
  BY <1>1, <1>3 DEF ProcOK, HandleOK
<1>5. LoopOK(q)' /\ WindowOK(q)' /\ PublishOK(q)'
  BY <1>1, <1>2 DEF LoopOK, WindowOK, PublishOK, Early, Sending
<1> QED BY <1>4, <1>5 DEF ProcOK

\* Nothing that a process knows has changed.
LEMMA UntouchedKept ==
    ASSUME BuildInv, NEW q \in Procs, UNCHANGED <<log, torn, sent>>,
           pc'[q] = pc[q], mem'[q] = mem[q], poisoned'[q] = poisoned[q], run'[q] = run[q]
    PROVE  ProcOK(q)'
<1>1. ProcOK(q)
  BY DEF BuildInv
<1>2. durable' = durable
  BY DEF durable
<1>3. HandleOK(q)'
  BY <1>1, <1>2 DEF ProcOK, HandleOK
<1>4. LoopOK(q)'
  BY <1>1, <1>2 DEF ProcOK, LoopOK
<1>5. WindowOK(q)'
  BY <1>1, <1>2 DEF ProcOK, WindowOK, Unit, Room, Retries
<1>6. PublishOK(q)'
  BY <1>1, <1>2 DEF ProcOK, PublishOK
<1> QED BY <1>3, <1>4, <1>5, <1>6 DEF ProcOK

\* Who does not hold the lock cannot disturb the one who does.
LEMMA OthersKept ==
    ASSUME BuildInv, NEW p \in Procs, Others(p),
           UNCHANGED <<log, torn, sent>> \/ lock = NoProc \/ pc[p] \in Holding
    PROVE  \A q \in Procs \ {p} : ProcOK(q)'
<1> SUFFICES ASSUME NEW q \in Procs \ {p} PROVE ProcOK(q)'
  OBVIOUS
<1>1. CASE UNCHANGED <<log, torn, sent>>
  BY <1>1, UntouchedKept DEF Others
<1>2. CASE lock = NoProc \/ pc[p] \in Holding
  <2>1. pc[q] \notin Holding
    BY <1>2, BuildAssumption DEF BuildInv, LockOK, NoProc
  <2> QED BY <2>1, OutsiderKept
<1> QED BY <1>1, <1>2

\* A step is right when it leaves the file, the lock and its own process right.
LEMMA StepKeeps ==
    ASSUME BuildInv, NEW p \in Procs, Others(p),
           UNCHANGED <<log, torn, sent>> \/ lock = NoProc \/ pc[p] \in Holding,
           BuildTypeOK', FileOK', RoomOK', SaidOK', LockOK', CreatedOK',
           ReservedAndSentOnce', ProcOK(p)'
    PROVE  BuildInv'
<1>1. \A q \in Procs \ {p} : ProcOK(q)'
  BY OthersKept
<1>2. \A q \in Procs : ProcOK(q)'
  BY <1>1
<1> QED BY <1>2 DEF BuildInv

\* The ledger in the file stays the same when its lines do.
LEMMA FileUnchanged ==
    ASSUME BuildInv, UNCHANGED log
    PROVE  durable' = durable /\ FileOK' /\ RoomOK' /\ Follows
<1>1. durable' = durable
  BY DEF durable
<1>2. Hist!CountInv'
  <2>1. UNCHANGED Hist!vars
    BY <1>1 DEF Hist!vars
  <2>2. Hist!CountInv
    BY DEF BuildInv, FileOK
  <2>3. Hist!CountInv /\ [Hist!Next]_(Hist!vars) => Hist!CountInv'
    BY Hist!CountStep, NoneIsNoArtifact, BudgetAssumption, Zenon
  <2> QED BY <2>1, <2>2, <2>3
<1>3. FileOK' /\ RoomOK'
  BY <1>1, <1>2 DEF BuildInv, FileOK, RoomOK, Room
<1> QED BY <1>1, <1>3 DEF Follows

\* What was sent stays reserved while the file only grows.
LEMMA SentKept ==
    ASSUME ReservedAndSentOnce, sent \in Seq(SentCall), UNCHANGED sent,
           durable \in Hist!LedgerType, durable' \in Hist!LedgerType,
           Hist!Grows(durable.calls, durable'.calls)
    PROVE  ReservedAndSentOnce'
<1>1. /\ Len(durable.calls) <= Len(durable'.calls)
      /\ \A i \in 1..Len(durable.calls) : durable'.calls[i] = durable.calls[i]
      /\ Len(durable.calls) \in Nat /\ Len(durable'.calls) \in Nat
  BY LedgerLengths DEF Hist!Grows
<1> SUFFICES ASSUME NEW i \in 1..Len(sent)
             PROVE  /\ sent[i].call \in 1..Len(durable'.calls)
                    /\ durable'.calls[sent[i].call] = [kind |-> sent[i].kind,
                                                       unit |-> sent[i].unit]
                    /\ \A j \in 1..(i - 1) : sent[j].call < sent[i].call
  BY DEF ReservedAndSentOnce
<1>2. /\ sent[i].call \in 1..Len(durable.calls)
      /\ durable.calls[sent[i].call] = [kind |-> sent[i].kind, unit |-> sent[i].unit]
      /\ \A j \in 1..(i - 1) : sent[j].call < sent[i].call
  BY DEF ReservedAndSentOnce
<1> QED BY <1>1, <1>2

\* A record is written, or refused without a trace, or its write fails.
LEMMA Writing ==
    ASSUME BuildInv, NEW p \in Procs, NEW e \in Event, mem[p] = durable, ~poisoned[p],
           Residue(durable, e) = durable
    PROVE  /\ Appended(p, e) =>
                /\ Logged(e, run[p].gen) /\ mem' = [mem EXCEPT ![p] = durable']
                /\ UNCHANGED <<torn, poisoned, exists>>
           /\ AppendError(p, e) =>
                \/ UNCHANGED <<log, torn, poisoned, exists, mem>>
                \/ /\ mem' = [mem EXCEPT ![p] = Apply(durable, e)]
                   /\ poisoned' = [poisoned EXCEPT ![p] = TRUE]
                   /\ torn' \in BOOLEAN /\ exists' = exists
                   /\ log' = log \/ Logged(e, run[p].gen)
<1>1. ~Refuses(p, e) => Accepts(durable, e, run[p].gen)
  BY DEF Refuses
<1>2. log' = Append(log, e) => durable' = Apply(durable, e)
  <2>1. log \in Seq(Event)
    BY DEF BuildInv, BuildTypeOK
  <2> QED BY <2>1, ReplayAppend DEF durable
<1>3. Appended(p, e) => /\ Logged(e, run[p].gen) /\ mem' = [mem EXCEPT ![p] = durable']
                        /\ UNCHANGED <<torn, poisoned, exists>>
  BY <1>1, <1>2 DEF Appended, Logged
<1>4. AppendRefused(p, e) => UNCHANGED <<log, torn, poisoned, exists, mem>>
  <2>1. mem \in [Procs -> Hist!LedgerType]
    BY DEF BuildInv, BuildTypeOK
  <2> QED BY <2>1 DEF AppendRefused
<1>5. WriteFailed(p, e) =>
        /\ mem' = [mem EXCEPT ![p] = Apply(durable, e)]
        /\ poisoned' = [poisoned EXCEPT ![p] = TRUE]
        /\ torn' \in BOOLEAN /\ exists' = exists
        /\ log' = log \/ Logged(e, run[p].gen)
  BY <1>1, <1>2 DEF WriteFailed, Logged
<1> QED BY <1>3, <1>4, <1>5 DEF AppendError

\* Only a support retry could leave a trace when it is refused.
LEMMA NoResidue ==
    ASSUME NEW e, e.event # "support_retry_reserved"
    PROVE  Residue(durable, e) = durable
  BY DEF Residue

\* The holder of the lock is the only one who could have said that the build is
\* incomplete, and has the file to itself.
LEMMA HolderFacts ==
    ASSUME BuildInv, NEW p \in Procs, pc[p] \in Holding
    PROVE  /\ lock = p /\ report # "incomplete" /\ exists
           /\ pc[p] # "replaying" => \A q \in Procs : pc[q] # "created"
           /\ \A q \in Procs \ {p} : pc[q] \notin Holding
<1>1. lock = p
  BY DEF BuildInv, LockOK
<1>2. report # "incomplete"
  BY <1>1, BuildAssumption DEF BuildInv, SaidOK, NoProc
<1>3. pc[p] \notin {"idle", "planned", "created"}
  BY DEF Holding, Working, Sending, Ending
<1>4. exists
  BY <1>3 DEF BuildInv, CreatedOK
<1>5. ASSUME pc[p] # "replaying", NEW q \in Procs PROVE pc[q] # "created"
  BY <1>3, <1>5 DEF BuildInv, CreatedOK
<1> QED BY <1>1, <1>2, <1>4, <1>5 DEF BuildInv, LockOK

\* The values of a process that moves, and those of the others.
LEMMA MoveFacts ==
    ASSUME BuildTypeOK, NEW p \in Procs, NEW label \in Labels, NEW r \in Run,
           Moves(p, label, r)
    PROVE  /\ pc' \in [Procs -> Labels] /\ pc'[p] = label
           /\ run' \in [Procs -> Run] /\ run'[p] = r
           /\ \A q \in Procs \ {p} : pc'[q] = pc[q] /\ run'[q] = run[q]
  BY DEF BuildTypeOK, Moves

\* The lock and the files of the others, when the holder of the lock goes on.
LEMMA HolderMoves ==
    ASSUME BuildInv, NEW p \in Procs, pc[p] \in Holding, Others(p),
           pc'[p] \in Holding, UNCHANGED <<lock, exists>>,
           pc[p] # "replaying" \/ log # <<>>
    PROVE  LockOK' /\ CreatedOK'
<1>1. /\ lock = p /\ exists /\ \A q \in Procs \ {p} : pc[q] \notin Holding
      /\ \A q \in Procs : pc[q] # "created"
  <2>1. log # <<>> => \A q \in Procs : pc[q] # "created"
    BY DEF BuildInv, CreatedOK
  <2> QED BY <2>1, HolderFacts
<1>2. LockOK'
  BY <1>1 DEF LockOK, Others
<1>3. \A q \in Procs : pc'[q] # "created"
  BY <1>1 DEF Others, Holding, Working, Sending, Ending
<1> QED BY <1>1, <1>2, <1>3 DEF CreatedOK

\* A step with a record that is written.
LEMMA RecordKeeps ==
    ASSUME BuildInv, NEW p \in Procs, pc[p] \in Working \cup Ending, ~poisoned[p],
           NEW e \in Event, Residue(durable, e) = durable, Appended(p, e),
           NEW label \in Holding, NEW r \in Run, Moves(p, label, r),
           UNCHANGED <<generation, pointer, lock, report, sent>>,
           FileOK', RoomOK', ProcOK(p)'
    PROVE  BuildInv' /\ Follows
<1>0. pc[p] \in Holding /\ pc[p] # "replaying" /\ label \in Labels /\ mem[p] = durable
  BY DEF Holding, Working, Sending, Ending, Labels, BuildInv, ProcOK, HandleOK
<1>1. /\ Logged(e, run[p].gen) /\ mem' = [mem EXCEPT ![p] = durable']
      /\ UNCHANGED <<torn, poisoned, exists>>
  BY <1>0, Writing
<1>2. /\ log \in Seq(Event) /\ Hist!CountInv /\ durable \in Hist!LedgerType
      /\ mem \in [Procs -> Hist!LedgerType] /\ BuildTypeOK
  BY FileFacts DEF BuildInv, BuildTypeOK, FileOK
<1>3. durable' \in Hist!LedgerType
  BY <1>1, <1>2, ApplyType DEF Logged
<1>4. /\ log' \in Seq(Event) /\ Hist!Grows(durable.calls, durable'.calls)
      /\ durable.prepared # NoArtifact => durable'.prepared = durable.prepared
  BY <1>1, <1>2, EventKeeps
<1>5. Others(p) /\ pc'[p] = label
  BY <1>0, <1>1, <1>2, MoveFacts DEF Others
<1>6. BuildTypeOK'
  BY <1>0, <1>1, <1>2, <1>3, <1>4, MoveFacts DEF BuildTypeOK
<1>7. LockOK' /\ CreatedOK'
  BY <1>0, <1>1, <1>5, HolderMoves
<1>8. SaidOK'
  <2>1. report # "incomplete" /\ PublishedWasPrepared
    BY <1>0, HolderFacts DEF BuildInv, SaidOK
  <2>2. PublishedWasPrepared'
    BY <1>4, <2>1, NoneIsNoArtifact DEF PublishedWasPrepared
  <2> QED BY <2>1, <2>2 DEF SaidOK
<1>9. ReservedAndSentOnce'
  BY <1>2, <1>3, <1>4, SentKept DEF BuildInv, BuildTypeOK
<1>10. BuildInv'
  BY <1>0, <1>5, <1>6, <1>7, <1>8, <1>9, StepKeeps
<1> QED BY <1>1, <1>2, <1>10, EventFollows

\* A process that has an error, or ends, has only its handle to answer for.
LEMMA EndingOK ==
    ASSUME NEW p \in Procs, pc'[p] \in Ending \cup {"abandoned"},
           run'[p].gen \in Gens, run'[p].retry # 0 => pc'[p] \in Ending,
           pc'[p] \in Ending /\ ~poisoned'[p] =>
             mem'[p] = durable' /\ ~torn' /\ durable'.bound
    PROVE  ProcOK(p)'
<1>1. /\ pc'[p] \notin Early /\ pc'[p] \notin Working /\ pc'[p] \notin Sending
      /\ pc'[p] \notin {"idle", "created", "loop", "stopping", "incomplete", "publishing",
                        "recording", "builder_reserved", "builder_sent", "jev_reserved",
                        "jev_sent", "support", "window"}
  BY DEF Ending, Early, Working, Sending
<1>2. HandleOK(p)'
  BY <1>1 DEF HandleOK
<1>3. LoopOK(p)'
  BY <1>1 DEF LoopOK
<1>4. WindowOK(p)'
  BY <1>1 DEF WindowOK
<1>5. PublishOK(p)'
  BY <1>1 DEF PublishOK
<1> QED BY <1>2, <1>3, <1>4, <1>5 DEF ProcOK

\* What a process that works on the file knows of it.
LEMMA WorkerFacts ==
    ASSUME BuildInv, NEW p \in Procs, pc[p] \in Working \cup Ending
    PROVE  /\ pc[p] \in Holding /\ pc[p] # "replaying"
           /\ run[p] \in Run /\ run[p].gen \in Gens
           /\ pc[p] \in Working => ~poisoned[p]
           /\ ~poisoned[p] => mem[p] = durable /\ ~torn /\ durable.bound
           /\ pc[p] \in Working /\ pc[p] # "support" => run[p].retry = 0
<1>1. pc[p] \in Holding /\ pc[p] # "replaying" /\ pc[p] # "idle"
  BY DEF Holding, Working, Sending, Ending
<1>2. HandleOK(p) /\ run[p] \in Run
  BY DEF BuildInv, BuildTypeOK, ProcOK
<1>3. pc[p] \in Working /\ pc[p] # "support" => run[p].retry = 0
  BY <1>2 DEF HandleOK, Working, Sending, Ending
<1> QED BY <1>1, <1>2, <1>3 DEF HandleOK

\* A step with a record that is refused or whose write fails.
LEMMA ErrorKeeps ==
    ASSUME BuildInv, NEW p \in Procs, pc[p] \in Working \cup Ending, ~poisoned[p],
           NEW e \in Event, Residue(durable, e) = durable, AppendError(p, e),
           NEW label \in Ending \cup {"abandoned"}, NEW r \in Run, Moves(p, label, r),
           r.gen = run[p].gen, r.retry # 0 => label \in Ending,
           UNCHANGED <<generation, pointer, lock, report, sent>>,
           Logged(e, run[p].gen) => FileOK' /\ RoomOK'
    PROVE  BuildInv' /\ Follows
<1>0. /\ pc[p] \in Holding /\ pc[p] # "replaying" /\ label \in Labels /\ label \in Holding
      /\ mem[p] = durable /\ ~torn /\ durable.bound /\ run[p].gen \in Gens
  BY WorkerFacts DEF Holding, Working, Sending, Ending, Labels
<1>1. /\ log \in Seq(Event) /\ Hist!CountInv /\ durable \in Hist!LedgerType
      /\ mem \in [Procs -> Hist!LedgerType] /\ BuildTypeOK
  BY FileFacts DEF BuildInv, BuildTypeOK, FileOK
<1>2. \/ UNCHANGED <<log, torn, poisoned, exists, mem>>
      \/ /\ mem' = [mem EXCEPT ![p] = Apply(durable, e)]
         /\ poisoned' = [poisoned EXCEPT ![p] = TRUE]
         /\ torn' \in BOOLEAN /\ exists' = exists
         /\ log' = log \/ Logged(e, run[p].gen)
  BY <1>0, Writing
<1>3. Apply(durable, e) \in Hist!LedgerType
  BY <1>1, ApplyType
<1>4. /\ pc' \in [Procs -> Labels] /\ pc'[p] = label
      /\ run' \in [Procs -> Run] /\ run'[p] = r
      /\ \A q \in Procs \ {p} : pc'[q] = pc[q] /\ run'[q] = run[q]
  BY <1>0, <1>1, MoveFacts
<1>5. Others(p)
  BY <1>1, <1>2, <1>4 DEF Others, BuildTypeOK
<1>6. log' = log \/ Logged(e, run[p].gen)
  BY <1>2
<1>7. /\ log' \in Seq(Event) /\ durable' \in Hist!LedgerType
      /\ Hist!Grows(durable.calls, durable'.calls)
      /\ durable.prepared # NoArtifact => durable'.prepared = durable.prepared
      /\ FileOK' /\ RoomOK' /\ Follows
  <2>1. CASE log' = log
    <3>1. durable' = durable /\ FileOK' /\ RoomOK' /\ Follows
      BY <2>1, FileUnchanged
    <3>2. Hist!Grows(durable.calls, durable.calls)
      BY <1>1, LedgerLengths DEF Hist!Grows
    <3> QED BY <1>1, <2>1, <3>1, <3>2
  <2>2. CASE Logged(e, run[p].gen)
    <3>1. durable' = Apply(durable, e)
      BY <2>2 DEF Logged
    <3> QED BY <1>1, <1>3, <2>2, <3>1, EventKeeps, EventFollows
  <2> QED BY <1>6, <2>1, <2>2
<1>8. BuildTypeOK'
  <2>1. /\ mem' \in [Procs -> Hist!LedgerType] /\ poisoned' \in [Procs -> BOOLEAN]
        /\ torn' \in BOOLEAN /\ exists' \in BOOLEAN
    BY <1>1, <1>2, <1>3 DEF BuildTypeOK
  <2> QED BY <1>1, <1>4, <1>7, <2>1 DEF BuildTypeOK
<1>9. LockOK' /\ CreatedOK'
  BY <1>0, <1>2, <1>4, <1>5, HolderMoves
<1>10. SaidOK'
  <2>1. report # "incomplete" /\ PublishedWasPrepared
    BY <1>0, HolderFacts DEF BuildInv, SaidOK
  <2>2. PublishedWasPrepared'
    BY <1>7, <2>1, NoneIsNoArtifact DEF PublishedWasPrepared
  <2> QED BY <2>1, <2>2 DEF SaidOK
<1>11. ReservedAndSentOnce'
  BY <1>1, <1>7, SentKept DEF BuildInv, BuildTypeOK
<1>12. ProcOK(p)'
  <2>1. ASSUME ~poisoned'[p] PROVE mem'[p] = durable' /\ ~torn' /\ durable'.bound
    <3>1. UNCHANGED <<log, torn, poisoned, exists, mem>>
      BY <1>1, <1>2, <2>1 DEF BuildTypeOK
    <3>2. durable' = durable
      BY <3>1 DEF durable
    <3> QED BY <1>0, <3>1, <3>2
  <2> QED BY <1>0, <1>4, <2>1, EndingOK
<1> QED BY <1>0, <1>5, <1>7, <1>8, <1>9, <1>10, <1>11, <1>12, StepKeeps

\* A step of the holder of the lock that writes no record.
LEMMA QuietKeeps ==
    ASSUME BuildInv, NEW p \in Procs, pc[p] \in Working \cup Ending,
           NEW label \in Holding, NEW r \in Run, Moves(p, label, r),
           UNCHANGED <<exists, log, torn, mem, poisoned, generation, lock, report>>,
           sent' \in Seq(SentCall), ReservedAndSentOnce', PublishedWasPrepared', ProcOK(p)'
    PROVE  BuildInv' /\ Follows
<1>0. pc[p] \in Holding /\ pc[p] # "replaying" /\ label \in Labels
  BY WorkerFacts DEF Holding, Working, Sending, Ending, Labels
<1>1. BuildTypeOK /\ durable' = durable /\ FileOK' /\ RoomOK' /\ Follows
  BY FileUnchanged DEF BuildInv
<1>2. /\ pc' \in [Procs -> Labels] /\ pc'[p] = label /\ run' \in [Procs -> Run]
      /\ \A q \in Procs \ {p} : pc'[q] = pc[q] /\ run'[q] = run[q]
  BY <1>0, <1>1, MoveFacts
<1>3. Others(p)
  BY <1>2 DEF Others
<1>4. BuildTypeOK'
  BY <1>1, <1>2 DEF BuildTypeOK
<1>5. LockOK' /\ CreatedOK'
  BY <1>0, <1>2, <1>3, HolderMoves
<1>6. SaidOK'
  BY <1>0, HolderFacts DEF SaidOK
<1> QED BY <1>0, <1>1, <1>3, <1>4, <1>5, <1>6, StepKeeps

\* What was sent and published, when the file stays as it is.
LEMMA WorldUnchanged ==
    ASSUME BuildInv, UNCHANGED log, UNCHANGED sent,
           pointer' = pointer \/ pointer' = durable.prepared
    PROVE  sent' \in Seq(SentCall) /\ ReservedAndSentOnce' /\ PublishedWasPrepared'
<1>1. durable' = durable
  BY DEF durable
<1> QED BY <1>1 DEF BuildInv, BuildTypeOK, SaidOK, ReservedAndSentOnce, PublishedWasPrepared
---------------------------------------------------------------------------
(***************************************************************************)
(* The initial state, the environment, and how a run opens the file.       *)
(***************************************************************************)

\* An empty ledger is a ledger.
LEMMA EmptyType == EmptyLedger \in Hist!LedgerType
<1>1. /\ <<>> \in Seq(Hist!Call) /\ <<>> \in Seq(Hist!Outcomes)
      /\ <<>> \in Seq(Hist!Window) /\ <<>> \in Seq(Nat)
  OBVIOUS
<1> QED BY <1>1 DEF EmptyLedger, Hist!LedgerType, NoArtifact, Hist!NoArtifact

\* Before any run there is no file.
LEMMA BuildInit == Init => BuildInv /\ Abs!Init
<1> SUFFICES ASSUME Init PROVE BuildInv /\ Abs!Init
  OBVIOUS
<1> USE DEF Init
<1>1. durable = EmptyLedger
  BY ReplayEmpty DEF durable
<1>2. Hist!CountInv
  <2>1. Hist!Init
    BY <1>1 DEF Hist!Init, Hist!EmptyLedger, EmptyLedger, Hist!NoArtifact, NoArtifact
  <2>2. Hist!Init => Hist!CountInv
    BY Hist!CountInit, NoneIsNoArtifact, BudgetAssumption, Zenon
  <2> QED BY <2>1, <2>2
<1>3. BuildTypeOK
  <2>1. log \in Seq(Event) /\ sent \in Seq(SentCall) /\ 1 \in Gens /\ NoRun \in Run
    BY BuildAssumption DEF Gens, NoRun, Run
  <2> QED BY <2>1, EmptyType DEF BuildTypeOK, Labels, Early
<1>4. FileOK
  BY <1>1, <1>2, BuildAssumption DEF FileOK, EmptyLedger, Quiescent
<1>5. RoomOK
  BY <1>1, BuildAssumption DEF RoomOK, EmptyLedger, Quiescent
<1>6. SaidOK
  BY NoneIsNoArtifact DEF SaidOK, PublishedWasPrepared
<1>7. LockOK /\ CreatedOK
  BY DEF LockOK, CreatedOK, Holding, Working, Sending, Ending
<1>8. ReservedAndSentOnce
  BY DEF ReservedAndSentOnce
<1>9. ASSUME NEW p \in Procs PROVE ProcOK(p)
  <2>1. pc[p] = "idle" /\ run[p] = NoRun /\ mem[p] = EmptyLedger /\ ~poisoned[p]
    OBVIOUS
  <2>2. HandleOK(p)
    BY <2>1 DEF HandleOK, NoRun, Working, Sending, Ending
  <2> QED BY <2>1, <2>2 DEF ProcOK, LoopOK, WindowOK, PublishOK, Sending
<1>10. Abs!Init
  BY <1>1 DEF Abs!Init, Abs!EmptyLedger, EmptyLedger, Abs!NoArtifact, NoArtifact
<1> QED BY <1>3, <1>4, <1>5, <1>6, <1>7, <1>8, <1>9, <1>10 DEF BuildInv

\* The index and its overlays may change behind the build.
LEMMA WorldKeeps ==
    ASSUME BuildInv, UNCHANGED <<exists, log, torn, lock, pc, mem, poisoned, run, report,
                                 sent>>,
           generation' \in Gens, pointer' \in ArtifactSet => pointer' = pointer
    PROVE  BuildInv' /\ Follows
<1>1. durable' = durable /\ FileOK' /\ RoomOK' /\ Follows
  BY FileUnchanged
<1>2. BuildTypeOK'
  BY DEF BuildInv, BuildTypeOK
<1>3. SaidOK'
  BY <1>1 DEF BuildInv, SaidOK, ResumeSafe, PublishedWasPrepared
<1>4. LockOK' /\ CreatedOK'
  BY DEF BuildInv, LockOK, CreatedOK
<1>5. ReservedAndSentOnce'
  BY <1>1 DEF BuildInv, ReservedAndSentOnce
<1>6. \A p \in Procs : ProcOK(p)'
  BY UntouchedKept
<1> QED BY <1>1, <1>2, <1>3, <1>4, <1>5, <1>6 DEF BuildInv

\* `gptgrep index` gives the index another generation.
LEMMA ReindexStep == BuildInv /\ Reindex => BuildInv' /\ Follows
<1> SUFFICES ASSUME BuildInv, Reindex PROVE BuildInv' /\ Follows
  OBVIOUS
<1>1. generation \in Gens
  BY DEF BuildInv, BuildTypeOK
<1>2. generation' \in Gens
  BY <1>1, BuildAssumption DEF Reindex, Gens
<1> QED BY <1>2, WorldKeeps DEF Reindex, fileVars

\* An overlay of somebody else is no overlay of this build.
LEMMA ForeignStep == BuildInv /\ PublishForeign => BuildInv' /\ Follows
<1> SUFFICES ASSUME BuildInv, PublishForeign PROVE BuildInv' /\ Follows
  OBVIOUS
<1>1. pointer' \notin ArtifactSet
  BY BudgetAssumption DEF PublishForeign, ForeignArtifact, ArtifactSet, MaxRebuilds
<1>2. generation' \in Gens
  BY DEF BuildInv, BuildTypeOK, PublishForeign
<1> QED BY <1>1, <1>2, WorldKeeps DEF PublishForeign, fileVars

\* A process without a run has an empty handle.
LEMMA IdleOK ==
    ASSUME NEW p \in Procs, pc'[p] = "idle", mem'[p] = EmptyLedger, ~poisoned'[p],
           run'[p] = NoRun
    PROVE  ProcOK(p)'
<1>1. HandleOK(p)'
  BY DEF HandleOK, NoRun, Working, Sending, Ending
<1> QED BY <1>1 DEF ProcOK, LoopOK, WindowOK, PublishOK, Sending

\* The end of a run, and a crash.
LEMMA ExitKeeps ==
    ASSUME BuildInv, NEW p \in Procs, NEW status, Exit(p, status),
           UNCHANGED <<exists, log, torn, generation, pointer, sent>>,
           status = "incomplete" => pc[p] = "incomplete"
    PROVE  BuildInv' /\ Follows
<1>1. BuildTypeOK /\ durable' = durable /\ FileOK' /\ RoomOK' /\ Follows
  BY FileUnchanged DEF BuildInv
<1>2. NoRun \in Run /\ "idle" \in Labels
  BY DEF NoRun, Run, Labels, Early
<1>3. /\ pc' \in [Procs -> Labels] /\ run' \in [Procs -> Run]
      /\ mem' \in [Procs -> Hist!LedgerType] /\ poisoned' \in [Procs -> BOOLEAN]
  BY <1>1, <1>2, EmptyType DEF BuildTypeOK, Exit, Goto
<1>4. /\ pc'[p] = "idle" /\ run'[p] = NoRun /\ mem'[p] = EmptyLedger /\ ~poisoned'[p]
      /\ Others(p)
  BY <1>1 DEF BuildTypeOK, Exit, Goto, Others
<1>5. BuildTypeOK'
  BY <1>1, <1>3 DEF BuildTypeOK
<1>6. LockOK'
  BY <1>4 DEF BuildInv, LockOK, Exit, Others, Holding, Working, Sending, Ending
<1>7. CreatedOK'
  BY <1>4 DEF BuildInv, CreatedOK, Others
<1>8. SaidOK'
  <2>1. PublishedWasPrepared'
    BY <1>1 DEF BuildInv, SaidOK, PublishedWasPrepared
  <2>2. CASE lock # p
    BY <1>1, <2>1, <2>2 DEF BuildInv, SaidOK, ResumeSafe, Exit
  <2>3. CASE lock = p
    <3>1. lock' = NoProc /\ report' = status
      BY <2>3 DEF Exit
    <3>2. ASSUME status = "incomplete"
          PROVE  ~torn /\ durable.bound /\ Resumable(durable)
      <4>1. /\ pc[p] = "incomplete" /\ pc[p] \in Working
        BY <3>2 DEF Working
      <4>2. ~torn /\ durable.bound /\ Quiescent(durable) /\ Live(durable)
        BY <4>1, WorkerFacts DEF BuildInv, ProcOK, PublishOK
      <4>3. Settled(durable)
        <5>1. Hist!CountInv /\ durable \in Hist!LedgerType
          BY FileFacts DEF BuildInv, FileOK
        <5> QED BY <4>2, <5>1, FileFacts, LedgerLengths, LedgerFields
                DEF Quiescent, Settled
      <4> QED BY <4>2, <4>3 DEF Resumable, Live
    <3> QED BY <1>1, <2>1, <3>1, <3>2 DEF SaidOK, ResumeSafe
  <2> QED BY <2>2, <2>3
<1>9. ReservedAndSentOnce'
  BY <1>1 DEF BuildInv, ReservedAndSentOnce
<1>10. ProcOK(p)'
  BY <1>4, IdleOK
<1> QED BY <1>1, <1>4, <1>5, <1>6, <1>7, <1>8, <1>9, <1>10, StepKeeps

\* A process on its way to the file knows its mode and nothing else.
LEMMA EarlyOK ==
    ASSUME NEW p \in Procs, pc'[p] \in Early, mem'[p] = EmptyLedger, ~poisoned'[p],
           run'[p].ordinal = 0, run'[p].reused = 0, run'[p].retry = 0,
           run'[p].mode = "rebuild" <=> run'[p].rebuild # 0, run'[p].gen \in Gens,
           pc'[p] = "created" => run'[p].mode = "new"
    PROVE  ProcOK(p)'
<1>1. /\ pc'[p] \notin Working /\ pc'[p] \notin Ending /\ pc'[p] \notin Sending
      /\ pc'[p] \notin {"loop", "stopping", "incomplete", "publishing", "recording",
                        "builder_reserved", "builder_sent", "jev_reserved", "jev_sent",
                        "support", "window"}
  BY DEF Early, Working, Sending, Ending
<1>2. HandleOK(p)'
  BY <1>1 DEF HandleOK
<1> QED BY <1>1, <1>2 DEF ProcOK, LoopOK, WindowOK, PublishOK

\* What is known of a process that has not opened the file.
LEMMA EarlyFacts ==
    ASSUME BuildInv, NEW p \in Procs, pc[p] \in Early
    PROVE  /\ mem[p] = EmptyLedger /\ ~poisoned[p] /\ run[p] \in Run
           /\ run[p].ordinal = 0 /\ run[p].reused = 0 /\ run[p].retry = 0
           /\ run[p].mode = "rebuild" <=> run[p].rebuild # 0
           /\ pc[p] # "idle" => run[p].gen \in Gens
           /\ pc[p] = "created" => run[p].mode = "new"
<1>1. HandleOK(p) /\ run[p] \in Run
  BY DEF BuildInv, BuildTypeOK, ProcOK
<1>2. pc[p] \notin {"support"} \cup Ending
  BY DEF Early, Ending
<1> QED BY <1>1, <1>2 DEF HandleOK

\* A step that leaves the file and the lock alone and stays outside.
LEMMA OutsideKeeps ==
    ASSUME BuildInv, NEW p \in Procs, pc[p] \notin Holding, NEW label \in Labels,
           label \notin Holding, NEW r \in Run, Moves(p, label, r),
           UNCHANGED <<log, torn, mem, poisoned, generation, pointer, lock, report, sent>>,
           exists' \in BOOLEAN, CreatedOK', ProcOK(p)'
    PROVE  BuildInv' /\ Follows
<1>1. BuildTypeOK /\ durable' = durable /\ FileOK' /\ RoomOK' /\ Follows
  BY FileUnchanged DEF BuildInv
<1>2. /\ pc' \in [Procs -> Labels] /\ pc'[p] = label /\ run' \in [Procs -> Run]
      /\ \A q \in Procs \ {p} : pc'[q] = pc[q] /\ run'[q] = run[q]
  BY <1>1, MoveFacts
<1>3. BuildTypeOK'
  BY <1>1, <1>2 DEF BuildTypeOK
<1>4. Others(p)
  BY <1>2 DEF Others
<1>5. LockOK'
  BY <1>2 DEF BuildInv, LockOK
<1>6. SaidOK'
  BY <1>1 DEF BuildInv, SaidOK, ResumeSafe, PublishedWasPrepared
<1>7. ReservedAndSentOnce'
  BY <1>1 DEF BuildInv, ReservedAndSentOnce
<1> QED BY <1>1, <1>3, <1>4, <1>5, <1>6, <1>7, StepKeeps

\* A run starts with a mode, and a failed call if it is to be made again.
LEMMA StartStep ==
    ASSUME BuildInv, NEW p \in Procs, Start(p) PROVE BuildInv' /\ Follows
<1>1. PICK mode \in {"new", "resume", "rebuild"} :
        \E call \in IF mode = "rebuild" THEN 1..Len(Replay(log).calls) ELSE {0} :
          run' = [run EXCEPT ![p] = [NoRun EXCEPT !.mode = mode, !.gen = generation,
                                                  !.rebuild = call]]
  BY DEF Start
<1>2. PICK call \in IF mode = "rebuild" THEN 1..Len(Replay(log).calls) ELSE {0} :
        run' = [run EXCEPT ![p] = [NoRun EXCEPT !.mode = mode, !.gen = generation,
                                                !.rebuild = call]]
  BY <1>1
<1> DEFINE r == [NoRun EXCEPT !.mode = mode, !.gen = generation, !.rebuild = call]
<1>3. /\ pc[p] = "idle" /\ pc' = [pc EXCEPT ![p] = "planned"]
      /\ UNCHANGED <<exists, log, torn, mem, poisoned, generation, pointer, lock, report,
                     sent>>
  BY DEF Start, Goto, fileVars, world
<1>4. generation \in Gens /\ durable \in Hist!LedgerType /\ BuildTypeOK
  BY FileFacts DEF BuildInv, BuildTypeOK, FileOK
<1>5. call \in Nat /\ (mode = "rebuild" <=> call # 0)
  <2>1. Len(Replay(log).calls) \in Nat
    BY <1>4, LedgerLengths DEF durable
  <2> QED BY <1>2, <2>1
<1>6. /\ r.mode = mode /\ r.gen = generation /\ r.rebuild = call
      /\ r.ordinal = 0 /\ r.reused = 0 /\ r.retry = 0
  BY DEF NoRun
<1>7. r \in Run
  BY <1>4, <1>5 DEF NoRun, Run
<1>8. Moves(p, "planned", r)
  BY <1>2, <1>3 DEF Moves
<1> HIDE DEF r
<1>9. "planned" \in Labels /\ "planned" \notin Holding /\ pc[p] \notin Holding
      /\ "planned" \in Early /\ pc[p] \in Early
  BY <1>3 DEF Labels, Early, Holding, Working, Sending, Ending
<1>10. /\ pc'[p] = "planned" /\ run'[p] = r
       /\ \A q \in Procs \ {p} : pc'[q] = pc[q]
  BY <1>4, <1>7, <1>8, <1>9, MoveFacts
<1>11. ProcOK(p)'
  BY <1>3, <1>4, <1>5, <1>6, <1>9, <1>10, EarlyFacts, EarlyOK
<1>12. CreatedOK'
  <2>1. CreatedOK
    BY DEF BuildInv
  <2> QED BY <1>3, <1>10, <2>1 DEF CreatedOK
<1> QED BY <1>3, <1>4, <1>7, <1>8, <1>9, <1>11, <1>12, OutsideKeeps DEF BuildTypeOK

\* The file is created, or was there already.
LEMMA CreateStep ==
    ASSUME BuildInv, NEW p \in Procs, Create(p) PROVE BuildInv' /\ Follows
<1>1. CASE Exit(p, "error") /\ UNCHANGED exists
  BY <1>1, ExitKeeps DEF Create, world
<1>2. CASE ~exists /\ exists' = TRUE /\ Goto(p, "created")
           /\ UNCHANGED <<lock, mem, poisoned, run, report>>
  <2>1. pc[p] = "planned" /\ run[p].mode = "new"
        /\ UNCHANGED <<log, torn, generation, pointer, sent>>
    BY DEF Create, world
  <2>2. BuildTypeOK /\ pc[p] \in Early
    BY <2>1 DEF BuildInv, Early
  <2>3. run[p] \in Run /\ Moves(p, "created", run[p])
    BY <1>2, <2>2 DEF BuildTypeOK, Moves, Goto
  <2>4. /\ "created" \in Labels /\ "created" \in Early /\ "created" \notin Holding
        /\ pc[p] \notin Holding
    BY <2>1 DEF Labels, Early, Holding, Working, Sending, Ending
  <2>5. /\ pc'[p] = "created" /\ run'[p] = run[p]
        /\ \A q \in Procs \ {p} : pc'[q] = pc[q]
    BY <2>2, <2>3, <2>4, MoveFacts
  <2>6. ProcOK(p)'
    <3>1. /\ mem[p] = EmptyLedger /\ ~poisoned[p]
          /\ run[p].ordinal = 0 /\ run[p].reused = 0 /\ run[p].retry = 0
          /\ run[p].mode = "rebuild" <=> run[p].rebuild # 0
          /\ run[p].gen \in Gens
      BY <2>1, <2>2, EarlyFacts
    <3> QED BY <1>2, <2>1, <2>4, <2>5, <3>1, EarlyOK
  <2>7. CreatedOK'
    BY <1>2, <2>1, <2>5 DEF BuildInv, CreatedOK
  <2> QED BY <1>2, <2>1, <2>3, <2>4, <2>6, <2>7, OutsideKeeps
<1> QED BY <1>1, <1>2 DEF Create

\* The lock of a file that was there before.
LEMMA LockExistingStep ==
    ASSUME BuildInv, NEW p \in Procs, LockExisting(p) PROVE BuildInv' /\ Follows
<1>0. pc[p] = "planned" /\ UNCHANGED <<exists, log, torn, generation, pointer, sent>>
  BY DEF LockExisting, fileVars, world
<1>1. CASE Exit(p, "error")
  BY <1>0, <1>1, ExitKeeps
<1>2. CASE /\ exists /\ lock = NoProc /\ lock' = p /\ report' = "running"
           /\ Goto(p, "replaying") /\ UNCHANGED <<mem, poisoned, run>>
  <2>1. BuildTypeOK /\ durable' = durable /\ FileOK' /\ RoomOK' /\ Follows
    BY <1>0, FileUnchanged DEF BuildInv
  <2>2. run[p] \in Run /\ Moves(p, "replaying", run[p])
    BY <1>2, <2>1 DEF BuildTypeOK, Moves, Goto
  <2>3. /\ "replaying" \in Labels /\ "replaying" \in Early /\ pc[p] \in Early
    BY <1>0 DEF Labels, Early
  <2>4. /\ pc' \in [Procs -> Labels] /\ pc'[p] = "replaying" /\ run'[p] = run[p]
        /\ \A q \in Procs \ {p} : pc'[q] = pc[q] /\ run'[q] = run[q]
    BY <2>1, <2>2, <2>3, MoveFacts
  <2>5. BuildTypeOK'
    BY <1>0, <1>2, <2>1, <2>4 DEF BuildTypeOK
  <2>6. Others(p)
    BY <1>2, <2>4 DEF Others
  <2>7. LockOK'
    BY <1>2, <2>4, BuildAssumption DEF BuildInv, LockOK, NoProc
  <2>8. CreatedOK'
    BY <1>0, <1>2, <2>4 DEF BuildInv, CreatedOK
  <2>9. SaidOK'
    BY <1>0, <1>2, <2>1 DEF BuildInv, SaidOK, PublishedWasPrepared
  <2>10. ReservedAndSentOnce'
    BY <1>0, <2>1 DEF BuildInv, ReservedAndSentOnce
  <2>11. ProcOK(p)'
    <3>1. /\ mem[p] = EmptyLedger /\ ~poisoned[p]
          /\ run[p].ordinal = 0 /\ run[p].reused = 0 /\ run[p].retry = 0
          /\ run[p].mode = "rebuild" <=> run[p].rebuild # 0
          /\ run[p].gen \in Gens
      BY <1>0, <2>3, EarlyFacts
    <3> QED BY <1>2, <2>3, <2>4, <3>1, EarlyOK
  <2> QED BY <1>2, <2>1, <2>5, <2>6, <2>7, <2>8, <2>9, <2>10, <2>11, StepKeeps
<1> QED BY <1>1, <1>2 DEF LockExisting

\* The lock of the file just created and its first record.
LEMMA LockNewStep ==
    ASSUME BuildInv, NEW p \in Procs, LockNew(p) PROVE BuildInv' /\ Follows
<1> DEFINE e == Bound(run[p].gen)
<1>0. pc[p] = "created" /\ UNCHANGED <<generation, pointer, sent>>
  BY DEF LockNew, world
<1>1. CASE Exit(p, "error") /\ UNCHANGED fileVars
  BY <1>0, <1>1, ExitKeeps DEF fileVars
<1>2. CASE /\ lock = NoProc /\ lock' = p /\ report' = "running" /\ UNCHANGED run
           /\ \/ Appended(p, e) /\ Goto(p, "loop")
              \/ WriteFailed(p, e) /\ Goto(p, "abandoned")
  <2>1. /\ exists /\ log = <<>> /\ ~torn
        /\ \A q \in Procs \ {p} : pc[q] \in {"idle", "planned", "replaying"}
    BY <1>0 DEF BuildInv, CreatedOK
  <2>2. /\ durable = EmptyLedger /\ Hist!CountInv /\ BuildTypeOK
        /\ durable \in Hist!LedgerType /\ run[p] \in Run
        /\ log \in Seq(Event) /\ mem \in [Procs -> Hist!LedgerType]
    BY <2>1, FileFacts DEF BuildInv, BuildTypeOK, FileOK
  <2>3. /\ mem[p] = durable /\ ~poisoned[p]
        /\ run[p].ordinal = 0 /\ run[p].reused = 0 /\ run[p].retry = 0
        /\ run[p].rebuild = 0 /\ run[p].gen \in Gens
    <3>1. pc[p] \in Early
      BY <1>0 DEF Early
    <3> QED BY <1>0, <2>2, <3>1, EarlyFacts
  <2>4. e \in Event /\ run[p].gen \in Nat /\ Residue(durable, e) = durable
    <3>1. run[p].gen \in Nat
      BY <2>3, BuildAssumption DEF Gens
    <3>2. e.event # "support_retry_reserved"
      BY DEF Bound
    <3> QED BY <3>1, <3>2, NoResidue DEF Event
  <2> HIDE DEF e
  <2>5. Appended(p, e) => /\ Logged(e, run[p].gen) /\ mem' = [mem EXCEPT ![p] = durable']
                          /\ UNCHANGED <<torn, poisoned, exists>>
    BY <2>3, <2>4, Writing
  <2>6. WriteFailed(p, e) =>
          /\ mem' = [mem EXCEPT ![p] = Apply(durable, e)]
          /\ poisoned' = [poisoned EXCEPT ![p] = TRUE]
          /\ torn' \in BOOLEAN /\ exists' = exists
          /\ log' = log \/ Logged(e, run[p].gen)
    <3>1. log' = Append(log, e) => durable' = Apply(durable, e)
      BY <2>2, <2>4, ReplayAppend DEF durable
    <3>2. ~Refuses(p, e) => Accepts(durable, e, run[p].gen)
      BY <2>3 DEF Refuses
    <3> QED BY <2>3, <3>1, <3>2 DEF WriteFailed, Logged
  <2>7. Apply(durable, e) \in Hist!LedgerType
    BY <2>2, <2>4, ApplyType
  <2>8. ASSUME Logged(e, run[p].gen)
        PROVE  /\ FileOK' /\ RoomOK'
               /\ durable'.windows = <<>> /\ Quiescent(durable') /\ ~durable'.failed
    <3>1. FileOK /\ RoomOK
      BY DEF BuildInv
    <3> QED BY <2>1, <2>2, <2>4, <2>8, <3>1, BoundFile DEF e
  <2>9. log' = log \/ Logged(e, run[p].gen)
    BY <1>2, <2>5, <2>6
  <2>10. /\ log' \in Seq(Event) /\ durable' \in Hist!LedgerType
         /\ Hist!Grows(durable.calls, durable'.calls)
         /\ FileOK' /\ RoomOK' /\ Follows
    <3>1. CASE log' = log
      <4>1. durable' = durable /\ FileOK' /\ RoomOK' /\ Follows
        BY <3>1, FileUnchanged
      <4>2. Hist!Grows(durable.calls, durable.calls)
        BY <2>2, LedgerLengths DEF Hist!Grows
      <4> QED BY <2>2, <3>1, <4>1, <4>2
    <3>2. CASE Logged(e, run[p].gen)
      <4>1. durable' = Apply(durable, e)
        BY <3>2 DEF Logged
      <4> QED BY <2>2, <2>4, <2>7, <2>8, <3>2, <4>1, EventKeeps, EventFollows
    <3> QED BY <2>9, <3>1, <3>2
  <2>11. \E label \in {"loop", "abandoned"} : Moves(p, label, run[p])
    BY <1>2, <2>2 DEF BuildTypeOK, Moves, Goto
  <2>12. /\ pc' \in [Procs -> Labels] /\ pc'[p] \in {"loop", "abandoned"}
         /\ run' \in [Procs -> Run] /\ run'[p] = run[p]
         /\ \A q \in Procs \ {p} : pc'[q] = pc[q] /\ run'[q] = run[q]
    <3>1. {"loop", "abandoned"} \subseteq Labels
      BY DEF Labels, Holding, Working
    <3> QED BY <2>2, <2>11, <3>1, MoveFacts
  <2>13. BuildTypeOK' /\ Others(p)
    <3>1. /\ mem' \in [Procs -> Hist!LedgerType] /\ poisoned' \in [Procs -> BOOLEAN]
          /\ torn' \in BOOLEAN /\ exists' \in BOOLEAN
          /\ \A q \in Procs \ {p} : mem'[q] = mem[q] /\ poisoned'[q] = poisoned[q]
      BY <1>2, <2>2, <2>5, <2>6, <2>7, <2>10 DEF BuildTypeOK
    <3> QED BY <1>0, <2>2, <2>10, <2>12, <3>1 DEF BuildTypeOK, Others
  <2>14. LockOK'
    BY <1>2, <2>12, BuildAssumption DEF BuildInv, LockOK, NoProc
  <2>15. CreatedOK'
    <3>1. exists'
      BY <1>2, <2>1, <2>5, <2>6
    <3> QED BY <2>1, <2>12, <3>1 DEF CreatedOK
  <2>16. SaidOK'
    <3>1. pointer \in ArtifactSet => pointer = NoArtifact
      BY <2>2 DEF BuildInv, SaidOK, PublishedWasPrepared, EmptyLedger
    <3> QED BY <1>0, <1>2, <3>1, NoneIsNoArtifact DEF SaidOK, PublishedWasPrepared
  <2>17. ReservedAndSentOnce'
    BY <1>0, <2>2, <2>10, SentKept DEF BuildInv, BuildTypeOK
  <2>18. ProcOK(p)'
    <3>1. CASE Appended(p, e) /\ Goto(p, "loop")
      <4>1. pc'[p] = "loop"
        BY <2>2, <3>1 DEF BuildTypeOK, Goto
      <4>2. /\ mem'[p] = durable' /\ ~poisoned'[p] /\ ~torn'
            /\ durable'.bound /\ Logged(e, run[p].gen)
        <5>1. /\ Logged(e, run[p].gen) /\ mem' = [mem EXCEPT ![p] = durable']
              /\ UNCHANGED <<torn, poisoned, exists>>
          BY <2>5, <3>1
        <5>2. durable'.bound
          BY <2>2, <2>4, <5>1, EventKeeps
        <5> QED BY <2>1, <2>2, <2>3, <5>1, <5>2 DEF BuildTypeOK
      <4>3. HandleOK(p)'
        BY <2>3, <2>12, <4>1, <4>2 DEF HandleOK, Early
      <4>4. LoopOK(p)'
        <5>1. durable'.windows = <<>> /\ Quiescent(durable') /\ ~durable'.failed
          BY <2>8, <4>2
        <5>2. Len(durable'.windows) = 0
          BY <5>1
        <5> QED BY <2>3, <2>12, <5>1, <5>2 DEF LoopOK
      <4>5. WindowOK(p)' /\ PublishOK(p)'
        BY <4>1 DEF WindowOK, PublishOK, Sending
      <4> QED BY <4>3, <4>4, <4>5 DEF ProcOK
    <3>2. CASE WriteFailed(p, e) /\ Goto(p, "abandoned")
      <4>1. pc'[p] = "abandoned" /\ "abandoned" \notin Ending
        BY <2>2, <3>2 DEF BuildTypeOK, Goto, Ending
      <4> QED BY <2>3, <2>12, <4>1, EndingOK
    <3> QED BY <1>2, <3>1, <3>2
  <2> QED BY <1>2, <2>10, <2>13, <2>14, <2>15, <2>16, <2>17, <2>18, StepKeeps
<1> QED BY <1>1, <1>2 DEF LockNew

\* The replay of the file decides whether the run may go on.
LEMMA ReplayStep ==
    ASSUME BuildInv, NEW p \in Procs, ReplayFile(p) PROVE BuildInv' /\ Follows
<1>0. pc[p] = "replaying" /\ UNCHANGED <<exists, log, torn, generation, pointer, sent>>
  BY DEF ReplayFile, fileVars, world
<1>1. CASE Exit(p, "error")
  BY <1>0, <1>1, ExitKeeps
<1>2. CASE /\ Admits(p) /\ mem' = [mem EXCEPT ![p] = Replay(log)]
           /\ Set(p, "reused", Len(Replay(log).windows)) /\ Goto(p, "loop")
           /\ UNCHANGED <<lock, poisoned, report>>
  <2> DEFINE r == [run[p] EXCEPT !.reused = Len(durable.windows)]
  <2>1. /\ BuildTypeOK /\ durable' = durable /\ FileOK /\ FileOK' /\ RoomOK' /\ Follows
    BY <1>0, FileUnchanged DEF BuildInv
  <2>2. durable \in Hist!LedgerType /\ run[p] \in Run /\ Len(durable.windows) \in Nat
    BY <2>1, FileFacts, LedgerLengths DEF FileOK, BuildTypeOK
  <2>3. pc[p] \in Early /\ pc[p] \in Holding /\ "loop" \in Labels /\ "loop" \in Holding
    BY <1>0 DEF Early, Holding, Labels, Working
  <2>4. /\ mem[p] = EmptyLedger /\ ~poisoned[p]
        /\ run[p].ordinal = 0 /\ run[p].reused = 0 /\ run[p].retry = 0
        /\ run[p].mode = "rebuild" <=> run[p].rebuild # 0
        /\ run[p].gen \in Gens
    BY <1>0, <2>3, EarlyFacts
  <2>5. /\ ~torn /\ log # <<>> /\ durable.bound
        /\ IF run[p].mode = "rebuild"
           THEN CanRebuild(durable, run[p].rebuild) ELSE Resumable(durable)
    BY <1>2, <2>1 DEF Admits, durable, FileOK
  <2>6. Moves(p, "loop", r)
    BY <1>2, <2>1 DEF Moves, Goto, Set, durable, BuildTypeOK
  <2>7. /\ r \in Run /\ r.reused = Len(durable.windows) /\ r.ordinal = run[p].ordinal
        /\ r.retry = run[p].retry /\ r.rebuild = run[p].rebuild /\ r.gen = run[p].gen
    BY <2>2 DEF Run
  <2> HIDE DEF r
  <2>8. /\ pc' \in [Procs -> Labels] /\ pc'[p] = "loop" /\ run' \in [Procs -> Run]
        /\ run'[p] = r /\ \A q \in Procs \ {p} : pc'[q] = pc[q] /\ run'[q] = run[q]
    BY <2>1, <2>3, <2>6, <2>7, MoveFacts
  <2>9. mem' \in [Procs -> Hist!LedgerType] /\ mem'[p] = durable
        /\ \A q \in Procs \ {p} : mem'[q] = mem[q]
    BY <1>2, <2>1, <2>2 DEF durable, BuildTypeOK
  <2>10. BuildTypeOK' /\ Others(p)
    BY <1>0, <1>2, <2>1, <2>8, <2>9 DEF BuildTypeOK, Others
  <2>11. LockOK' /\ CreatedOK'
    BY <1>0, <1>2, <2>3, <2>5, <2>8, <2>10, HolderMoves
  <2>12. SaidOK'
    BY <1>0, <1>2, <2>1 DEF BuildInv, SaidOK, ResumeSafe, PublishedWasPrepared
  <2>13. ReservedAndSentOnce'
    BY <1>0, <2>1 DEF BuildInv, ReservedAndSentOnce
  <2>14. ProcOK(p)'
    <3>1. HandleOK(p)'
      BY <1>0, <1>2, <2>1, <2>4, <2>5, <2>7, <2>8, <2>9 DEF HandleOK, Early
    <3>2. LoopOK(p)'
      BY <2>1, <2>2, <2>4, <2>5, <2>7, <2>8 DEF LoopOK, Resumable
    <3>3. WindowOK(p)' /\ PublishOK(p)'
      BY <2>8 DEF WindowOK, PublishOK, Sending
    <3> QED BY <3>1, <3>2, <3>3 DEF ProcOK
  <2> QED BY <2>1, <2>3, <2>10, <2>11, <2>12, <2>13, <2>14, StepKeeps
<1> QED BY <1>1, <1>2 DEF ReplayFile

\* A run that could not open the file ends.
LEMMA AbandonStep ==
    ASSUME BuildInv, NEW p \in Procs, Abandon(p) PROVE BuildInv' /\ Follows
  BY ExitKeeps DEF Abandon, fileVars, world
---------------------------------------------------------------------------
(***************************************************************************)
(* The steps of a run on the open file.                                    *)
(***************************************************************************)

\* An error or an end without a record.
LEMMA FailQuiet ==
    ASSUME BuildInv, NEW p \in Procs, pc[p] \in Working \cup Ending, NEW label \in Ending,
           NEW r \in Run, r.gen = run[p].gen, Moves(p, label, r),
           UNCHANGED <<exists, log, torn, mem, poisoned, generation, lock, report, sent>>,
           pointer' = pointer \/ pointer' = durable.prepared
    PROVE  BuildInv' /\ Follows
<1>1. label \in Holding /\ label \in Labels /\ BuildTypeOK
  BY DEF Holding, Labels, BuildInv
<1>2. pc'[p] = label /\ run'[p] = r
  BY <1>1, MoveFacts
<1>3. durable' = durable
  BY DEF durable
<1>4. ProcOK(p)'
  BY <1>2, <1>3, WorkerFacts, EndingOK
<1>5. sent' \in Seq(SentCall) /\ ReservedAndSentOnce' /\ PublishedWasPrepared'
  BY WorldUnchanged
<1> QED BY <1>1, <1>4, <1>5, QuietKeeps

\* A step that does not touch the variables of the run.
LEMMA PlainMove ==
    ASSUME BuildInv, NEW p \in Procs, NEW label, Goto(p, label), UNCHANGED run
    PROVE  run[p] \in Run /\ Moves(p, label, run[p])
  BY DEF BuildInv, BuildTypeOK, Moves, Goto

\* An error between two windows.
LEMMA LoopErrorStep ==
    ASSUME BuildInv, NEW p \in Procs, LoopError(p) PROVE BuildInv' /\ Follows
<1>1. /\ pc[p] \in Working /\ "failing" \in Ending
      /\ UNCHANGED <<exists, log, torn, mem, poisoned, generation, lock, report, sent>>
      /\ pointer' = pointer
  BY DEF LoopError, Working, Ending, fileVars, world
<1>2. run[p] \in Run /\ Moves(p, "failing", run[p])
  BY PlainMove DEF LoopError
<1> QED BY <1>1, <1>2, FailQuiet

\* An error before the support call.
LEMMA SupportErrorStep ==
    ASSUME BuildInv, NEW p \in Procs, SupportError(p) PROVE BuildInv' /\ Follows
<1>1. /\ pc[p] \in Working /\ "failing" \in Ending
      /\ UNCHANGED <<exists, log, torn, mem, poisoned, generation, lock, report, sent>>
      /\ pointer' = pointer
  BY DEF SupportError, Working, Sending, Ending, fileVars, world
<1>2. run[p] \in Run /\ Moves(p, "failing", run[p])
  BY PlainMove DEF SupportError
<1> QED BY <1>1, <1>2, FailQuiet

\* An error of the publication, which may have replaced the pointer.
LEMMA PublishErrorStep ==
    ASSUME BuildInv, NEW p \in Procs, PublishError(p) PROVE BuildInv' /\ Follows
<1>1. /\ pc[p] \in Working /\ "failing" \in Ending
      /\ UNCHANGED <<exists, log, torn, mem, poisoned, generation, lock, report, sent>>
  BY DEF PublishError, Working, Ending, fileVars
<1>2. pointer' = pointer \/ pointer' = durable.prepared
  BY <1>1, WorkerFacts DEF PublishError
<1>3. run[p] \in Run /\ Moves(p, "failing", run[p])
  BY PlainMove DEF PublishError
<1> QED BY <1>1, <1>2, <1>3, FailQuiet

\* The handle of a process that goes on with its work.
LEMMA HandleGoesOn ==
    ASSUME NEW p \in Procs, pc'[p] \in Working, run'[p].gen \in Gens,
           run'[p].retry # 0 => pc'[p] = "support", ~poisoned'[p],
           mem'[p] = durable', ~torn', durable'.bound
    PROVE  HandleOK(p)'
<1>1. pc'[p] \notin Early /\ pc'[p] \notin {"idle", "created"}
  BY DEF Working, Sending, Early
<1> QED BY <1>1 DEF HandleOK

\* A move without a record, to a place where the work goes on.
LEMMA QuietFacts ==
    ASSUME BuildInv, NEW p \in Procs, pc[p] \in Working, NEW label \in Working,
           NEW r \in Run, r.gen = run[p].gen, r.retry # 0 => label = "support",
           Moves(p, label, r), UNCHANGED <<log, torn, mem, poisoned>>
    PROVE  /\ durable' = durable /\ pc'[p] = label /\ run'[p] = r /\ label \in Holding
           /\ HandleOK(p)'
<1>1. durable' = durable /\ label \in Holding /\ label \in Labels /\ BuildTypeOK
  BY DEF durable, Holding, Labels, BuildInv
<1>2. pc'[p] = label /\ run'[p] = r
  BY <1>1, MoveFacts
<1> QED BY <1>1, <1>2, WorkerFacts, HandleGoesOn

\* A record, after which the work goes on.
LEMMA RecordFacts ==
    ASSUME BuildInv, NEW p \in Procs, pc[p] \in Working, NEW e \in Event,
           Residue(durable, e) = durable, Appended(p, e), NEW label \in Working \cup Ending,
           NEW r \in Run, r.gen = run[p].gen,
           r.retry # 0 => label \in {"support"} \cup Ending, Moves(p, label, r)
    PROVE  /\ Logged(e, run[p].gen) /\ pc'[p] = label /\ run'[p] = r /\ label \in Holding
           /\ HandleOK(p)'
           /\ label \in Ending => ProcOK(p)'
<1>1. /\ label \in Holding /\ label \in Labels /\ BuildTypeOK
      /\ Hist!CountInv /\ log \in Seq(Event)
  BY DEF Holding, Labels, BuildInv, FileOK, BuildTypeOK
<1>2. pc'[p] = label /\ run'[p] = r
  BY <1>1, MoveFacts
<1>3. mem[p] = durable /\ ~poisoned[p] /\ ~torn /\ run[p].gen \in Gens
  BY WorkerFacts
<1>4. /\ Logged(e, run[p].gen) /\ mem' = [mem EXCEPT ![p] = durable']
      /\ UNCHANGED <<torn, poisoned, exists>>
  BY <1>3, Writing
<1>5. durable'.bound /\ mem'[p] = durable'
  BY <1>1, <1>4, EventKeeps DEF BuildTypeOK
<1>6. HandleOK(p)'
  <2>1. pc'[p] \notin Early /\ pc'[p] \notin {"idle", "created"}
    BY <1>2 DEF Working, Sending, Ending, Early
  <2> QED BY <1>2, <1>3, <1>4, <1>5, <2>1 DEF HandleOK
<1>7. label \in Ending => ProcOK(p)'
  BY <1>2, <1>3, <1>4, <1>5, EndingOK
<1> QED BY <1>1, <1>2, <1>4, <1>6, <1>7

\* The ends of a run, and a crash, whenever it comes.
LEMMA EndSteps ==
    ASSUME BuildInv, NEW p \in Procs,
           Complete(p) \/ EndIncomplete(p) \/ EndFailed(p) \/ Crash(p)
    PROVE  BuildInv' /\ Follows
<1>1. CASE Complete(p)
  BY <1>1, ExitKeeps DEF Complete, fileVars, world
<1>2. CASE EndIncomplete(p)
  BY <1>2, ExitKeeps DEF EndIncomplete, fileVars, world
<1>3. CASE EndFailed(p)
  BY <1>3, ExitKeeps DEF EndFailed, fileVars, world
<1>4. CASE Crash(p)
  BY <1>4, ExitKeeps DEF Crash, fileVars, world
<1> QED BY <1>1, <1>2, <1>3, <1>4

\* A window that is complete already is taken over.
LEMMA ReuseStep ==
    ASSUME BuildInv, NEW p \in Procs, Reuse(p) PROVE BuildInv' /\ Follows
<1> DEFINE r == [run[p] EXCEPT !.ordinal = run[p].ordinal + 1]
<1>1. /\ pc[p] = "loop" /\ pc[p] \in Working
      /\ UNCHANGED <<exists, log, torn, mem, poisoned, generation, lock, report, sent>>
      /\ pointer' = pointer /\ run[p].ordinal < run[p].reused
  <2>1. run[p].ordinal \in Nat /\ run[p].reused \in Nat
    BY DEF BuildInv, BuildTypeOK, Run
  <2> QED BY <2>1 DEF Reuse, Working, fileVars, world, IsNew
<1>2. run[p] \in Run /\ BuildTypeOK /\ LoopOK(p)
  BY DEF BuildInv, BuildTypeOK, ProcOK
<1>3. /\ r \in Run /\ r.ordinal = run[p].ordinal + 1 /\ r.reused = run[p].reused
      /\ r.retry = run[p].retry /\ r.rebuild = run[p].rebuild /\ r.gen = run[p].gen
  BY <1>2 DEF Run
<1>4. Moves(p, "loop", r)
  BY <1>1, <1>2 DEF Reuse, Set, Moves, BuildTypeOK
<1> HIDE DEF r
<1>5. run[p].retry = 0
  BY <1>1, WorkerFacts
<1>6. /\ durable' = durable /\ pc'[p] = "loop" /\ run'[p] = r /\ pc[p] \in Holding
      /\ HandleOK(p)'
  <2>1. "loop" \in Working
    BY DEF Working
  <2> QED BY <1>1, <1>3, <1>4, <1>5, <2>1, QuietFacts
<1>7. LoopOK(p)'
  BY <1>1, <1>2, <1>3, <1>6 DEF LoopOK, Run
<1>8. WindowOK(p)' /\ PublishOK(p)'
  BY <1>6 DEF WindowOK, PublishOK, Sending
<1>9. ProcOK(p)'
  BY <1>6, <1>7, <1>8 DEF ProcOK
<1>10. sent' \in Seq(SentCall) /\ ReservedAndSentOnce' /\ PublishedWasPrepared'
  BY <1>1, WorldUnchanged
<1> QED BY <1>1, <1>3, <1>4, <1>6, <1>9, <1>10, QuietKeeps

\* The run stops before the next window.
LEMMA StopRunStep ==
    ASSUME BuildInv, NEW p \in Procs, StopRun(p) PROVE BuildInv' /\ Follows
<1>1. /\ pc[p] = "loop" /\ pc[p] \in Working /\ "stopping" \in Working
      /\ UNCHANGED <<exists, log, torn, mem, poisoned, generation, lock, report, sent>>
      /\ pointer' = pointer
  BY DEF StopRun, AtNewWindow, Working, fileVars, world
<1>2. run[p] \in Run /\ Moves(p, "stopping", run[p])
  BY PlainMove DEF StopRun
<1>3. run[p].retry = 0
  BY <1>1, WorkerFacts
<1>4. /\ durable' = durable /\ pc'[p] = "stopping" /\ "stopping" \in Holding
      /\ HandleOK(p)'
  BY <1>1, <1>2, <1>3, QuietFacts
<1>5. Len(durable.windows) < UnitCount
  <2>1. LoopOK(p) /\ ~(run[p].ordinal < run[p].reused) /\ run[p].ordinal < UnitCount
    BY <1>2 DEF BuildInv, ProcOK, StopRun, AtNewWindow, IsNew, MoreWindows, Run
  <2> QED BY <1>1, <2>1 DEF LoopOK
<1>6. durable.prepared = NoArtifact
  BY <1>5, BuildAssumption DEF BuildInv, FileOK
<1>7. PublishOK(p)'
  BY <1>4, <1>5, <1>6 DEF PublishOK
<1>8. LoopOK(p)' /\ WindowOK(p)'
  BY <1>4 DEF LoopOK, WindowOK, Sending
<1>9. ProcOK(p)'
  BY <1>4, <1>7, <1>8 DEF ProcOK
<1>10. sent' \in Seq(SentCall) /\ ReservedAndSentOnce' /\ PublishedWasPrepared'
  BY <1>1, WorldUnchanged
<1> QED BY <1>1, <1>2, <1>4, <1>9, <1>10, QuietKeeps

\* The publication is found or made.
LEMMA PublishSteps ==
    ASSUME BuildInv, NEW p \in Procs, FindPublished(p) \/ PublishOverlay(p)
    PROVE  BuildInv' /\ Follows
<1>1. CASE FindPublished(p) /\ Exit(p, "complete")
  BY <1>1, ExitKeeps DEF FindPublished, fileVars, world
<1>2. CASE /\ Goto(p, "recording") /\ UNCHANGED run /\ pc[p] = "publishing"
           /\ ~mem[p].published
           /\ UNCHANGED <<exists, log, torn, mem, poisoned, generation, lock, report, sent>>
           /\ pointer' = pointer \/ pointer' = mem[p].prepared
  <2>1. pc[p] \in Working /\ "recording" \in Working
    BY <1>2 DEF Working
  <2>2. run[p] \in Run /\ Moves(p, "recording", run[p])
    BY <1>2, PlainMove
  <2>3. run[p].retry = 0 /\ mem[p] = durable
    BY <1>2, <2>1, WorkerFacts
  <2>4. /\ durable' = durable /\ pc'[p] = "recording" /\ "recording" \in Holding
        /\ HandleOK(p)'
    BY <1>2, <2>1, <2>2, <2>3, QuietFacts
  <2>5. PublishOK(p)'
    BY <1>2, <2>3, <2>4 DEF BuildInv, ProcOK, PublishOK
  <2>6. LoopOK(p)' /\ WindowOK(p)'
    BY <2>4 DEF LoopOK, WindowOK, Sending
  <2>7. ProcOK(p)'
    BY <2>4, <2>5, <2>6 DEF ProcOK
  <2>8. sent' \in Seq(SentCall) /\ ReservedAndSentOnce' /\ PublishedWasPrepared'
    BY <1>2, <2>3, WorldUnchanged
  <2> QED BY <1>2, <2>1, <2>2, <2>4, <2>7, <2>8, QuietKeeps
<1>3. CASE PublishOverlay(p)
  BY <1>2, <1>3 DEF PublishOverlay, fileVars
<1>4. CASE FindPublished(p) /\ ~Exit(p, "complete")
  BY <1>2, <1>4 DEF FindPublished, fileVars, world
<1> QED BY <1>1, <1>3, <1>4

\* The file and the numbers in it that a step on the open file starts from.
LEMMA OpenFacts ==
    ASSUME BuildInv, NEW p \in Procs, pc[p] \in Working
    PROVE  /\ BuildTypeOK /\ FileOK /\ RoomOK /\ Hist!CountInv
           /\ durable \in Hist!LedgerType
           /\ mem[p] = durable /\ ~poisoned[p] /\ ~torn /\ durable.bound
           /\ run[p] \in Run /\ run[p].gen \in Gens /\ run[p].gen \in Nat
           /\ LoopOK(p) /\ WindowOK(p) /\ PublishOK(p)
           /\ pc[p] \in Working \cup Ending
<1>1. BuildTypeOK /\ FileOK /\ RoomOK /\ Hist!CountInv /\ ProcOK(p)
  BY DEF BuildInv, FileOK
<1>2. run[p].gen \in Gens => run[p].gen \in Nat
  BY BuildAssumption DEF Gens
<1> QED BY <1>1, <1>2, FileFacts, WorkerFacts DEF ProcOK

\* The failed window is admitted for another try, once.
LEMMA AdmitRebuildStep ==
    ASSUME BuildInv, NEW p \in Procs, AdmitRebuild(p) PROVE BuildInv' /\ Follows
<1> DEFINE call == run[p].rebuild
           e == RebuildAdmitted(run[p].rebuild)
           r == [run[p] EXCEPT !.rebuild = 0]
<1>1. /\ pc[p] = "loop" /\ pc[p] \in Working /\ "loop" \in Working /\ "failing" \in Ending
      /\ UNCHANGED <<generation, pointer, lock, report, sent>>
      /\ run' = [run EXCEPT ![p] = r]
      /\ run[p].ordinal >= run[p].reused
  <2>1. run \in [Procs -> Run]
    BY DEF BuildInv, BuildTypeOK
  <2>2. run' = [run EXCEPT ![p]["rebuild"] = 0]
    BY DEF AdmitRebuild, Set
  <2> QED BY <2>1, <2>2 DEF AdmitRebuild, Working, Ending, world, IsNew
<1>2. /\ BuildTypeOK /\ FileOK /\ Hist!CountInv /\ LoopOK(p) /\ run[p] \in Run
      /\ mem[p] = durable /\ ~poisoned[p] /\ run[p].gen \in Nat
      /\ pc[p] \in Working \cup Ending
  BY <1>1, OpenFacts
<1>3. run[p].retry = 0
  BY <1>1, WorkerFacts
<1>4. /\ r \in Run /\ r.rebuild = 0 /\ r.ordinal = run[p].ordinal
      /\ r.reused = run[p].reused /\ r.retry = 0 /\ r.gen = run[p].gen
  BY <1>2, <1>3 DEF Run
<1>5. call \in Nat /\ e \in Event /\ e.event # "support_retry_reserved"
  BY <1>2 DEF Run, Event, RebuildAdmitted
<1>6. Residue(durable, e) = durable
  BY <1>5, NoResidue
<1>7. UNCHANGED pc => Moves(p, "loop", r)
  BY <1>1, <1>2 DEF Moves, BuildTypeOK
<1>8. Goto(p, "failing") => Moves(p, "failing", r)
  BY <1>1 DEF Moves, Goto
<1>9. ASSUME Logged(e, run[p].gen)
      PROVE  /\ FileOK' /\ RoomOK' /\ Quiescent(durable') /\ ~durable'.failed
             /\ durable'.windows = durable.windows
  BY <1>2, <1>5, <1>9, RebuiltFile
<1> HIDE DEF e, r
<1>10. CASE Appended(p, e) /\ UNCHANGED pc
  <2>1. /\ Logged(e, run[p].gen) /\ pc'[p] = "loop" /\ run'[p] = r /\ "loop" \in Holding
        /\ HandleOK(p)'
    BY <1>1, <1>4, <1>5, <1>6, <1>7, <1>10, RecordFacts
  <2>2. LoopOK(p)'
    BY <1>1, <1>2, <1>4, <1>9, <2>1 DEF LoopOK, Run
  <2>3. WindowOK(p)' /\ PublishOK(p)'
    BY <2>1 DEF WindowOK, PublishOK, Sending
  <2>4. ProcOK(p)'
    BY <2>1, <2>2, <2>3 DEF ProcOK
  <2> QED BY <1>1, <1>2, <1>4, <1>5, <1>6, <1>7, <1>9, <1>10, <2>1, <2>4, RecordKeeps
<1>11. CASE AppendError(p, e) /\ Goto(p, "failing")
  BY <1>1, <1>2, <1>4, <1>5, <1>6, <1>8, <1>9, <1>11, ErrorKeeps
<1>12. CASE Goto(p, "failing") /\ UNCHANGED <<fileVars, mem, poisoned>>
  BY <1>1, <1>2, <1>4, <1>8, <1>12, FailQuiet DEF fileVars
<1> QED BY <1>10, <1>11, <1>12 DEF AdmitRebuild, e

\* A sum is bounded by the sum of the bounds.
LEMMA SumBounded ==
    ASSUME NEW max \in Nat, NEW a \in Nat, NEW b \in Nat, NEW aMax \in Nat, NEW bMax \in Nat,
           NEW n \in Nat, n <= max + a + b, a <= aMax, b <= bMax
    PROVE  n <= max + aMax + bMax
  OBVIOUS

\* The publication is prepared.
LEMMA PrepareStep ==
    ASSUME BuildInv, NEW p \in Procs, PreparePublication(p) PROVE BuildInv' /\ Follows
<1> DEFINE artifact == Artifact(mem[p], run[p].gen)
           e == PublicationPrepared(artifact)
<1>1. /\ pc[p] = "loop" /\ pc[p] \in Working /\ "publishing" \in Working
      /\ "failing" \in Ending /\ UNCHANGED run
      /\ UNCHANGED <<generation, pointer, lock, report, sent>>
  BY DEF PreparePublication, Working, Ending, world
<1>2. /\ BuildTypeOK /\ FileOK /\ RoomOK /\ Hist!CountInv /\ LoopOK(p) /\ run[p] \in Run
      /\ mem[p] = durable /\ ~poisoned[p] /\ run[p].gen \in Nat /\ run[p].gen \in Gens
      /\ durable \in Hist!LedgerType /\ pc[p] \in Working \cup Ending
  BY <1>1, OpenFacts
<1>3. run[p].retry = 0
  BY <1>1, WorkerFacts
<1>4. artifact \in ArtifactSet
  <2>1. durable.jevCalls \in Nat
        /\ durable.jevCalls <= MaxJev + Len(durable.rebuilds) + Len(durable.retries)
        /\ Len(durable.rebuilds) <= MaxRebuilds /\ Len(durable.retries) <= SupportRetries
        /\ Len(durable.rebuilds) \in Nat /\ Len(durable.retries) \in Nat
    BY <1>2, FileFacts, LedgerFields, LedgerLengths
  <2>2. durable.jevCalls <= MaxJev + MaxRebuilds + SupportRetries
    <3>1. MaxJev \in Nat /\ MaxRebuilds \in Nat /\ SupportRetries \in Nat
      BY BudgetAssumption DEF MaxRebuilds
    <3> QED BY <2>1, <3>1, SumBounded
  <2>3. durable.jevCalls \in 0..(MaxJev + MaxRebuilds + SupportRetries)
    BY <2>1, <2>2, BudgetAssumption DEF MaxRebuilds
  <2> QED BY <1>2, <2>3 DEF Artifact, ArtifactSet
<1>5. e \in Event /\ e.event # "support_retry_reserved"
  BY <1>4 DEF Event, PublicationPrepared
<1>6. Residue(durable, e) = durable
  BY <1>5, NoResidue
<1>7. \A label : Goto(p, label) => Moves(p, label, run[p])
  BY <1>1, PlainMove
<1>8. /\ run[p].ordinal = Len(durable.windows) /\ ~(run[p].ordinal < UnitCount)
      /\ Len(durable.windows) = UnitCount
  <2>1. /\ run[p].ordinal = Len(durable.windows) /\ ~(run[p].ordinal < UnitCount)
    BY <1>2 DEF PreparePublication, MoreWindows
  <2> QED BY <1>2, <2>1, LedgerLengths, BuildAssumption DEF FileOK
<1> HIDE DEF artifact
<1>9. ASSUME Logged(e, run[p].gen), durable.prepared = NoArtifact
      PROVE  FileOK' /\ RoomOK' /\ durable'.prepared # NoArtifact
  <2>1. CanPrepare(durable)
    BY <1>9, AcceptsEach DEF Logged
  <2>2. Room(2)
    BY <1>2, <1>8, <2>1 DEF RoomOK, CanPrepare, Live
  <2> QED BY <1>2, <1>4, <1>8, <1>9, <2>2, PreparedFile, NoneIsNoArtifact
<1> HIDE DEF e
<1>10. CASE /\ mem[p].prepared = artifact /\ Goto(p, "publishing")
            /\ UNCHANGED <<fileVars, mem, poisoned>>
  <2>0. UNCHANGED <<exists, log, torn, mem, poisoned>>
    BY <1>10 DEF fileVars
  <2>1. /\ durable' = durable /\ pc'[p] = "publishing" /\ "publishing" \in Holding
        /\ HandleOK(p)'
    BY <1>1, <1>2, <1>3, <1>7, <1>10, <2>0, QuietFacts
  <2>2. PublishOK(p)'
    BY <1>2, <1>4, <1>10, <2>1, NoneIsNoArtifact DEF PublishOK
  <2>3. LoopOK(p)' /\ WindowOK(p)'
    BY <2>1 DEF LoopOK, WindowOK, Sending
  <2>4. ProcOK(p)'
    BY <2>1, <2>2, <2>3 DEF ProcOK
  <2>5. sent' \in Seq(SentCall) /\ ReservedAndSentOnce' /\ PublishedWasPrepared'
    BY <1>1, <2>0, WorldUnchanged
  <2> QED BY <1>1, <1>2, <1>7, <1>10, <2>0, <2>1, <2>4, <2>5, QuietKeeps
<1>11. CASE mem[p].prepared = NoArtifact /\ Appended(p, e) /\ Goto(p, "publishing")
  <2>1. /\ Logged(e, run[p].gen) /\ pc'[p] = "publishing" /\ "publishing" \in Holding
        /\ HandleOK(p)'
    BY <1>1, <1>2, <1>3, <1>5, <1>6, <1>7, <1>11, RecordFacts
  <2>2. FileOK' /\ RoomOK' /\ durable'.prepared # NoArtifact
    BY <1>2, <1>9, <1>11, <2>1
  <2>3. PublishOK(p)'
    BY <2>1, <2>2 DEF PublishOK
  <2>4. LoopOK(p)' /\ WindowOK(p)'
    BY <2>1 DEF LoopOK, WindowOK, Sending
  <2>5. ProcOK(p)'
    BY <2>1, <2>3, <2>4 DEF ProcOK
  <2> QED BY <1>1, <1>2, <1>5, <1>6, <1>7, <1>11, <2>1, <2>2, <2>5, RecordKeeps
<1>12. CASE mem[p].prepared = NoArtifact /\ AppendError(p, e) /\ Goto(p, "failing")
  BY <1>1, <1>2, <1>3, <1>5, <1>6, <1>7, <1>9, <1>12, ErrorKeeps
<1> QED BY <1>10, <1>11, <1>12 DEF PreparePublication, e, artifact

\* The publication is recorded.
LEMMA RecordPublicationStep ==
    ASSUME BuildInv, NEW p \in Procs, RecordPublication(p) PROVE BuildInv' /\ Follows
<1> DEFINE e == Published(mem[p].prepared)
<1>1. /\ pc[p] = "recording" /\ pc[p] \in Working /\ "complete" \in Working
      /\ "failing" \in Ending /\ UNCHANGED run
      /\ UNCHANGED <<generation, pointer, lock, report, sent>>
  BY DEF RecordPublication, Working, Ending, world
<1>2. /\ BuildTypeOK /\ FileOK /\ Hist!CountInv /\ PublishOK(p) /\ run[p] \in Run
      /\ mem[p] = durable /\ ~poisoned[p] /\ run[p].gen \in Nat
      /\ durable \in Hist!LedgerType /\ pc[p] \in Working \cup Ending
  BY <1>1, OpenFacts
<1>3. run[p].retry = 0
  BY <1>1, WorkerFacts
<1>4. durable.prepared \in ArtifactSet
  BY <1>1, <1>2, LedgerFields DEF PublishOK
<1>5. e \in Event /\ e.event # "support_retry_reserved"
  BY <1>2, <1>4 DEF Event, Published
<1>6. Residue(durable, e) = durable
  BY <1>5, NoResidue
<1>7. \A label : Goto(p, label) => Moves(p, label, run[p])
  BY <1>1, PlainMove
<1>8. ASSUME Logged(e, run[p].gen) PROVE FileOK' /\ RoomOK'
  BY <1>2, <1>4, <1>8, PublishedFile
<1> HIDE DEF e
<1>9. CASE Appended(p, e) /\ Goto(p, "complete")
  <2>1. /\ Logged(e, run[p].gen) /\ pc'[p] = "complete" /\ "complete" \in Holding
        /\ HandleOK(p)'
    BY <1>1, <1>2, <1>3, <1>5, <1>6, <1>7, <1>9, RecordFacts
  <2>2. LoopOK(p)' /\ WindowOK(p)' /\ PublishOK(p)'
    BY <2>1 DEF LoopOK, WindowOK, PublishOK, Sending
  <2>3. ProcOK(p)'
    BY <2>1, <2>2 DEF ProcOK
  <2> QED BY <1>1, <1>2, <1>5, <1>6, <1>7, <1>8, <1>9, <2>1, <2>3, RecordKeeps
<1>10. CASE AppendError(p, e) /\ Goto(p, "failing")
  BY <1>1, <1>2, <1>3, <1>5, <1>6, <1>7, <1>8, <1>10, ErrorKeeps
<1> QED BY <1>9, <1>10 DEF RecordPublication, e

\* The checkpoint of a run that stops.
LEMMA CheckpointStep ==
    ASSUME BuildInv, NEW p \in Procs, WriteCheckpoint(p) PROVE BuildInv' /\ Follows
<1>1. /\ pc[p] = "stopping" /\ pc[p] \in Working /\ "incomplete" \in Working
      /\ "abandoned" \in Ending \cup {"abandoned"} /\ UNCHANGED run
      /\ UNCHANGED <<generation, pointer, lock, report, sent>>
  BY DEF WriteCheckpoint, Working, Ending, world
<1>2. /\ BuildTypeOK /\ FileOK /\ PublishOK(p) /\ run[p] \in Run
      /\ ~poisoned[p] /\ pc[p] \in Working \cup Ending
  BY <1>1, OpenFacts
<1>3. run[p].retry = 0
  BY <1>1, WorkerFacts
<1>4. Checkpoint \in Event /\ Residue(durable, Checkpoint) = durable
  BY NoResidue DEF Event, Checkpoint
<1>5. \A label : Goto(p, label) => Moves(p, label, run[p])
  BY <1>1, PlainMove
<1>6. ASSUME Logged(Checkpoint, run[p].gen)
      PROVE  FileOK' /\ RoomOK' /\ Quiescent(durable') /\ Live(durable')
  BY <1>1, <1>2, <1>6, CheckpointFile DEF PublishOK
<1>7. CASE Appended(p, Checkpoint) /\ Goto(p, "incomplete")
  <2>1. /\ Logged(Checkpoint, run[p].gen) /\ pc'[p] = "incomplete"
        /\ "incomplete" \in Holding /\ HandleOK(p)'
    BY <1>1, <1>2, <1>3, <1>4, <1>5, <1>7, RecordFacts
  <2>2. LoopOK(p)' /\ WindowOK(p)' /\ PublishOK(p)'
    BY <1>6, <2>1 DEF LoopOK, WindowOK, PublishOK, Sending
  <2>3. ProcOK(p)'
    BY <2>1, <2>2 DEF ProcOK
  <2> QED BY <1>1, <1>2, <1>4, <1>5, <1>6, <1>7, <2>1, <2>3, RecordKeeps
<1>8. CASE AppendError(p, Checkpoint) /\ Goto(p, "abandoned")
  BY <1>1, <1>2, <1>3, <1>4, <1>5, <1>6, <1>8, ErrorKeeps
<1> QED BY <1>7, <1>8 DEF WriteCheckpoint

\* The record of a failure, if the handle can still write one.
LEMMA FailureStep ==
    ASSUME BuildInv, NEW p \in Procs, WriteFailure(p) PROVE BuildInv' /\ Follows
<1>1. /\ pc[p] = "failing" /\ pc[p] \in Working \cup Ending /\ "failed" \in Ending
      /\ UNCHANGED run /\ UNCHANGED <<generation, pointer, lock, report, sent>>
  BY DEF WriteFailure, Ending, world
<1>2. /\ BuildTypeOK /\ FileOK /\ Hist!CountInv /\ run[p] \in Run /\ run[p].gen \in Gens
      /\ ~poisoned[p] => mem[p] = durable /\ ~torn /\ durable.bound
      /\ mem \in [Procs -> Hist!LedgerType] /\ poisoned \in [Procs -> BOOLEAN]
  BY <1>1, WorkerFacts DEF BuildInv, FileOK, BuildTypeOK
<1>3. Moves(p, "failed", run[p])
  BY <1>1, PlainMove DEF WriteFailure
<1>4. CASE UNCHANGED <<fileVars, mem, poisoned>>
  BY <1>1, <1>2, <1>3, <1>4, FailQuiet DEF fileVars
<1>5. CASE poisoned[p] /\ (Appended(p, Failed) \/ AppendError(p, Failed))
  <2>1. UNCHANGED <<exists, log, torn, mem, poisoned>>
    BY <1>2, <1>5 DEF Appended, AppendError, AppendRefused, WriteFailed, Refuses
  <2> QED BY <1>1, <1>2, <1>3, <2>1, FailQuiet
<1>6. CASE /\ ~poisoned[p] /\ mem[p].prepared = NoArtifact
           /\ Appended(p, Failed) \/ AppendError(p, Failed)
  <2>1. Failed \in Event /\ Residue(durable, Failed) = durable
    BY NoResidue DEF Event, Failed
  <2>2. ASSUME Logged(Failed, run[p].gen) PROVE FileOK' /\ RoomOK'
    BY <1>2, <1>6, <2>2, FailedFile
  <2>3. CASE AppendError(p, Failed)
    BY <1>1, <1>2, <1>3, <1>6, <2>1, <2>2, <2>3, ErrorKeeps
  <2>4. CASE Appended(p, Failed)
    <3>1. /\ Logged(Failed, run[p].gen) /\ mem' = [mem EXCEPT ![p] = durable']
          /\ UNCHANGED <<torn, poisoned, exists>>
      BY <1>2, <1>6, <2>1, <2>4, Writing
    <3>2. "failed" \in Holding /\ "failed" \in Labels
      BY DEF Holding, Ending, Labels
    <3>3. pc'[p] = "failed" /\ run'[p] = run[p]
      BY <1>2, <1>3, <3>2, MoveFacts
    <3>4. durable'.bound
      BY <1>2, <2>1, <3>1, EventKeeps DEF BuildTypeOK
    <3>5. ProcOK(p)'
      BY <1>1, <1>2, <1>6, <3>1, <3>3, <3>4, EndingOK
    <3> QED BY <1>1, <1>2, <1>3, <1>6, <2>1, <2>2, <2>4, <3>1, <3>2, <3>5, RecordKeeps
  <2> QED BY <1>6, <2>3, <2>4
<1> QED BY <1>4, <1>5, <1>6 DEF WriteFailure

\* The support retries that are left.
LEMMA RetriesLeft ==
    ASSUME Hist!CountInv
    PROVE  Retries \in Nat /\ Retries = SupportRetries - Len(durable.retries)
<1>1. Len(durable.retries) \in Nat /\ Len(durable.retries) <= SupportRetries
  BY FileFacts, LedgerLengths
<1> QED BY <1>1, BudgetAssumption DEF Retries

\* One builder call, the first that is not committed, begins to pay for a window.
LEMMA PayingFirst ==
    ASSUME NEW l \in Hist!LedgerType, NEW unit, Len(l.calls) = l.committed + 1,
           l.calls[l.committed + 1].kind = "builder", l.calls[l.committed + 1].unit = unit
    PROVE  Paying(l, unit)
<1>1. l.committed \in Nat /\ Len(l.retries) \in Nat
  BY LedgerFields, LedgerLengths
<1>2. \A c \in (l.committed + 1)..(l.committed + 1) : c = l.committed + 1
  BY <1>1
<1>3. (l.committed + 1)..(l.committed + 1 - 1) = {}
  BY <1>1
<1> QED BY <1>1, <1>2, <1>3 DEF Paying

\* A limit is a number.
LEMMA SumNatural ==
    ASSUME NEW a \in Nat, NEW b \in Nat, NEW c \in Nat PROVE a + b + c \in Nat
  OBVIOUS

\* The builder call of the next window is reserved.
LEMMA ReserveBuilderStep ==
    ASSUME BuildInv, NEW p \in Procs, ReserveBuilder(p) PROVE BuildInv' /\ Follows
<1> DEFINE e == CallReserved("builder", Unit(p))
           n == Len(durable.calls)
<1>1. /\ pc[p] = "loop" /\ pc[p] \in Working /\ "builder_reserved" \in Working
      /\ "failing" \in Ending /\ UNCHANGED run
      /\ UNCHANGED <<generation, pointer, lock, report, sent>>
      /\ run[p].ordinal < UnitCount /\ run[p].ordinal >= run[p].reused
      /\ run[p].rebuild = 0 /\ ~MustStop(p)
  BY DEF ReserveBuilder, AtNewWindow, IsNew, MoreWindows, Working, Sending, Ending, world
<1>2. /\ BuildTypeOK /\ FileOK /\ Hist!CountInv /\ LoopOK(p) /\ run[p] \in Run
      /\ mem[p] = durable /\ ~poisoned[p] /\ durable \in Hist!LedgerType
      /\ pc[p] \in Working \cup Ending /\ durable.bound
  BY <1>1, OpenFacts
<1>3. run[p].retry = 0
  BY <1>1, WorkerFacts
<1>4. /\ run[p].ordinal \in Nat /\ run[p].reused \in Nat /\ Unit(p) \in 1..UnitCount
      /\ Unit(p) = run[p].ordinal + 1
  BY <1>1, <1>2, BuildAssumption DEF Run, Unit
<1>5. /\ Len(durable.windows) = run[p].ordinal /\ Quiescent(durable) /\ ~durable.failed
      /\ durable.prepared = NoArtifact
  BY <1>1, <1>2, <1>4, BuildAssumption DEF LoopOK, FileOK
<1>6. /\ Retries \in Nat /\ Retries = SupportRetries - Len(durable.retries)
      /\ Len(durable.retries) \in Nat /\ Len(durable.retries) <= SupportRetries
      /\ Len(log) \in Nat
  BY <1>2, RetriesLeft, LedgerLengths, FileFacts DEF BuildTypeOK
<1>7. Len(log) + 7 + 2 * Retries <= MaxRecords /\ JevLeft(durable)
  <2>1. CapacityForWindow(durable, Len(log), MaxRecords)
    BY <1>1, <1>2 DEF MustStop
  <2>2. Len(log) + 7 + 2 * Retries <= MaxRecords
    BY <1>6, <2>1 DEF CapacityForWindow
  <2>3. ~(AttemptCount(durable, "jev") >= EffectiveCallLimit(durable, "jev"))
    BY <1>1, <1>2 DEF MustStop, Kinds
  <2>4. AttemptCount(durable, "jev") \in Nat /\ EffectiveCallLimit(durable, "jev") \in Nat
    <3>1. /\ durable.jevCalls \in Nat /\ Len(durable.rebuilds) \in Nat
          /\ Len(durable.retries) \in Nat
      BY <1>2, LedgerFields, LedgerLengths
    <3>2. MaxJev \in Nat
      BY BudgetAssumption
    <3>3. /\ AttemptCount(durable, "jev") = durable.jevCalls
          /\ EffectiveCallLimit(durable, "jev")
               = MaxJev + Len(durable.rebuilds) + Len(durable.retries)
      BY DEF AttemptCount, EffectiveCallLimit
    <3> QED BY <3>1, <3>2, <3>3, SumNatural
  <2> QED BY <2>2, <2>3, <2>4 DEF JevLeft
<1>8. "builder" \in Kinds /\ e \in Event /\ e.event # "support_retry_reserved"
  <2>1. "builder" \in Kinds
    BY DEF Kinds
  <2> QED BY <1>4, <2>1 DEF Event, CallReserved
<1>9. Residue(durable, e) = durable
  BY <1>8, NoResidue
<1>10. \A label : Goto(p, label) => Moves(p, label, run[p])
  BY <1>1, PlainMove
<1>11. ASSUME Logged(e, run[p].gen) PROVE FileOK' /\ RoomOK'
  <2>1. Room(2)
    BY <1>6, <1>7, BuildAssumption DEF Room
  <2> QED BY <1>1, <1>2, <1>4, <1>5, <1>8, <1>11, <2>1, ReservedFile
<1>12. CASE AppendError(p, e) /\ Goto(p, "failing")
  <2> HIDE DEF e
  <2> QED BY <1>1, <1>2, <1>3, <1>8, <1>9, <1>10, <1>11, <1>12, ErrorKeeps
<1>13. CASE Appended(p, e) /\ Goto(p, "builder_reserved")
  <2>1. /\ Logged(e, run[p].gen) /\ pc'[p] = "builder_reserved" /\ run'[p] = run[p]
        /\ "builder_reserved" \in Holding /\ HandleOK(p)'
    <3> HIDE DEF e
    <3> QED BY <1>1, <1>2, <1>3, <1>8, <1>9, <1>10, <1>13, RecordFacts
  <2> DEFINE c == [kind |-> "builder", unit |-> Unit(p)]
  <2>2. /\ durable'.calls = Append(durable.calls, c)
        /\ durable'.receipts = durable.receipts /\ durable'.jevCalls = durable.jevCalls
        /\ durable'.windows = durable.windows /\ durable'.committed = durable.committed
        /\ durable'.rebuilds = durable.rebuilds /\ durable'.retries = durable.retries
        /\ durable'.bound = durable.bound /\ durable'.failed = durable.failed
        /\ durable'.prepared = durable.prepared /\ durable'.published = durable.published
    <3>1. LET m == Apply(durable, CallReserved("builder", Unit(p))) IN
          /\ m.calls = Append(durable.calls, c)
          /\ m.receipts = durable.receipts
          /\ m.jevCalls = durable.jevCalls
          /\ SameWindows(m, durable) /\ SameAdmissions(m, durable) /\ SameFlags(m, durable)
          /\ SameOverlay(m, durable)
      BY <1>2, <1>8, ReservedFields
    <3> QED BY <2>1, <3>1 DEF Logged, SameWindows, SameAdmissions, SameFlags, SameOverlay
  <2>3. Live(durable) /\ Settled(durable)
    <3>1. CanReserve(durable, "builder")
      BY <2>1, AcceptsEach DEF Logged
    <3> QED BY <3>1 DEF CanReserve
  <2>4. c.kind = "builder" /\ c.unit = Unit(p) /\ durable.calls \in Seq(Hist!Call)
    BY <1>2, LedgerFields
  <2> HIDE DEF c
  <2>5. Len(durable'.calls) = n + 1 /\ durable'.calls[n + 1] = c /\ n \in Nat
    BY <2>2, <2>4, Appending
  <2>6. n = durable.committed /\ n = Len(durable.receipts)
    BY <1>5, <2>3 DEF Quiescent, Settled
  <2>7. Paying(durable', Unit(p))
    <3>1. durable' \in Hist!LedgerType
      BY <1>2, <1>8, <2>1, ApplyType DEF Logged
    <3> QED BY <2>2, <2>4, <2>5, <2>6, <3>1, PayingFirst
  <2>8. Live(durable') /\ Pending(durable') /\ JevLeft(durable')
    BY <1>7, <2>2, <2>3, <2>5, <2>6
    DEF Live, Pending, JevLeft, AttemptCount, EffectiveCallLimit
  <2>9. Len(log') + (6 + 2 * Retries) <= MaxRecords /\ Retries' = Retries
    <3>1. Len(log') = Len(log) + 1
      BY <1>2, <1>8, <2>1, EventKeeps DEF BuildTypeOK
    <3> QED BY <1>6, <1>7, <2>2, <3>1, BuildAssumption DEF Retries
  <2>10. \A i \in 1..Len(sent) : sent[i].call < Len(durable'.calls)
    <3>1. \A i \in 1..Len(sent) : sent[i].call \in 1..Len(durable.calls)
      BY DEF BuildInv, ReservedAndSentOnce
    <3> QED BY <2>5, <3>1
  <2>11. WindowOK(p)'
    <3>1. Unit(p)' = Unit(p)
      BY <2>1 DEF Unit
    <3>2. Len(durable'.calls) = durable'.committed + 1
      BY <2>2, <2>5, <2>6
    <3>3. Room(6 + 2 * Retries)'
      BY <2>9 DEF Room
    <3> QED BY <1>1, <1>4, <1>5, <2>1, <2>2, <2>7, <2>8, <2>10, <3>1, <3>2, <3>3
            DEF WindowOK
  <2>12. LoopOK(p)' /\ PublishOK(p)'
    BY <2>1 DEF LoopOK, PublishOK
  <2>13. ProcOK(p)'
    BY <2>1, <2>11, <2>12 DEF ProcOK
  <2> HIDE DEF e
  <2> QED BY <1>1, <1>2, <1>8, <1>9, <1>10, <1>11, <1>13, <2>1, <2>13, RecordKeeps
<1> QED BY <1>12, <1>13 DEF ReserveBuilder

\* What is known while a window is paid for.
LEMMA SendingFacts ==
    ASSUME BuildInv, NEW p \in Procs, pc[p] \in Sending
    PROVE  /\ pc[p] \in Working
           /\ run[p].ordinal \in Nat /\ run[p].reused \in Nat /\ run[p].rebuild = 0
           /\ run[p].reused <= run[p].ordinal
           /\ Unit(p) = run[p].ordinal + 1 /\ Unit(p) \in 1..UnitCount
           /\ Len(durable.windows) = run[p].ordinal /\ Len(durable.windows) < UnitCount
           /\ Live(durable) /\ durable.prepared = NoArtifact /\ Paying(durable, Unit(p))
           /\ durable.committed \in Nat /\ Len(durable.calls) \in Nat
           /\ Len(durable.receipts) \in Nat /\ Len(durable.retries) \in Nat
           /\ Retries \in Nat /\ Retries = SupportRetries - Len(durable.retries)
           /\ Len(log) \in Nat
<1>1. pc[p] \in Working
  BY DEF Working
<1>2. BuildTypeOK /\ Hist!CountInv /\ durable \in Hist!LedgerType /\ WindowOK(p)
      /\ run[p] \in Run
  BY <1>1, OpenFacts
<1>3. run[p].ordinal \in Nat /\ run[p].reused \in Nat /\ Unit(p) = run[p].ordinal + 1
  BY <1>2 DEF Run, Unit
<1>4. Unit(p) \in 1..UnitCount
  BY <1>2, <1>3, BuildAssumption DEF WindowOK
<1>5. Len(log) \in Nat
  BY <1>2 DEF BuildTypeOK
<1> QED BY <1>1, <1>2, <1>3, <1>4, <1>5, LedgerLengths, LedgerFields, RetriesLeft
        DEF WindowOK

\* A receipt changes nothing in what a window has been paid with so far.
LEMMA PayingFinished ==
    ASSUME NEW l \in Hist!LedgerType, NEW m, NEW unit, NEW outcome, Paying(l, unit),
           Pending(l), m.calls = l.calls, m.receipts = Append(l.receipts, outcome),
           m.committed = l.committed, m.retries = l.retries
    PROVE  /\ Paying(m, unit) /\ Settled(m)
           /\ m.receipts[Len(l.calls)] = outcome
<1>1. /\ l.committed \in Nat /\ Len(l.calls) \in Nat /\ Len(l.receipts) \in Nat
      /\ l.receipts \in Seq(Outcomes) /\ Len(l.calls) = Len(l.receipts) + 1
  BY LedgerFields, LedgerLengths DEF Pending
<1>2. /\ Len(m.receipts) = Len(l.receipts) + 1
      /\ m.receipts[Len(l.receipts) + 1] = outcome
      /\ \A i \in 1..Len(l.receipts) : m.receipts[i] = l.receipts[i]
  BY <1>1, Appending
<1>3. \A c \in (l.committed + 1)..(Len(l.calls) - 1) : m.receipts[c] = l.receipts[c]
  BY <1>1, <1>2
<1>4. Paying(m, unit)
  BY <1>3 DEF Paying, Retried
<1> QED BY <1>1, <1>2, <1>4 DEF Settled

\* The request of the reserved call leaves.
LEMMA SendStep ==
    ASSUME BuildInv, NEW p \in Procs, Send(p) PROVE BuildInv' /\ Follows
<1> DEFINE last == Len(durable.calls)
<1>1. PICK kind \in Kinds :
        /\ pc[p] = ReservedPc[kind]
        /\ sent' = Append(sent, [call |-> LastCall(p), kind |-> kind, unit |-> Unit(p)])
        /\ Goto(p, SentPc[kind])
        /\ UNCHANGED <<fileVars, world, lock, mem, poisoned, run, starts, report>>
  BY DEF Send
<1>2. \/ kind = "builder" /\ pc[p] = "builder_reserved" /\ Goto(p, "builder_sent")
      \/ kind = "jev" /\ pc[p] = "jev_reserved" /\ Goto(p, "jev_sent")
  BY <1>1 DEF Kinds, ReservedPc, SentPc
<1>3. /\ pc[p] \in Sending /\ pc[p] \in Working /\ pc[p] \in Working \cup Ending
      /\ SentPc[kind] \in Working /\ SentPc[kind] = IF kind = "builder" THEN "builder_sent"
                                                   ELSE "jev_sent"
      /\ pc[p] # "support"
      /\ UNCHANGED run
      /\ UNCHANGED <<exists, log, torn, mem, poisoned, generation, lock, report>>
      /\ pointer' = pointer
  BY <1>1, <1>2 DEF Sending, Working, SentPc, fileVars, world
<1>4. /\ run[p] \in Run /\ Moves(p, SentPc[kind], run[p]) /\ run[p].retry = 0
      /\ mem[p] = durable /\ WindowOK(p) /\ sent \in Seq(SentCall)
      /\ durable \in Hist!LedgerType /\ ReservedAndSentOnce
  BY <1>1, <1>3, PlainMove, WorkerFacts, OpenFacts DEF BuildInv, BuildTypeOK
<1>5. /\ durable' = durable /\ pc'[p] = SentPc[kind] /\ run'[p] = run[p]
      /\ SentPc[kind] \in Holding /\ HandleOK(p)'
  BY <1>3, <1>4, QuietFacts
<1> DEFINE call == [call |-> last, kind |-> kind, unit |-> Unit(p)]
<1>6. call \in SentCall /\ sent' = Append(sent, call)
  BY <1>1, <1>3, <1>4, SendingFacts DEF SentCall, LastCall
<1>7. last \in 1..last /\ durable.calls[last] = [kind |-> kind, unit |-> Unit(p)]
      /\ \A i \in 1..Len(sent) : sent[i].call < last
  <2>1. /\ durable.committed + 1 <= last /\ durable.calls[last].unit = Unit(p)
        /\ durable.calls[last].kind =
             IF last = durable.committed + 1 THEN "builder" ELSE "jev"
    BY <1>3, SendingFacts DEF Paying
  <2>2. durable.calls[last].kind = kind
    BY <1>2, <1>4, <2>1 DEF WindowOK
  <2>3. last \in 1..last
    BY <1>3, <2>1, SendingFacts
  <2>4. durable.calls[last] \in Hist!Call
    BY <1>4, <2>3, LedgerFields
  <2> QED BY <1>2, <1>4, <2>1, <2>2, <2>3, <2>4 DEF WindowOK, Hist!Call
<1>8. sent' \in Seq(SentCall) /\ ReservedAndSentOnce'
  <2>1. call.call = last /\ call.kind = kind /\ call.unit = Unit(p)
    OBVIOUS
  <2> HIDE DEF call
  <2>2. sent' \in Seq(SentCall)
    BY <1>4, <1>6
  <2>3. /\ Len(sent') = Len(sent) + 1 /\ sent'[Len(sent) + 1] = call /\ Len(sent) \in Nat
        /\ \A i \in 1..Len(sent) : sent'[i] = sent[i]
    BY <1>4, <1>6, Appending
  <2> SUFFICES ASSUME NEW i \in 1..Len(sent')
               PROVE  /\ sent'[i].call \in 1..Len(durable'.calls)
                      /\ durable'.calls[sent'[i].call] = [kind |-> sent'[i].kind,
                                                          unit |-> sent'[i].unit]
                      /\ \A j \in 1..(i - 1) : sent'[j].call < sent'[i].call
    BY <2>2 DEF ReservedAndSentOnce
  <2>4. CASE i = Len(sent) + 1
    BY <1>5, <1>7, <2>1, <2>3, <2>4
  <2>5. CASE i # Len(sent) + 1
    <3>1. i \in 1..Len(sent) /\ \A j \in 1..(i - 1) : j \in 1..Len(sent)
      BY <2>3, <2>5
    <3>2. /\ sent[i].call \in 1..Len(durable.calls)
          /\ durable.calls[sent[i].call] = [kind |-> sent[i].kind, unit |-> sent[i].unit]
          /\ \A j \in 1..(i - 1) : sent[j].call < sent[i].call
      BY <1>4, <3>1 DEF ReservedAndSentOnce
    <3> QED BY <1>5, <2>3, <3>1, <3>2
  <2> QED BY <2>4, <2>5
<1>9. PublishedWasPrepared'
  BY <1>3, <1>5 DEF BuildInv, SaidOK, PublishedWasPrepared
<1>10. ProcOK(p)'
  <2>1. Retries' = Retries /\ Unit(p)' = Unit(p) /\ log' = log
    BY <1>3, <1>5 DEF Retries, Unit
  <2>2. WindowOK(p)'
    BY <1>2, <1>3, <1>4, <1>5, <2>1 DEF WindowOK, Room
  <2>3. LoopOK(p)' /\ PublishOK(p)'
    BY <1>3, <1>5 DEF LoopOK, PublishOK
  <2> QED BY <1>5, <2>2, <2>3 DEF ProcOK
<1> QED BY <1>3, <1>4, <1>5, <1>8, <1>9, <1>10, QuietKeeps

\* An answer is recorded while a window is paid for.
LEMMA Received ==
    ASSUME BuildInv, NEW p \in Procs, pc[p] \in Sending, Pending(durable),
           NEW outcome \in Outcomes, Logged(CallFinished(outcome), run[p].gen), Room(2)
    PROVE  /\ FileOK' /\ RoomOK'
           /\ durable'.windows = durable.windows /\ durable'.prepared = NoArtifact
           /\ durable'.calls = durable.calls /\ durable'.committed = durable.committed
           /\ durable'.jevCalls = durable.jevCalls /\ durable'.rebuilds = durable.rebuilds
           /\ durable'.retries = durable.retries /\ Retries' = Retries
           /\ Live(durable') /\ Settled(durable') /\ Paying(durable', Unit(p))
           /\ durable'.receipts[Len(durable.calls)] = outcome
           /\ Len(log') = Len(log) + 1
<1> DEFINE e == CallFinished(outcome)
<1>1. /\ BuildTypeOK /\ FileOK /\ Hist!CountInv /\ durable \in Hist!LedgerType
      /\ Live(durable) /\ durable.prepared = NoArtifact /\ Paying(durable, Unit(p))
  BY SendingFacts, OpenFacts
<1>2. e \in Event
  BY DEF Event
<1>3. LET m == Apply(durable, CallFinished(outcome)) IN
      /\ m.receipts = Append(durable.receipts, outcome)
      /\ m.calls = durable.calls
      /\ m.builderCalls = durable.builderCalls /\ m.jevCalls = durable.jevCalls
      /\ SameWindows(m, durable) /\ SameAdmissions(m, durable) /\ SameFlags(m, durable)
      /\ SameOverlay(m, durable)
  BY <1>1, FinishedFields
<1>4. /\ durable'.receipts = Append(durable.receipts, outcome)
      /\ durable'.calls = durable.calls /\ durable'.jevCalls = durable.jevCalls
      /\ durable'.windows = durable.windows /\ durable'.committed = durable.committed
      /\ durable'.rebuilds = durable.rebuilds /\ durable'.retries = durable.retries
      /\ durable'.bound = durable.bound /\ durable'.failed = durable.failed
      /\ durable'.prepared = durable.prepared /\ durable'.published = durable.published
  BY <1>3 DEF Logged, SameWindows, SameAdmissions, SameFlags, SameOverlay
<1>5. /\ Paying(durable', Unit(p)) /\ Settled(durable')
      /\ durable'.receipts[Len(durable.calls)] = outcome
  BY <1>1, <1>4, PayingFinished
<1>6. Live(durable') /\ Retries' = Retries
  BY <1>1, <1>4 DEF Live, Retries
<1>7. FileOK' /\ RoomOK'
  BY <1>1, FinishedFile
<1>8. Len(log') = Len(log) + 1
  <2>1. Logged(e, run[p].gen) /\ log \in Seq(Event)
    BY <1>1 DEF BuildTypeOK
  <2> HIDE DEF e
  <2> QED BY <1>1, <1>2, <2>1, EventKeeps
<1> QED BY <1>1, <1>4, <1>5, <1>6, <1>7, <1>8

\* The builder has answered.
LEMMA BuilderReplyStep ==
    ASSUME BuildInv, NEW p \in Procs, BuilderReply(p) PROVE BuildInv' /\ Follows
<1> DEFINE first == durable.committed + 1
           last  == Len(durable.calls)
<1>1. PICK outcome \in Outcomes :
        \/ /\ Appended(p, CallFinished(outcome))
           /\ IF outcome = "ok"
              THEN \E label \in {"support", "window"} : Goto(p, label)
              ELSE Goto(p, "failing")
        \/ /\ AppendError(p, CallFinished(outcome))
           /\ Goto(p, "failing")
  BY DEF BuilderReply
<1> DEFINE e == CallFinished(outcome)
<1>2. /\ pc[p] = "builder_sent" /\ pc[p] \in Sending /\ pc[p] \in Working \cup Ending
      /\ "support" \in Working /\ "window" \in Working /\ "failing" \in Ending
      /\ UNCHANGED run /\ UNCHANGED <<generation, pointer, lock, report, sent>>
  BY DEF BuilderReply, Working, Sending, Ending, world
<1>3. /\ pc[p] \in Working
      /\ run[p].ordinal \in Nat /\ run[p].reused \in Nat /\ run[p].rebuild = 0
      /\ run[p].reused <= run[p].ordinal /\ Unit(p) = run[p].ordinal + 1
      /\ Len(durable.windows) = run[p].ordinal /\ Len(durable.windows) < UnitCount
      /\ Retries \in Nat /\ Len(log) \in Nat
  BY <1>2, SendingFacts
<1>4. /\ BuildTypeOK /\ FileOK /\ Hist!CountInv /\ WindowOK(p) /\ run[p] \in Run
      /\ mem[p] = durable /\ ~poisoned[p] /\ durable \in Hist!LedgerType
  BY <1>3, OpenFacts
<1>5. run[p].retry = 0
  BY <1>2, <1>3, WorkerFacts
<1>6. /\ Pending(durable) /\ last = first /\ JevLeft(durable)
      /\ Len(log) + (6 + 2 * Retries) <= MaxRecords
  BY <1>2, <1>4 DEF WindowOK, Room
<1>7. e \in Event /\ Residue(durable, e) = durable
  <2>1. e \in Event
    BY DEF Event
  <2>2. e.event # "support_retry_reserved"
    BY DEF CallFinished
  <2> HIDE DEF e
  <2> QED BY <2>1, <2>2, NoResidue
<1>8. \A label : Goto(p, label) => Moves(p, label, run[p])
  BY <1>2, PlainMove
<1>9. Room(2)
  BY <1>3, <1>6, BuildAssumption DEF Room
<1>10. ASSUME Logged(e, run[p].gen)
       PROVE  FileOK' /\ RoomOK'
  BY <1>2, <1>6, <1>9, <1>10, Received
<1>11. CASE AppendError(p, e) /\ Goto(p, "failing")
  <2> HIDE DEF e
  <2> QED BY <1>2, <1>4, <1>5, <1>7, <1>8, <1>10, <1>11, ErrorKeeps
<1>12. ASSUME Appended(p, e), NEW label \in {"support", "window", "failing"},
              Goto(p, label), label # "failing" => outcome = "ok"
       PROVE  BuildInv' /\ Follows
  <2>1. Moves(p, label, run[p]) /\ label \in Working \cup Ending
    BY <1>2, <1>8, <1>12
  <2>2. /\ Logged(e, run[p].gen) /\ pc'[p] = label /\ run'[p] = run[p]
        /\ label \in Holding /\ HandleOK(p)'
        /\ label \in Ending => ProcOK(p)'
    <3> HIDE DEF e
    <3> QED BY <1>3, <1>4, <1>5, <1>7, <1>12, <2>1, RecordFacts
  <2>3. /\ FileOK' /\ RoomOK'
        /\ durable'.windows = durable.windows /\ durable'.prepared = NoArtifact
        /\ durable'.calls = durable.calls /\ durable'.committed = durable.committed
        /\ durable'.jevCalls = durable.jevCalls /\ durable'.rebuilds = durable.rebuilds
        /\ durable'.retries = durable.retries /\ Retries' = Retries
        /\ Live(durable') /\ Settled(durable') /\ Paying(durable', Unit(p))
        /\ durable'.receipts[Len(durable.calls)] = outcome
        /\ Len(log') = Len(log) + 1
    BY <1>2, <1>6, <1>9, <2>2, Received
  <2>4. ASSUME label # "failing" PROVE ProcOK(p)'
    <3>1. JevLeft(durable')
      BY <1>6, <2>3 DEF JevLeft, AttemptCount, EffectiveCallLimit
    <3>2. Room(5 + 2 * Retries)' /\ Room(3)'
      <4>1. Len(log') + (5 + 2 * Retries) <= MaxRecords /\ Len(log') + 3 <= MaxRecords
        BY <1>3, <1>6, <2>3, BuildAssumption
      <4> QED BY <2>3, <4>1 DEF Room
    <3>3. Unit(p)' = Unit(p) /\ outcome = "ok"
      BY <1>12, <2>2, <2>4 DEF Unit
    <3>4. pc'[p] \in {"support", "window"} /\ pc'[p] # "loop"
      BY <1>12, <2>2, <2>4
    <3>5. WindowOK(p)'
      BY <1>3, <1>5, <1>6, <2>2, <2>3, <3>1, <3>2, <3>3, <3>4 DEF WindowOK
    <3>6. LoopOK(p)' /\ PublishOK(p)'
      BY <3>4 DEF LoopOK, PublishOK
    <3> QED BY <2>2, <3>5, <3>6 DEF ProcOK
  <2>5. ProcOK(p)'
    BY <1>2, <2>2, <2>4
  <2> HIDE DEF e
  <2> QED BY <1>2, <1>4, <1>7, <1>12, <2>1, <2>2, <2>3, <2>5, RecordKeeps
<1> QED
  <2>1. CASE Appended(p, e) /\ Goto(p, "failing")
    BY <1>12, <2>1
  <2>2. CASE /\ Appended(p, e) /\ outcome = "ok"
             /\ \E label \in {"support", "window"} : Goto(p, label)
    BY <1>12, <2>2
  <2> QED BY <1>1, <1>11, <2>1, <2>2

\* One more Jev call: the first after the builder's, or the retry of the last.
LEMMA PayingMore ==
    ASSUME NEW l \in Hist!LedgerType, NEW m, NEW unit, Paying(l, unit), Settled(l),
           m.calls = Append(l.calls, [kind |-> "jev", unit |-> unit]),
           m.receipts = l.receipts, m.committed = l.committed,
           \/ /\ Len(l.calls) = l.committed + 1 /\ l.receipts[Len(l.calls)] = "ok"
              /\ m.retries = l.retries
           \/ /\ l.calls[Len(l.calls)].kind = "jev" /\ l.receipts[Len(l.calls)] # "ok"
              /\ m.retries = Append(l.retries, Len(l.calls))
    PROVE  Paying(m, unit) /\ Pending(m) /\ Len(m.calls) = Len(l.calls) + 1
<1> DEFINE call == [kind |-> "jev", unit |-> unit]
           first == l.committed + 1
           last  == Len(l.calls)
<1>1. /\ l.committed \in Nat /\ last \in Nat /\ Len(l.receipts) = last
      /\ l.calls \in Seq(Hist!Call) /\ l.retries \in Seq(Nat) /\ Len(l.retries) \in Nat
  BY LedgerFields, LedgerLengths DEF Settled
<1>2. call.kind = "jev" /\ call.unit = unit
  OBVIOUS
<1> HIDE DEF call
<1>3. /\ Len(m.calls) = last + 1 /\ m.calls[last + 1] = call
      /\ \A i \in 1..last : m.calls[i] = l.calls[i]
  <2>1. m.calls = Append(l.calls, call)
    BY DEF call
  <2> QED BY <1>1, <2>1, Appending
<1>4. /\ first <= last /\ last <= first + 1 + Len(l.retries)
      /\ \A c \in first..last :
           /\ l.calls[c].unit = unit
           /\ l.calls[c].kind = IF c = first THEN "builder" ELSE "jev"
      /\ \A c \in first..(last - 1) :
           IF c = first THEN l.receipts[c] = "ok"
           ELSE l.receipts[c] # "ok" /\ Retried(l, c)
  BY DEF Paying
<1>5. /\ \A c \in Nat : Retried(l, c) => Retried(m, c)
      /\ \/ last = first /\ l.receipts[last] = "ok" /\ Len(m.retries) = Len(l.retries)
         \/ /\ last # first /\ l.receipts[last] # "ok" /\ Retried(m, last)
            /\ Len(m.retries) = Len(l.retries) + 1
  <2>1. CASE last = first /\ l.receipts[last] = "ok" /\ m.retries = l.retries
    BY <2>1 DEF Retried
  <2>2. CASE /\ l.calls[last].kind = "jev" /\ l.receipts[last] # "ok"
             /\ m.retries = Append(l.retries, last)
    <3>1. /\ Len(m.retries) = Len(l.retries) + 1 /\ m.retries[Len(l.retries) + 1] = last
          /\ \A i \in 1..Len(l.retries) : m.retries[i] = l.retries[i]
      BY <1>1, <2>2, Appending
    <3>2. Retried(m, last) /\ \A c \in Nat : Retried(l, c) => Retried(m, c)
      <4>1. Len(l.retries) + 1 \in 1..Len(m.retries)
        BY <1>1, <3>1
      <4>2. Retried(m, last)
        BY <3>1, <4>1 DEF Retried
      <4>3. \A i \in 1..Len(l.retries) : i \in 1..Len(m.retries)
        BY <1>1, <3>1
      <4>4. ASSUME NEW c \in Nat, Retried(l, c) PROVE Retried(m, c)
        <5>1. PICK i \in 1..Len(l.retries) : l.retries[i] = c
          BY <4>4 DEF Retried
        <5>2. i \in 1..Len(m.retries) /\ m.retries[i] = c
          BY <3>1, <4>3, <5>1
        <5> QED BY <5>2 DEF Retried
      <4> QED BY <4>2, <4>4
    <3>3. last # first
      BY <1>1, <1>4, <2>2
    <3> QED BY <2>2, <3>1, <3>2, <3>3
  <2> QED BY <2>1, <2>2
<1>6. first <= last + 1 /\ last + 1 <= first + 1 + Len(m.retries)
  BY <1>1, <1>4, <1>5
<1>7. ASSUME NEW c \in first..(last + 1)
      PROVE  /\ m.calls[c].unit = unit
             /\ m.calls[c].kind = IF c = first THEN "builder" ELSE "jev"
  BY <1>1, <1>2, <1>3, <1>4
<1>8. ASSUME NEW c \in first..last
      PROVE  IF c = first THEN m.receipts[c] = "ok"
             ELSE m.receipts[c] # "ok" /\ Retried(m, c)
  <2>1. CASE c = last
    BY <1>1, <1>4, <1>5, <2>1
  <2>2. CASE c # last
    <3>1. c \in first..(last - 1) /\ c \in Nat
      BY <1>1, <2>2
    <3> QED BY <1>4, <1>5, <3>1
  <2> QED BY <2>1, <2>2
<1>9. Paying(m, unit)
  <2>1. m.committed + 1 = first /\ Len(m.calls) = last + 1 /\ Len(m.calls) - 1 = last
    BY <1>1, <1>3
  <2> HIDE DEF first, last
  <2> QED BY <1>6, <1>7, <1>8, <2>1 DEF Paying
<1> QED BY <1>1, <1>3, <1>9 DEF Pending

\* What is left to write when the first Jev call of a window is to be made.
LEMMA SupportRoom ==
    ASSUME NEW n \in Nat, NEW max \in Nat, NEW r \in Nat, n + (5 + 2 * r) <= max
    PROVE  n + 1 + (4 + 2 * r) <= max /\ n + 2 <= max
  OBVIOUS

\* What is left to write when the last Jev call is to be retried.
LEMMA RetryRoom ==
    ASSUME NEW n \in Nat, NEW max \in Nat, NEW all \in Nat, NEW used \in Nat, used < all,
           n + (3 + 2 * (all - used)) <= max
    PROVE  n + 1 + (4 + 2 * (all - (used + 1))) <= max /\ n + 2 <= max
  OBVIOUS

\* A support call is reserved, and afterwards the window is paid for one call further.
LEMMA SupportReserved ==
    ASSUME BuildInv, NEW p \in Procs, pc[p] = "support", NEW e \in Event,
           e = IF run[p].retry = 0 THEN CallReserved("jev", Unit(p))
               ELSE RetryReserved(run[p].retry, Unit(p)),
           Logged(e, run[p].gen)
    PROVE  /\ FileOK' /\ RoomOK'
           /\ durable'.windows = durable.windows /\ durable'.prepared = NoArtifact
           /\ durable'.committed = durable.committed
           /\ Len(durable'.calls) = Len(durable.calls) + 1
           /\ Live(durable') /\ Pending(durable') /\ Paying(durable', Unit(p))
           /\ Room(4 + 2 * Retries)'
<1> DEFINE last == Len(durable.calls)
           first == durable.committed + 1
<1>1. pc[p] \in Sending
  BY DEF Sending
<1>2. /\ pc[p] \in Working /\ Unit(p) \in 1..UnitCount
      /\ Len(durable.windows) < UnitCount
      /\ Live(durable) /\ durable.prepared = NoArtifact /\ Paying(durable, Unit(p))
      /\ durable.committed \in Nat /\ Len(durable.calls) \in Nat
      /\ Len(durable.retries) \in Nat
      /\ Retries \in Nat /\ Retries = SupportRetries - Len(durable.retries)
      /\ Len(log) \in Nat
  BY <1>1, SendingFacts
<1>3. /\ BuildTypeOK /\ FileOK /\ Hist!CountInv /\ durable \in Hist!LedgerType
      /\ WindowOK(p) /\ run[p] \in Run
  BY <1>2, OpenFacts
<1>4. /\ Settled(durable)
      /\ IF run[p].retry = 0
         THEN last = first /\ durable.receipts[last] = "ok" /\ Room(5 + 2 * Retries)
         ELSE run[p].retry = last /\ CanRetry(durable, last) /\ Room(3 + 2 * Retries)
  BY <1>3 DEF WindowOK
<1>5. Len(log') = Len(log) + 1
  BY <1>3, EventKeeps DEF BuildTypeOK
<1>6. CASE run[p].retry = 0
  <2>1. "jev" \in Kinds /\ Logged(CallReserved("jev", Unit(p)), run[p].gen)
    BY <1>6 DEF Kinds
  <2>2. LET m == Apply(durable, CallReserved("jev", Unit(p))) IN
        /\ m.calls = Append(durable.calls, [kind |-> "jev", unit |-> Unit(p)])
        /\ m.receipts = durable.receipts
        /\ SameWindows(m, durable) /\ SameAdmissions(m, durable) /\ SameFlags(m, durable)
        /\ SameOverlay(m, durable)
    BY <1>3, <2>1, ReservedFields
  <2>3. /\ durable'.calls = Append(durable.calls, [kind |-> "jev", unit |-> Unit(p)])
        /\ durable'.receipts = durable.receipts
        /\ durable'.windows = durable.windows /\ durable'.committed = durable.committed
        /\ durable'.retries = durable.retries
        /\ durable'.bound = durable.bound /\ durable'.failed = durable.failed
        /\ durable'.prepared = durable.prepared /\ durable'.published = durable.published
    BY <2>1, <2>2 DEF Logged, SameWindows, SameAdmissions, SameFlags, SameOverlay
  <2>4. /\ Paying(durable', Unit(p)) /\ Pending(durable')
        /\ Len(durable'.calls) = Len(durable.calls) + 1
    BY <1>2, <1>3, <1>4, <1>6, <2>3, PayingMore
  <2>5. Len(log) + (5 + 2 * Retries) <= MaxRecords
    BY <1>4, <1>6 DEF Room
  <2>6. Retries' = Retries
    BY <2>3 DEF Retries
  <2>7. Room(2) /\ Len(log') + (4 + 2 * Retries) <= MaxRecords
    <3>1. MaxRecords \in Nat
      BY BuildAssumption
    <3> QED BY <1>2, <1>5, <2>5, <3>1, SupportRoom DEF Room
  <2>8. FileOK' /\ RoomOK'
    BY <1>2, <1>3, <2>1, <2>7, ReservedFile
  <2>9. Room(4 + 2 * Retries)'
    BY <2>6, <2>7 DEF Room
  <2> QED BY <1>2, <2>3, <2>4, <2>8, <2>9 DEF Live
<1>7. CASE run[p].retry # 0
  <2>1. /\ run[p].retry = last /\ CanRetry(durable, last)
        /\ Logged(RetryReserved(last, Unit(p)), run[p].gen)
    BY <1>4, <1>7
  <2>2. LET m == Apply(durable, RetryReserved(last, Unit(p))) IN
        /\ m.calls = Append(durable.calls, [kind |-> "jev", unit |-> Unit(p)])
        /\ m.receipts = durable.receipts
        /\ m.retries = Append(durable.retries, last)
        /\ SameWindows(m, durable) /\ SameFlags(m, durable) /\ SameOverlay(m, durable)
    BY <1>3, RetriedFields
  <2>3. /\ durable'.calls = Append(durable.calls, [kind |-> "jev", unit |-> Unit(p)])
        /\ durable'.receipts = durable.receipts
        /\ durable'.windows = durable.windows /\ durable'.committed = durable.committed
        /\ durable'.retries = Append(durable.retries, last)
        /\ durable'.bound = durable.bound /\ durable'.failed = durable.failed
        /\ durable'.prepared = durable.prepared /\ durable'.published = durable.published
    BY <2>1, <2>2 DEF Logged, SameWindows, SameFlags, SameOverlay
  <2>4. /\ Paying(durable', Unit(p)) /\ Pending(durable')
        /\ Len(durable'.calls) = Len(durable.calls) + 1
    <3>1. durable.calls[last].kind = "jev" /\ durable.receipts[last] # "ok"
      BY <2>1 DEF CanRetry
    <3> QED BY <1>2, <1>3, <1>4, <2>3, <3>1, PayingMore
  <2>5. Len(durable'.retries) = Len(durable.retries) + 1
    BY <1>3, <2>3, LedgerFields, Appending
  <2>6. Len(log) + (3 + 2 * (SupportRetries - Len(durable.retries))) <= MaxRecords
    BY <1>2, <1>4, <1>7 DEF Room
  <2>7. Len(durable.retries) < SupportRetries
    BY <2>1 DEF CanRetry
  <2>8. /\ Len(log) + 1 + (4 + 2 * (SupportRetries - (Len(durable.retries) + 1)))
             <= MaxRecords
        /\ Len(log) + 2 <= MaxRecords
    <3>1. SupportRetries \in Nat /\ MaxRecords \in Nat
      BY BudgetAssumption, BuildAssumption
    <3> QED BY <1>2, <2>6, <2>7, <3>1, RetryRoom
  <2>9. FileOK' /\ RoomOK'
    BY <1>2, <1>3, <2>1, <2>8, RetriedFile DEF Room
  <2>10. Room(4 + 2 * Retries)'
    BY <1>5, <2>5, <2>8 DEF Room, Retries
  <2> QED BY <1>2, <2>3, <2>4, <2>9, <2>10 DEF Live
<1> QED BY <1>6, <1>7

\* The support call is reserved, or its retry.
LEMMA ReserveSupportStep ==
    ASSUME BuildInv, NEW p \in Procs, ReserveSupport(p) PROVE BuildInv' /\ Follows
<1> DEFINE e == IF run[p].retry = 0 THEN CallReserved("jev", Unit(p))
                ELSE RetryReserved(run[p].retry, Unit(p))
           r == [run[p] EXCEPT !.retry = 0]
<1>1. /\ pc[p] = "support" /\ pc[p] \in Sending /\ pc[p] \in Working \cup Ending
      /\ "jev_reserved" \in Working /\ "failing" \in Ending
      /\ UNCHANGED <<generation, pointer, lock, report, sent>>
      /\ \/ Appended(p, e) /\ Goto(p, "jev_reserved")
         \/ AppendError(p, e) /\ Goto(p, "failing")
  BY DEF ReserveSupport, Working, Sending, Ending, world
<1>2. /\ pc[p] \in Working /\ Unit(p) \in 1..UnitCount
      /\ run[p].ordinal \in Nat /\ run[p].reused \in Nat /\ run[p].rebuild = 0
      /\ run[p].reused <= run[p].ordinal /\ Unit(p) = run[p].ordinal + 1
      /\ Len(durable.windows) = run[p].ordinal /\ Len(durable.windows) < UnitCount
      /\ Live(durable) /\ durable.prepared = NoArtifact /\ Paying(durable, Unit(p))
      /\ durable.committed \in Nat /\ Len(durable.calls) \in Nat
  BY <1>1, SendingFacts
<1>3. /\ BuildTypeOK /\ FileOK /\ Hist!CountInv /\ WindowOK(p) /\ run[p] \in Run
      /\ mem[p] = durable /\ ~poisoned[p] /\ durable \in Hist!LedgerType
  BY <1>2, OpenFacts
<1>4. /\ r \in Run /\ r.retry = 0 /\ r.gen = run[p].gen /\ r.ordinal = run[p].ordinal
      /\ r.reused = run[p].reused /\ r.rebuild = run[p].rebuild
  BY <1>3 DEF Run
<1>5. run' = [run EXCEPT ![p] = r]
  BY <1>3 DEF ReserveSupport, Set, BuildTypeOK
<1>6. \A label : Goto(p, label) => Moves(p, label, r)
  BY <1>5 DEF Moves, Goto
<1>7. e \in Event /\ Residue(durable, e) = durable
  <2>1. CASE run[p].retry = 0
    <3>1. e = CallReserved("jev", Unit(p)) /\ "jev" \in Kinds
      BY <2>1 DEF Kinds
    <3>2. CallReserved("jev", Unit(p)).event # "support_retry_reserved"
      BY DEF CallReserved
    <3>3. e \in Event
      BY <1>2, <3>1 DEF Event
    <3> HIDE DEF e
    <3> QED BY <3>1, <3>2, <3>3, NoResidue
  <2>2. CASE run[p].retry # 0
    <3>1. e = RetryReserved(run[p].retry, Unit(p)) /\ run[p].retry \in Nat
      BY <1>3, <2>2 DEF Run
    <3>2. e \in Event
      BY <1>2, <3>1 DEF Event
    <3>3. CanRetry(durable, run[p].retry)
      BY <1>1, <1>3, <2>2 DEF WindowOK
    <3>4. CanReserve(AdmitRetry(durable, run[p].retry), "jev")
      BY <1>2, <1>3, <3>3, RetryAdmitted
    <3>5. Residue(durable, RetryReserved(run[p].retry, Unit(p))) = durable
      BY <3>4 DEF Residue, RetryReserved
    <3> HIDE DEF e
    <3> QED BY <3>1, <3>2, <3>5
  <2> QED BY <2>1, <2>2
<1>8. ASSUME Logged(e, run[p].gen)
      PROVE  /\ FileOK' /\ RoomOK'
             /\ durable'.windows = durable.windows /\ durable'.prepared = NoArtifact
             /\ durable'.committed = durable.committed
             /\ Len(durable'.calls) = Len(durable.calls) + 1
             /\ Live(durable') /\ Pending(durable') /\ Paying(durable', Unit(p))
             /\ Room(4 + 2 * Retries)'
  <2>1. e = IF run[p].retry = 0 THEN CallReserved("jev", Unit(p))
            ELSE RetryReserved(run[p].retry, Unit(p))
    OBVIOUS
  <2> HIDE DEF e
  <2> QED BY <1>1, <1>7, <1>8, <2>1, SupportReserved
<1> HIDE DEF e, r
<1>9. CASE AppendError(p, e) /\ Goto(p, "failing")
  BY <1>1, <1>3, <1>4, <1>6, <1>7, <1>8, <1>9, ErrorKeeps
<1>10. CASE Appended(p, e) /\ Goto(p, "jev_reserved")
  <2>1. /\ Logged(e, run[p].gen) /\ pc'[p] = "jev_reserved" /\ run'[p] = r
        /\ "jev_reserved" \in Holding /\ HandleOK(p)'
    BY <1>1, <1>2, <1>3, <1>4, <1>6, <1>7, <1>10, RecordFacts
  <2>2. \A i \in 1..Len(sent) : sent[i].call < Len(durable'.calls)
    <3>1. \A i \in 1..Len(sent) : sent[i].call \in 1..Len(durable.calls)
      BY DEF BuildInv, ReservedAndSentOnce
    <3> QED BY <1>2, <1>8, <2>1, <3>1
  <2>3. Unit(p)' = Unit(p)
    BY <1>4, <2>1 DEF Unit
  <2>4. Len(durable'.calls) > durable'.committed + 1
    <3>1. durable.committed + 1 <= Len(durable.calls)
      BY <1>2 DEF Paying
    <3> QED BY <1>2, <1>8, <2>1, <3>1
  <2>5. WindowOK(p)'
    BY <1>1, <1>2, <1>4, <1>8, <2>1, <2>2, <2>3, <2>4 DEF WindowOK
  <2>6. LoopOK(p)' /\ PublishOK(p)'
    BY <2>1 DEF LoopOK, PublishOK
  <2>7. ProcOK(p)'
    BY <2>1, <2>5, <2>6 DEF ProcOK
  <2> QED BY <1>1, <1>3, <1>4, <1>6, <1>7, <1>8, <1>10, <2>1, <2>7, RecordKeeps
<1> QED BY <1>1, <1>9, <1>10

\* What is left to write when a Jev call has been answered.
LEMMA AnswerRoom ==
    ASSUME NEW n \in Nat, NEW max \in Nat, NEW r \in Nat, n + (4 + 2 * r) <= max
    PROVE  n + 1 + (3 + 2 * r) <= max /\ n + 1 + 3 <= max /\ n + 2 <= max
  OBVIOUS

\* The support call has been answered.
LEMMA SupportReplyStep ==
    ASSUME BuildInv, NEW p \in Procs, SupportReply(p) PROVE BuildInv' /\ Follows
<1> DEFINE first == durable.committed + 1
           last  == Len(durable.calls)
           r     == [run[p] EXCEPT !.retry = last]
<1>1. PICK outcome \in Outcomes :
        \/ /\ Appended(p, CallFinished(outcome))
           /\ IF outcome = "ok"
              THEN Goto(p, "window") /\ UNCHANGED run
              ELSE IF CanRetry(mem'[p], LastCall(p))
              THEN Goto(p, "support") /\ Set(p, "retry", LastCall(p))
              ELSE Goto(p, "failing") /\ UNCHANGED run
        \/ /\ AppendError(p, CallFinished(outcome))
           /\ Goto(p, "failing")
           /\ UNCHANGED run
  BY DEF SupportReply
<1> DEFINE e == CallFinished(outcome)
<1>2. /\ pc[p] = "jev_sent" /\ pc[p] \in Sending /\ pc[p] \in Working \cup Ending
      /\ pc[p] # "support"
      /\ "support" \in Working /\ "window" \in Working /\ "failing" \in Ending
      /\ UNCHANGED <<generation, pointer, lock, report, sent>>
  BY DEF SupportReply, Working, Sending, Ending, world
<1>3. /\ pc[p] \in Working
      /\ run[p].ordinal \in Nat /\ run[p].reused \in Nat /\ run[p].rebuild = 0
      /\ run[p].reused <= run[p].ordinal /\ Unit(p) = run[p].ordinal + 1
      /\ Len(durable.windows) = run[p].ordinal /\ Len(durable.windows) < UnitCount
      /\ Retries \in Nat /\ Len(log) \in Nat /\ last \in Nat
  BY <1>2, SendingFacts
<1>4. /\ BuildTypeOK /\ FileOK /\ Hist!CountInv /\ WindowOK(p) /\ run[p] \in Run
      /\ mem[p] = durable /\ ~poisoned[p] /\ durable \in Hist!LedgerType
  BY <1>3, OpenFacts
<1>5. run[p].retry = 0
  BY <1>2, <1>3, WorkerFacts
<1>6. Pending(durable) /\ Len(log) + (4 + 2 * Retries) <= MaxRecords
  BY <1>2, <1>4 DEF WindowOK, Room
<1>7. e \in Event /\ Residue(durable, e) = durable
  <2>1. e \in Event
    BY DEF Event
  <2>2. e.event # "support_retry_reserved"
    BY DEF CallFinished
  <2> HIDE DEF e
  <2> QED BY <2>1, <2>2, NoResidue
<1>8. \A label : Goto(p, label) /\ UNCHANGED run => Moves(p, label, run[p])
  BY <1>2, PlainMove
<1>9. /\ Room(2) /\ Len(log) + 1 + (3 + 2 * Retries) <= MaxRecords
      /\ Len(log) + 1 + 3 <= MaxRecords
  <2>1. MaxRecords \in Nat
    BY BuildAssumption
  <2> QED BY <1>3, <1>6, <2>1, AnswerRoom DEF Room
<1>10. ASSUME Logged(e, run[p].gen)
       PROVE  /\ FileOK' /\ RoomOK'
              /\ durable'.windows = durable.windows /\ durable'.prepared = NoArtifact
              /\ durable'.calls = durable.calls /\ Retries' = Retries
              /\ Live(durable') /\ Settled(durable') /\ Paying(durable', Unit(p))
              /\ durable'.receipts[last] = outcome
              /\ Len(log') = Len(log) + 1
  BY <1>2, <1>6, <1>9, <1>10, Received
<1>11. CASE AppendError(p, e) /\ Goto(p, "failing") /\ UNCHANGED run
  <2>1. Moves(p, "failing", run[p]) /\ (Logged(e, run[p].gen) => FileOK' /\ RoomOK')
    BY <1>8, <1>10, <1>11
  <2> HIDE DEF e
  <2> QED BY <1>2, <1>4, <1>5, <1>7, <1>11, <2>1, ErrorKeeps
<1>12. /\ r \in Run /\ r.retry = last /\ r.gen = run[p].gen /\ r.ordinal = run[p].ordinal
       /\ r.reused = run[p].reused /\ r.rebuild = run[p].rebuild
  BY <1>3, <1>4 DEF Run
<1>13. CASE Appended(p, e) /\ outcome = "ok" /\ Goto(p, "window") /\ UNCHANGED run
  <2>1. Moves(p, "window", run[p])
    BY <1>8, <1>13
  <2>2. /\ Logged(e, run[p].gen) /\ pc'[p] = "window" /\ run'[p] = run[p]
        /\ "window" \in Holding /\ HandleOK(p)'
    <3> HIDE DEF e
    <3> QED BY <1>2, <1>3, <1>4, <1>5, <1>7, <1>13, <2>1, RecordFacts
  <2>3. Room(3)'
    BY <1>9, <1>10, <2>2 DEF Room
  <2>4. Unit(p)' = Unit(p)
    BY <2>2 DEF Unit
  <2>5. WindowOK(p)'
    BY <1>3, <1>10, <1>13, <2>2, <2>3, <2>4 DEF WindowOK
  <2>6. LoopOK(p)' /\ PublishOK(p)'
    BY <2>2 DEF LoopOK, PublishOK
  <2>7. ProcOK(p)' /\ FileOK' /\ RoomOK'
    BY <1>10, <2>2, <2>5, <2>6 DEF ProcOK
  <2> HIDE DEF e
  <2> QED BY <1>2, <1>4, <1>7, <1>13, <2>1, <2>2, <2>7, RecordKeeps
<1>14. CASE /\ Appended(p, e) /\ CanRetry(mem'[p], LastCall(p))
            /\ Goto(p, "support") /\ Set(p, "retry", LastCall(p))
  <2>1. Moves(p, "support", r)
    BY <1>4, <1>14 DEF Moves, Goto, Set, LastCall, BuildTypeOK
  <2> HIDE DEF r
  <2>2. /\ Logged(e, run[p].gen) /\ pc'[p] = "support" /\ run'[p] = r
        /\ "support" \in Holding /\ HandleOK(p)'
    <3> HIDE DEF e
    <3> QED BY <1>2, <1>3, <1>4, <1>7, <1>12, <1>14, <2>1, RecordFacts
  <2>3. CanRetry(durable', last)
    <3>1. HandleOK(p)' /\ pc'[p] \in Working \cup Ending /\ pc'[p] \in Working
      BY <1>2, <2>2
    <3>2. mem'[p] = durable'
      BY <3>1 DEF HandleOK
    <3> QED BY <1>4, <1>14, <3>2 DEF LastCall
  <2>4. Room(3 + 2 * Retries)' /\ last # 0
    BY <1>9, <1>10, <2>2, <2>3 DEF Room, CanRetry
  <2>5. Unit(p)' = Unit(p)
    BY <1>12, <2>2 DEF Unit
  <2>6. WindowOK(p)'
    BY <1>3, <1>10, <1>12, <2>2, <2>3, <2>4, <2>5 DEF WindowOK
  <2>7. LoopOK(p)' /\ PublishOK(p)'
    BY <2>2 DEF LoopOK, PublishOK
  <2>8. ProcOK(p)' /\ FileOK' /\ RoomOK'
    BY <1>10, <2>2, <2>6, <2>7 DEF ProcOK
  <2> HIDE DEF e
  <2> QED BY <1>2, <1>4, <1>7, <1>12, <1>14, <2>1, <2>2, <2>8, RecordKeeps
<1>15. CASE Appended(p, e) /\ Goto(p, "failing") /\ UNCHANGED run
  <2>1. Moves(p, "failing", run[p]) /\ (Logged(e, run[p].gen) => FileOK' /\ RoomOK')
    BY <1>8, <1>10, <1>15
  <2> HIDE DEF e
  <2>2. Logged(e, run[p].gen) /\ "failing" \in Holding /\ ProcOK(p)'
    BY <1>2, <1>3, <1>4, <1>5, <1>7, <1>15, <2>1, RecordFacts
  <2> QED BY <1>2, <1>4, <1>7, <1>15, <2>1, <2>2, RecordKeeps
<1> QED BY <1>1, <1>11, <1>13, <1>14, <1>15

\* The window is complete.
LEMMA FinishWindowStep ==
    ASSUME BuildInv, NEW p \in Procs, FinishWindow(p) PROVE BuildInv' /\ Follows
<1> DEFINE e == WindowCompleted(Unit(p), LastCall(p))
           r == [run[p] EXCEPT !.ordinal = run[p].ordinal + 1]
<1>1. /\ pc[p] = "window" /\ pc[p] \in Sending /\ pc[p] \in Working \cup Ending
      /\ "loop" \in Working /\ "failing" \in Ending /\ pc[p] # "support"
      /\ UNCHANGED <<generation, pointer, lock, report, sent>>
  BY DEF FinishWindow, Working, Sending, Ending, world
<1>2. /\ pc[p] \in Working /\ Unit(p) \in 1..UnitCount
      /\ run[p].ordinal \in Nat /\ run[p].reused \in Nat /\ run[p].rebuild = 0
      /\ run[p].reused <= run[p].ordinal /\ Unit(p) = run[p].ordinal + 1
      /\ Len(durable.windows) = run[p].ordinal /\ Len(durable.calls) \in Nat
  BY <1>1, SendingFacts
<1>3. /\ BuildTypeOK /\ FileOK /\ WindowOK(p) /\ run[p] \in Run
      /\ mem[p] = durable /\ ~poisoned[p]
  BY <1>2, OpenFacts
<1>4. run[p].retry = 0 /\ Room(3)
  BY <1>1, <1>2, <1>3, WorkerFacts DEF WindowOK
<1>5. LastCall(p) \in Nat
  BY <1>2, <1>3 DEF LastCall
<1>6. e \in Event /\ Residue(durable, e) = durable
  <2>1. e \in Event
    BY <1>2, <1>5 DEF Event
  <2>2. e.event # "support_retry_reserved"
    BY DEF WindowCompleted
  <2> HIDE DEF e
  <2> QED BY <2>1, <2>2, NoResidue
<1>7. ASSUME Logged(e, run[p].gen)
      PROVE  /\ FileOK' /\ RoomOK' /\ Quiescent(durable') /\ ~durable'.failed
             /\ Len(durable'.windows) = Unit(p)
  BY <1>2, <1>3, <1>4, <1>5, <1>7, CompletedFile
<1>8. /\ r \in Run /\ r.ordinal = run[p].ordinal + 1 /\ r.reused = run[p].reused
      /\ r.retry = run[p].retry /\ r.rebuild = run[p].rebuild /\ r.gen = run[p].gen
  BY <1>2, <1>3 DEF Run
<1>9. CASE AppendError(p, e) /\ Goto(p, "failing") /\ UNCHANGED run
  <2>1. Moves(p, "failing", run[p])
    BY <1>9, PlainMove
  <2> HIDE DEF e
  <2> QED BY <1>1, <1>3, <1>4, <1>6, <1>7, <1>9, <2>1, ErrorKeeps
<1>10. CASE /\ Appended(p, e) /\ Set(p, "ordinal", run[p].ordinal + 1) /\ Goto(p, "loop")
  <2>1. Moves(p, "loop", r)
    BY <1>3, <1>10 DEF Moves, Goto, Set, BuildTypeOK
  <2> HIDE DEF r, e
  <2>2. /\ Logged(e, run[p].gen) /\ pc'[p] = "loop" /\ run'[p] = r
        /\ "loop" \in Holding /\ HandleOK(p)'
    BY <1>1, <1>2, <1>3, <1>4, <1>6, <1>8, <1>10, <2>1, RecordFacts
  <2>3. LoopOK(p)'
    BY <1>2, <1>7, <1>8, <2>2 DEF LoopOK
  <2>4. WindowOK(p)' /\ PublishOK(p)'
    BY <2>2 DEF WindowOK, PublishOK, Sending
  <2>5. ProcOK(p)'
    BY <2>2, <2>3, <2>4 DEF ProcOK
  <2> QED BY <1>1, <1>3, <1>6, <1>7, <1>8, <1>10, <2>1, <2>2, <2>5, RecordKeeps
<1> QED BY <1>9, <1>10 DEF FinishWindow
---------------------------------------------------------------------------
(***************************************************************************)
(* What follows for every run of the program.                              *)
(***************************************************************************)

\* Every step of a run keeps the invariant, and is a step of the abstract ledger or
\* none.
LEMMA StepFollows ==
    ASSUME BuildInv, NEW p \in Procs, Step(p) PROVE BuildInv' /\ Follows
<1>1. CASE Create(p) \/ LockNew(p) \/ LockExisting(p) \/ ReplayFile(p) \/ Abandon(p)
  BY <1>1, CreateStep, LockNewStep, LockExistingStep, ReplayStep, AbandonStep
<1>2. CASE \/ LoopError(p) \/ Reuse(p) \/ AdmitRebuild(p) \/ StopRun(p)
           \/ ReserveBuilder(p) \/ Send(p) \/ BuilderReply(p)
  BY <1>2, LoopErrorStep, ReuseStep, AdmitRebuildStep, StopRunStep, ReserveBuilderStep,
     SendStep, BuilderReplyStep
<1>3. CASE \/ ReserveSupport(p) \/ SupportError(p) \/ SupportReply(p) \/ FinishWindow(p)
           \/ PreparePublication(p) \/ FindPublished(p) \/ PublishOverlay(p)
  BY <1>3, ReserveSupportStep, SupportErrorStep, SupportReplyStep, FinishWindowStep,
     PrepareStep, PublishSteps
<1>4. CASE \/ PublishError(p) \/ RecordPublication(p) \/ Complete(p)
           \/ WriteCheckpoint(p) \/ EndIncomplete(p) \/ WriteFailure(p) \/ EndFailed(p)
  BY <1>4, PublishErrorStep, RecordPublicationStep, EndSteps, CheckpointStep, FailureStep
<1> QED BY <1>1, <1>2, <1>3, <1>4 DEF Step

\* Every step at all.
LEMMA NextFollows == BuildInv /\ [Next]_vars => BuildInv' /\ Follows
<1> SUFFICES ASSUME BuildInv, [Next]_vars PROVE BuildInv' /\ Follows
  OBVIOUS
<1>1. CASE UNCHANGED vars
  <2>1. generation' \in Gens /\ (pointer' \in ArtifactSet => pointer' = pointer)
    BY <1>1 DEF vars, BuildInv, BuildTypeOK
  <2> QED BY <1>1, <2>1, WorldKeeps DEF vars
<1>2. ASSUME NEW p \in Procs, Start(p) \/ Step(p) \/ Crash(p)
      PROVE  BuildInv' /\ Follows
  BY <1>2, StartStep, StepFollows, EndSteps
<1> QED BY <1>1, <1>2, ReindexStep, ForeignStep DEF Next

\* The inductive invariant of the builder and its file holds in every run: whatever is
\* killed, torn, refused or raced, the file is a ledger that agrees with the handle of
\* the one process that may write to it (enrich_with, process_window, Ledger::append).
THEOREM BuildInvariant == Spec => []BuildInv
<1>1. Init => BuildInv
  BY BuildInit
<1>2. BuildInv /\ [Next]_vars => BuildInv'
  BY NextFollows
<1> QED BY <1>1, <1>2, PTL DEF Spec

\* The lines of the file, in whatever process and order they were appended, are a
\* history of the abstract ledger: each accepted record is one of its steps, and
\* crashes, torn writes, refusals and restarts are none.
THEOREM FileIsLedger == Spec => ImplementsLedger
<1>1. Init => Abs!Init
  BY BuildInit
<1>2. BuildInv /\ [Next]_vars => [Abs!Next]_(Abs!vars)
  BY NextFollows DEF Follows, Abs!vars
<1> QED BY <1>1, <1>2, BuildInvariant, PTL DEF Spec, ImplementsLedger, Abs!Spec

\* So what is proved of the ledger under every sequence of events holds of the file of a
\* real build, beside crashes, torn writes and rivals: its windows, retries and retired
\* calls are linked to the calls that paid for them, and all calls of all its runs
\* together stay within the budgets.
THEOREM FileHistory == Spec => [](Hist!HistorySound /\ Hist!CallBudget)
<1>1. Init => Hist!Init
  BY BuildInit DEF Abs!Init, Hist!Init, Abs!EmptyLedger, Hist!EmptyLedger, Abs!NoArtifact,
                   Hist!NoArtifact
<1>2. BuildInv /\ [Next]_vars => [Hist!Next]_(Hist!vars)
  BY NextFollows DEF Follows, Hist!vars
<1>3. Spec => Hist!Spec
  BY <1>1, <1>2, BuildInvariant, PTL DEF Spec, Hist!Spec
<1>4. Hist!Spec => []Hist!HistorySound
  BY Hist!HistoryIsSound, NoneIsNoArtifact, BudgetAssumption
<1>5. Hist!Spec => []Hist!CallBudget
  BY Hist!BudgetKept, NoneIsNoArtifact, BudgetAssumption
<1> QED BY <1>3, <1>4, <1>5, PTL

\* The file governs: the handle a run works with is what a replay of the file gives, the
\* file is its alone, and a call leaves only on its own durable reservation and only
\* once ("No provider call follows a failed reservation"), across crashes and restarts.
THEOREM Governed == Spec => []FileGoverns
<1>1. BuildInv => FileGoverns
  <2> SUFFICES ASSUME BuildInv PROVE FileGoverns
    OBVIOUS
  <2>1. ASSUME NEW p \in Procs, pc[p] \in OpenPhases
        PROVE  lock = p /\ (poisoned[p] \/ (mem[p] = durable /\ ~torn))
    <3>1. pc[p] \in Working \cup Ending
      BY <2>1 DEF OpenPhases, Working, Sending, Ending
    <3> QED BY <3>1, WorkerFacts, HolderFacts
  <2> QED BY <2>1 DEF FileGoverns, HandleMatchesLog, BuildInv
<1> QED BY <1>1, BuildInvariant, PTL

\* What a build has paid for is kept: a report of resume_safe is true, a prepared
\* publication leaves the file resumable unless a write tore it, and no overlay of this
\* build is active but the one durably prepared.
THEOREM Kept == Spec => []BuildKept
<1>1. BuildInv => BuildKept
  <2> SUFFICES ASSUME BuildInv PROVE BuildKept
    OBVIOUS
  <2>1. ResumeSafe /\ PublishedWasPrepared
    BY DEF BuildInv, SaidOK, ResumeSafe
  <2>2. PreparedIsResumable
    BY FileFacts DEF BuildInv, FileOK, PreparedIsResumable, Resumable
  <2> QED BY <2>1, <2>2 DEF BuildKept
<1> QED BY <1>1, BuildInvariant, PTL

\* Only the sending of a request changes what was sent.
LEMMA OnlySend ==
    ASSUME [Next]_vars, sent' # sent PROVE \E p \in Procs : Send(p)
<1>2. ASSUME NEW p \in Procs, Start(p) \/ Crash(p) PROVE FALSE
  BY <1>2 DEF Start, Crash
<1>3. ASSUME NEW p \in Procs, Step(p) PROVE Send(p)
  <2>1. ~(Create(p) \/ LockNew(p) \/ LockExisting(p) \/ ReplayFile(p) \/ Abandon(p))
    BY DEF Create, LockNew, LockExisting, ReplayFile, Abandon
  <2>2. ~(LoopError(p) \/ Reuse(p) \/ AdmitRebuild(p) \/ StopRun(p) \/ ReserveBuilder(p))
    BY DEF LoopError, Reuse, AdmitRebuild, StopRun, ReserveBuilder
  <2>3. ~(\/ BuilderReply(p) \/ ReserveSupport(p) \/ SupportError(p) \/ SupportReply(p)
          \/ FinishWindow(p))
    BY DEF BuilderReply, ReserveSupport, SupportError, SupportReply, FinishWindow
  <2>4. ~(\/ PreparePublication(p) \/ FindPublished(p) \/ PublishOverlay(p)
          \/ PublishError(p) \/ RecordPublication(p) \/ Complete(p))
    BY DEF PreparePublication, FindPublished, PublishOverlay, PublishError,
           RecordPublication, Complete
  <2>5. ~(WriteCheckpoint(p) \/ EndIncomplete(p) \/ WriteFailure(p) \/ EndFailed(p))
    BY DEF WriteCheckpoint, EndIncomplete, WriteFailure, EndFailed
  <2> QED BY <1>3, <2>1, <2>2, <2>3, <2>4, <2>5 DEF Step
<1> QED BY <1>2, <1>3 DEF Next, vars, Reindex, PublishForeign

\* No window is paid for twice: a request leaves only for a window that is not in the
\* file yet, and none once the publication was prepared.
THEOREM PaidOnce == Spec => NoRepaidWindow
<1>1. BuildInv /\ [Next]_vars =>
        [sent' # sent =>
           /\ durable.prepared = NoArtifact
           /\ \A i \in 1..Len(durable.windows) :
                durable.windows[i].unit # sent'[Len(sent')].unit]_vars
  <2> SUFFICES ASSUME BuildInv, [Next]_vars, sent' # sent
               PROVE  /\ durable.prepared = NoArtifact
                      /\ \A i \in 1..Len(durable.windows) :
                           durable.windows[i].unit # sent'[Len(sent')].unit
    OBVIOUS
  <2>1. PICK p \in Procs : Send(p)
    BY OnlySend
  <2>2. PICK kind \in Kinds :
          /\ pc[p] = ReservedPc[kind]
          /\ sent' = Append(sent, [call |-> LastCall(p), kind |-> kind, unit |-> Unit(p)])
    BY <2>1 DEF Send
  <2>3. pc[p] \in Sending
    BY <2>2 DEF Kinds, ReservedPc, Sending
  <2>4. /\ durable.prepared = NoArtifact /\ Len(durable.windows) = run[p].ordinal
        /\ Unit(p) = run[p].ordinal + 1 /\ run[p].ordinal \in Nat
    BY <2>3, SendingFacts
  <2> DEFINE call == [call |-> LastCall(p), kind |-> kind, unit |-> Unit(p)]
  <2>5. call.unit = Unit(p) /\ sent' = Append(sent, call)
    BY <2>2
  <2>6. sent'[Len(sent')].unit = Unit(p)
    <3> HIDE DEF call
    <3>1. sent \in Seq(SentCall)
      BY DEF BuildInv, BuildTypeOK
    <3>2. Len(sent') = Len(sent) + 1 /\ sent'[Len(sent) + 1] = call
      BY <2>5, <3>1, Appending
    <3> QED BY <2>5, <3>2
  <2>7. \A i \in 1..Len(durable.windows) : durable.windows[i].unit = i /\ i # Unit(p)
    BY <2>4 DEF BuildInv, FileOK
  <2> QED BY <2>4, <2>6, <2>7
<1> QED BY <1>1, BuildInvariant, PTL DEF Spec, NoRepaidWindow

\* The room left decides that a record is not refused for the size of the file.
LEMMA RoomLeft ==
    ASSUME NEW n \in Nat, NEW max \in Nat, NEW r \in Nat, NEW k \in 1..6,
           n + (k + 2 * r) <= max \/ n + k <= max
    PROVE  ~(n >= max)
  OBVIOUS

\* A record that the ledger in the file accepts and has room for is not refused.
LEMMA NotRefused ==
    ASSUME NEW p \in Procs, mem[p] = durable, ~poisoned[p], NEW e,
           Accepts(durable, e, run[p].gen), ~(Len(log) >= MaxRecords)
    PROVE  ~Refuses(p, e)
  BY DEF Refuses

\* A window that is paid for can be completed.
LEMMA PaidCompletes ==
    ASSUME Hist!CountInv, NEW unit, Paying(durable, unit), Live(durable), Settled(durable),
           durable.receipts[Len(durable.calls)] = "ok"
    PROVE  CanCompleteWindow(durable, unit, Len(durable.calls))
<1> DEFINE first == durable.committed + 1
           last  == Len(durable.calls)
<1>1. /\ durable.committed \in Nat /\ last \in Nat /\ Len(durable.retries) \in Nat
      /\ Len(durable.retries) <= SupportRetries /\ SupportRetries \in Nat
  BY FileFacts, LedgerFields, LedgerLengths, BudgetAssumption
<1>2. /\ first <= last /\ last <= first + 1 + Len(durable.retries)
      /\ \A c \in first..last :
           /\ durable.calls[c].unit = unit
           /\ durable.calls[c].kind = IF c = first THEN "builder" ELSE "jev"
      /\ \A c \in first..(last - 1) :
           IF c = first THEN durable.receipts[c] = "ok"
           ELSE durable.receipts[c] # "ok" /\ Retried(durable, c)
  BY DEF Paying
<1>3. last <= durable.committed + 2 + SupportRetries
  BY <1>1, <1>2
<1>4. ASSUME NEW c \in first..last
      PROVE  IF c \in {first, last} THEN durable.receipts[c] = "ok"
             ELSE durable.receipts[c] # "ok" /\ Retried(durable, c)
  <2>1. c # last => c \in first..(last - 1)
    BY <1>1
  <2> QED BY <1>2, <2>1
<1> QED BY <1>2, <1>3, <1>4 DEF CanCompleteWindow

\* The limits take effect only between windows: once a window was started, no record of
\* it is refused for a budget or for the size of the file, nor is the record that ends
\* the run or those of the publication (capacity_for_window, the stop checks of
\* enrich_with).
THEOREM NothingRefused == Spec => []NothingRefusedMidway
<1>1. BuildInv => NothingRefusedMidway
  <2> SUFFICES ASSUME BuildInv, NEW p \in Procs
               PROVE  /\ pc[p] = "builder_sent" => ~Refuses(p, CallFinished("ok"))
                      /\ pc[p] = "support" =>
                           ~Refuses(p, IF run[p].retry = 0
                                       THEN CallReserved("jev", Unit(p))
                                       ELSE RetryReserved(run[p].retry, Unit(p)))
                      /\ pc[p] = "jev_sent" => ~Refuses(p, CallFinished("ok"))
                      /\ pc[p] = "window" =>
                           ~Refuses(p, WindowCompleted(Unit(p), LastCall(p)))
                      /\ pc[p] = "failing" /\ ~poisoned[p] /\ ~Quiescent(mem[p])
                         /\ ~mem[p].failed => ~Refuses(p, Failed)
                      /\ pc[p] = "loop" /\ ~MoreWindows(p) /\ mem[p].prepared = NoArtifact =>
                           ~Refuses(p, PublicationPrepared(Artifact(mem[p], run[p].gen)))
                      /\ pc[p] = "recording" => ~Refuses(p, Published(mem[p].prepared))
    BY DEF NothingRefusedMidway
  <2>1. /\ BuildTypeOK /\ FileOK /\ RoomOK /\ Hist!CountInv /\ run[p] \in Run
        /\ durable \in Hist!LedgerType /\ Len(log) \in Nat /\ MaxRecords \in Nat
        /\ Retries \in Nat /\ ProcOK(p)
    BY FileFacts, RetriesLeft, BuildAssumption DEF BuildInv, FileOK, BuildTypeOK
  <2>2. pc[p] \in Working => mem[p] = durable /\ ~poisoned[p] /\ durable.bound
    BY OpenFacts
  <2>3. ASSUME pc[p] \in {"builder_sent", "jev_sent"}
        PROVE  ~Refuses(p, CallFinished("ok"))
    <3>1. pc[p] \in Sending /\ pc[p] \in Working
      BY <2>3 DEF Sending, Working
    <3>2. Live(durable) /\ Pending(durable)
      BY <2>1, <2>3, <3>1 DEF ProcOK, WindowOK
    <3>3. \/ Len(log) + (6 + 2 * Retries) <= MaxRecords
          \/ Len(log) + (4 + 2 * Retries) <= MaxRecords
      BY <2>1, <2>3 DEF ProcOK, WindowOK, Room
    <3>4. ~(Len(log) >= MaxRecords)
      BY <2>1, <3>3, RoomLeft
    <3>5. Accepts(durable, CallFinished("ok"), run[p].gen)
      BY <3>2, AcceptsEach DEF CanFinish, Pending
    <3> QED BY <2>2, <3>1, <3>4, <3>5, NotRefused
  <2>4. ASSUME pc[p] = "support"
        PROVE  ~Refuses(p, IF run[p].retry = 0 THEN CallReserved("jev", Unit(p))
                           ELSE RetryReserved(run[p].retry, Unit(p)))
    <3>1. pc[p] \in Sending /\ pc[p] \in Working
      BY <2>4 DEF Sending, Working
    <3>2. /\ Live(durable) /\ Settled(durable) /\ durable.prepared = NoArtifact
          /\ Paying(durable, Unit(p))
      BY <2>1, <2>4, <3>1 DEF ProcOK, WindowOK
    <3>3. CASE run[p].retry = 0
      <4>1. JevLeft(durable) /\ Len(log) + (5 + 2 * Retries) <= MaxRecords
        BY <2>1, <2>4, <3>3 DEF ProcOK, WindowOK, Room
      <4>2. ~(Len(log) >= MaxRecords)
        BY <2>1, <4>1, RoomLeft
      <4>3. CanReserve(durable, "jev")
        BY <3>2, <4>1 DEF CanReserve, JevLeft
      <4>4. Accepts(durable, CallReserved("jev", Unit(p)), run[p].gen)
        BY <4>3, AcceptsEach
      <4> QED BY <2>2, <3>1, <3>3, <4>2, <4>4, NotRefused
    <3>4. CASE run[p].retry # 0
      <4>1. /\ run[p].retry = Len(durable.calls) /\ CanRetry(durable, run[p].retry)
            /\ Len(log) + (3 + 2 * Retries) <= MaxRecords
        BY <2>1, <2>4, <3>4 DEF ProcOK, WindowOK, Room
      <4>2. ~(Len(log) >= MaxRecords)
        BY <2>1, <4>1, RoomLeft
      <4>3. CanReserve(AdmitRetry(durable, run[p].retry), "jev")
        BY <2>1, <3>2, <4>1, RetryAdmitted
      <4>4. durable.calls[run[p].retry].unit = Unit(p)
        <5>1. Len(durable.calls) \in (durable.committed + 1)..Len(durable.calls)
          BY <2>1, <3>2, LedgerFields, LedgerLengths DEF Paying
        <5> QED BY <3>2, <4>1, <5>1 DEF Paying
      <4>5. Accepts(durable, RetryReserved(run[p].retry, Unit(p)), run[p].gen)
        BY <3>2, <4>1, <4>3, <4>4 DEF Accepts, RetryReserved
      <4> QED BY <2>2, <3>1, <3>4, <4>2, <4>5, NotRefused
    <3> QED BY <3>3, <3>4
  <2>5. ASSUME pc[p] = "window"
        PROVE  ~Refuses(p, WindowCompleted(Unit(p), LastCall(p)))
    <3>1. pc[p] \in Sending /\ pc[p] \in Working
      BY <2>5 DEF Sending, Working
    <3>2. /\ Live(durable) /\ Settled(durable) /\ Paying(durable, Unit(p))
          /\ durable.receipts[Len(durable.calls)] = "ok" /\ Len(log) + 3 <= MaxRecords
      BY <2>1, <2>5, <3>1 DEF ProcOK, WindowOK, Room
    <3>3. ~(Len(log) >= MaxRecords)
      BY <2>1, <3>2, RoomLeft
    <3>4. LastCall(p) = Len(durable.calls)
      BY <2>2, <3>1 DEF LastCall
    <3>5. CanCompleteWindow(durable, Unit(p), LastCall(p))
      BY <2>1, <3>2, <3>4, PaidCompletes
    <3>6. Accepts(durable, WindowCompleted(Unit(p), LastCall(p)), run[p].gen)
      BY <3>5 DEF Accepts, WindowCompleted
    <3> QED BY <2>2, <3>1, <3>3, <3>6, NotRefused
  <2>6. ASSUME pc[p] = "failing", ~poisoned[p], ~Quiescent(mem[p]), ~mem[p].failed
        PROVE  ~Refuses(p, Failed)
    <3>1. mem[p] = durable /\ durable.bound
      BY <2>6, WorkerFacts DEF Ending
    <3>2. Live(durable) /\ Len(log) + 1 <= MaxRecords
      BY <2>1, <2>6, <3>1, FileFacts DEF RoomOK, Room, Live
    <3>3. ~(Len(log) >= MaxRecords)
      BY <2>1, <3>2, RoomLeft
    <3>4. Accepts(durable, Failed, run[p].gen)
      BY <3>2, AcceptsEach
    <3> QED BY <2>6, <3>1, <3>3, <3>4, NotRefused
  <2>7. ASSUME pc[p] = "loop", ~MoreWindows(p), mem[p].prepared = NoArtifact
        PROVE  ~Refuses(p, PublicationPrepared(Artifact(mem[p], run[p].gen)))
    <3>1. pc[p] \in Working
      BY <2>7 DEF Working
    <3>2. /\ run[p].ordinal \in Nat /\ run[p].reused \in Nat /\ run[p].ordinal >= UnitCount
          /\ Len(durable.windows) <= UnitCount /\ UnitCount \in Nat
      BY <2>1, <2>7, BuildAssumption DEF Run, MoreWindows, FileOK
    <3>3. Len(durable.windows) = UnitCount
      BY <2>1, <2>7, <3>2, LedgerLengths DEF ProcOK, LoopOK
    <3>4. Quiescent(durable)
      BY <2>1, <3>2, <3>3 DEF FileOK
    <3>5. ~durable.failed
      <4>1. ~CanRebuild(durable, run[p].rebuild)
        BY <2>1, <3>4, LedgerFields DEF CanRebuild, Quiescent
      <4> QED BY <2>1, <2>7, <4>1 DEF ProcOK, LoopOK
    <3>6. /\ CanPrepare(durable) /\ Len(log) + 2 <= MaxRecords
      BY <2>1, <2>2, <2>7, <3>1, <3>3, <3>4, <3>5, FileFacts
      DEF CanPrepare, Live, RoomOK, Room
    <3>7. ~(Len(log) >= MaxRecords)
      BY <2>1, <3>6, RoomLeft
    <3>8. Accepts(durable, PublicationPrepared(Artifact(mem[p], run[p].gen)), run[p].gen)
      BY <3>6 DEF Accepts, PublicationPrepared
    <3> QED BY <2>2, <3>1, <3>7, <3>8, NotRefused
  <2>8. ASSUME pc[p] = "recording"
        PROVE  ~Refuses(p, Published(mem[p].prepared))
    <3>1. pc[p] \in Working
      BY <2>8 DEF Working
    <3>2. durable.prepared # NoArtifact /\ ~durable.published
      BY <2>1, <2>8 DEF ProcOK, PublishOK
    <3>3. CanPublish(durable, mem[p].prepared) /\ Len(log) + 1 <= MaxRecords
      BY <2>1, <2>2, <3>1, <3>2 DEF FileOK, RoomOK, Room, CanPublish, Live
    <3>4. ~(Len(log) >= MaxRecords)
      BY <2>1, <3>3, RoomLeft
    <3>5. Accepts(durable, Published(mem[p].prepared), run[p].gen)
      BY <3>3, AcceptsEach
    <3> QED BY <2>2, <3>1, <3>4, <3>5, NotRefused
  <2> QED BY <2>3, <2>4, <2>5, <2>6, <2>7, <2>8
<1> QED BY <1>1, BuildInvariant, PTL
================================================================================

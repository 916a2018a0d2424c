---------------------------- MODULE PromiseProofs ----------------------------
(***************************************************************************)
(* Tracker implements MemoryPromise, for any number of threads, blocks and *)
(* nested Scopes: proofs, on top of the invariants of TrackerProofs and    *)
(* CounterProofs, for a program that makes no mistakes.                    *)
(***************************************************************************)
EXTENDS CounterProofs, MCTracker

-----------------------------------------------------------------------------
(* The invariant. *)

\* The program keeps the discipline and makes no mistakes.
Faultless == Discipline /\ OffsetsApart /\ Faults = {}

NoMistakes == [doubleFrees |-> 0, overflows |-> 0, useAfterFrees |-> 0]

Unharmed ==
  /\ \A s \in Slots : header[s].guard /\ header[s].magic # "smashed"
  /\ truth = NoMistakes

\* Blocks are numbered as they are linked, and each has a number of its own.
Numbered ==
  /\ m_sequence = counts.allocations + 1
  /\ \A s \in m_list : header[s].sequence \in 1..counts.allocations
  /\ \A r, s \in m_list : header[r].sequence = header[s].sequence => r = s

\* What a Scope noted when it was opened.
NotedBefore(scope) ==
  /\ scope.sequence = scope.allocations + 1
  /\ scope.allocations <= counts.allocations /\ scope.frees <= counts.frees
  /\ scope.doubleFrees = 0 /\ scope.overflows = 0 /\ scope.useAfterFrees = 0
  /\ scope.opening = NoMistakes

Noted == scopes \in Seq(Opened) /\ \A i \in DOMAIN scopes : NotedBefore(scopes[i])

\* The report as ReadCounts leaves it.
HalfReport ==
  LET base == scopes[Len(scopes)]
  IN [allocations |-> Minus(counts.allocations, base.allocations),
      frees |-> Minus(counts.frees, base.frees),
      doubleFrees |-> Minus(counts.doubleFrees, base.doubleFrees),
      overflows |-> Minus(counts.overflows, base.overflows),
      useAfterFrees |-> Minus(counts.useAfterFrees, base.useAfterFrees),
      peakBytes |-> Minus(counts.peakBytes, base.peakBase),
      largestBlock |-> counts.largestBlock,
      leakedBlocks |-> 0, leakedBytes |-> 0]

\* While Main reports it has a Scope and is alone.
Reporting ==
  /\ pc[Main] \in {"counts", "sample"} => Alone(Main) /\ scopes # <<>>
  /\ pc[Main] = "counts" => report = {}
  /\ pc[Main] = "sample" => report = {HalfReport}

PromiseInv == FaultInv /\ Unharmed /\ Numbered /\ Noted /\ Reporting

-----------------------------------------------------------------------------
(* It is inductive. *)

\* The steps of a program that makes no mistakes write no header but the
\* tracker's own way.
LEMMA UnharmedNext ==
  ASSUME Faultless, HeapInv, HeapInv', Unharmed, [Next]_vars
  PROVE  Unharmed'
<1> DEFINE Fine == \A s \in Slots : header'[s].guard /\ header'[s].magic # "smashed"
<1>1. /\ header \in [Slots -> Header] /\ NoHeader.guard /\ NoHeader.magic # "smashed"
      /\ \A s \in Slots : header[s].guard /\ header[s].magic # "smashed"
      /\ truth = NoMistakes /\ Faults = {}
  BY DEF HeapInv, HeapTypes, NoHeader, Unharmed, Faultless
<1>2. ASSUME NEW t \in Threads, HookAllocate(t) PROVE Fine
  <2>0. PICK m : m = IF m_config.checkRedzone THEN m_config.redzone ELSE 0
    OBVIOUS
  <2>1. PICK r, n : header' = [header EXCEPT ![r] =
          [NoHeader EXCEPT !.magic = "live", !.size = n, !.redzone = m, !.pattern = FALSE]]
    BY <1>2, <2>0 DEF HookAllocate
  <2>2. PICK x : x = [NoHeader EXCEPT !.magic = "live", !.size = n, !.redzone = m,
                                      !.pattern = FALSE]
    OBVIOUS
  <2>3. x.guard /\ x.magic # "smashed"
    BY <2>2 DEF NoHeader
  <2> QED
    BY <1>1, <2>1, <2>2, <2>3
<1>3. ASSUME NEW t \in Threads, Link(t) PROVE Fine
  <2>1. PICK r : header' = [header EXCEPT ![r].sequence = m_sequence]
    BY <1>3 DEF Link
  <2> QED
    BY <1>1, <2>1 DEF Header
<1>4. ASSUME NEW t \in Threads, RawFree(t) \/ ReleaseNow(t) \/ Reallocate(t) PROVE Fine
  <2>1. PICK r : header' = header \/ header' = [header EXCEPT ![r] = NoHeader]
    BY <1>4 DEF RawFree, ReleaseNow, Reallocate
  <2> QED
    BY <1>1, <2>1
<1>5. ASSUME NEW q, NEW h, NEW d, Drain(q, h, d),
             \A s \in Slots : h[s].guard /\ h[s].magic # "smashed"
      PROVE  Fine
  <2>1. PICK gone : header' = [s \in Slots |-> IF s \in gone THEN NoHeader ELSE h[s]]
    BY <1>5 DEF Drain
  <2> QED
    BY <1>1, <1>5, <2>1
<1>6. ASSUME NEW t \in Threads, HoldBack(t) PROVE Fine
  <2>1. PICK r, h : /\ h = [header EXCEPT ![r].magic = "freed", ![r].pattern = TRUE]
                    /\ Drain(Append(m_quarantine, r), h, m_config.quarantineBytes)
    BY <1>6 DEF HoldBack
  <2>2. \A s \in Slots : h[s].guard /\ h[s].magic # "smashed"
    BY <1>1, <2>1 DEF Header
  <2> QED
    BY <1>5, <2>1, <2>2
<1>7. ASSUME FlushQuarantine \/ EndRecording \/ \E t \in Threads : Settle(t) PROVE Fine
  <2>1. Drain(m_quarantine, header, 0) \/ UNCHANGED header
    BY <1>7 DEF FlushQuarantine, EndRecording, Settle, UninstallIfIdle, BeginUninstall,
                KeepInstalled
  <2> QED
    BY <1>1, <1>5, <2>1
<1>8. ASSUME UNCHANGED header PROVE Fine
  BY <1>1, <1>8
<1>9. ~ProgramWrites /\ \A t \in Threads : ~DoubleFree(t)
  BY <1>1 DEF ProgramWrites, Overrun, Smash, DanglingWrite, DoubleFree
<1>10. Fine
  <2> HIDE DEF Fine
  <2> QED
    BY <1>2, <1>3, <1>4, <1>6, <1>7, <1>8, <1>9
       DEF Next, Continue, ContinueScope, heapVars, vars,
           RawAllocate, AllocateFails, Lookup, CountDoubleFree,
           PassThrough, ReportSmashed, InspectRedzones, Unlink,
           FinishUninstall, LoadAllocate, LoadDeallocate, ToggleBypass,
           FinishInstall, ScopeBaseline, ScopeReset, ReadCounts, Sample, BeginRecording
<1>11. ASSUME NEW t \in Threads, LoadDeallocate(t) PROVE truth' = truth
  <2>1. PICK p \in owned :
          truth' = [truth EXCEPT !.overflows =
            IF Tracked(p) /\ (header[p[1]].magic # "live" \/ ~header[p[1]].guard)
            THEN @ + 1 ELSE @]
    BY <1>11 DEF LoadDeallocate
  <2>2. p[1] \in Slots /\ header[p[1]].magic # "freed"
    BY SlotFacts
  <2>3. Tracked(p) => header[p[1]].magic # "none"
    BY <2>2 DEF Tracked, HeapInv, Layout
  <2>4. header[p[1]].magic \in {"none", "live", "freed", "smashed"}
    BY <1>1, <2>2 DEF Header
  <2> QED
    BY <1>1, <2>1, <2>2, <2>3, <2>4 DEF NoMistakes
<1>12. truth' = truth
  BY <1>9, <1>11
     DEF Next, Continue, ContinueScope, heapVars, vars,
         RawAllocate, AllocateFails, HookAllocate, Link, RawFree, Lookup, CountDoubleFree,
         PassThrough, ReportSmashed, InspectRedzones, Unlink, HoldBack, ReleaseNow, Settle,
         FinishUninstall, LoadAllocate, Reallocate, ToggleBypass,
         FinishInstall, ScopeBaseline, ScopeReset, ReadCounts, Sample, BeginRecording,
         EndRecording, FlushQuarantine
<1> QED
  BY <1>1, <1>10, <1>12 DEF Unharmed

\* A block takes the next number when it is linked.
LEMMA NumberedNext ==
  ASSUME HeapInv, HeapInv', CountInv, CountInv', Numbered, [Next]_vars
  PROVE  Numbered'
<1>1. /\ counts \in Counters /\ counts.allocations \in Nat /\ header \in [Slots -> Header]
      /\ m_list \subseteq Slots /\ \A s \in Slots : header[s] \in Header
  BY DEF CountInv, Counters, HeapInv, HeapTypes
<1>2. \A s \in m_list : s \in m_list' => header'[s].sequence = header[s].sequence
  BY ListKept
<1>3. ASSUME NEW t \in Threads, Link(t) PROVE Numbered'
  <2>1. PICK s : s = ptr[t][1]
    OBVIOUS
  <2>2. /\ m_sequence' = m_sequence + 1 /\ m_list' = m_list \union {s}
        /\ header' = [header EXCEPT ![s].sequence = m_sequence]
        /\ \E b, p, l : counts' = [counts EXCEPT !.allocations = @ + 1, !.liveBytes = b,
                                                !.peakBytes = p, !.largestBlock = l]
    BY <1>3, <2>1 DEF Link
  <2>3. s \in Slots /\ s \notin m_list
    BY <1>3, <2>1 DEF Link, HeapInv, PointerOK
  <2>4. counts'.allocations = counts.allocations + 1
    BY <1>1, <2>2 DEF Counters
  <2>5. header'[s].sequence = m_sequence
    BY <1>1, <2>2, <2>3 DEF Header
  <2> QED
    BY <1>1, <1>2, <2>2, <2>3, <2>4, <2>5 DEF Numbered
<1>4. ASSUME NEW t \in Threads, Unlink(t) PROVE Numbered'
  <2>1. /\ m_sequence' = m_sequence /\ m_list' \subseteq m_list
        /\ \E b : counts' = [counts EXCEPT !.frees = @ + 1, !.liveBytes = b]
    BY <1>4 DEF Unlink
  <2>2. counts'.allocations = counts.allocations
    BY <1>1, <2>1 DEF Counters
  <2> QED
    BY <1>1, <1>2, <2>1, <2>2 DEF Numbered
<1>5. CASE \A t \in Threads : ~Link(t) /\ ~Unlink(t)
  <2>1. m_list' = m_list /\ m_sequence' = m_sequence /\ counts'.allocations = counts.allocations
    BY <1>5, TalliesKept
  <2> QED
    BY <1>1, <1>2, <2>1 DEF Numbered
<1> QED
  BY <1>3, <1>4, <1>5

\* Nothing is counted against a program that makes no mistakes.
LEMMA NoFaultsCounted ==
  ASSUME FaultInv, Unharmed
  PROVE  counts.doubleFrees = 0 /\ counts.overflows = 0 /\ counts.useAfterFrees = 0
<1>1. /\ counts \in Counters /\ MistakeInv /\ OverflowInv /\ UseInv
      /\ m_quarantine \in Seq(Slots) /\ IsInjective(m_quarantine)
      /\ truth.overflows = 0 /\ truth.useAfterFrees = 0
  BY DEF FaultInv, CountInv, HeapInv, HeapTypes, Held, Unharmed, NoMistakes
<1>2. IsFiniteSet(Disturbed(m_quarantine, header))
  <2>1. 0 \in 0..Len(m_quarantine)
    BY <1>1
  <2> QED
    BY <1>1, <2>1, DrainCounts
<1>3. Cardinality(Disturbed(m_quarantine, header)) \in Nat /\ Cardinality(Pending) \in Nat
  BY <1>1, <1>2, FS_CardinalityType DEF OverflowInv
<1>4. counts.overflows \in Nat /\ counts.useAfterFrees \in Nat
  BY <1>1 DEF Counters
<1>5. counts.overflows = 0
  BY <1>1, <1>3, <1>4 DEF OverflowInv
<1>6. counts.useAfterFrees = 0
  BY <1>1, <1>3, <1>4 DEF UseInv
<1> QED
  BY <1>1, <1>5, <1>6 DEF MistakeInv

Rebased(q, n, x) == [q EXCEPT ![n].peakBase = x]

\* A change of one base leaves the rest of what Scopes noted.
LEMMA BaseChanged ==
  ASSUME NEW q \in Seq(Opened), NEW n, NEW x \in Nat, NEW r, r = Rebased(q, n, x)
  PROVE  /\ r \in Seq(Opened) /\ DOMAIN r = DOMAIN q /\ Len(r) = Len(q)
         /\ \A i \in DOMAIN q :
              /\ r[i].sequence = q[i].sequence /\ r[i].allocations = q[i].allocations
              /\ r[i].frees = q[i].frees /\ r[i].doubleFrees = q[i].doubleFrees
              /\ r[i].overflows = q[i].overflows /\ r[i].useAfterFrees = q[i].useAfterFrees
              /\ r[i].opening = q[i].opening
<1>1. /\ DOMAIN q = 1..Len(q) /\ Len(q) \in Nat /\ q = [i \in 1..Len(q) |-> q[i]]
      /\ \A i \in DOMAIN q : q[i] \in Opened
  OBVIOUS
<1>2. PICK o : o = [q[n] EXCEPT !.peakBase = x]
  OBVIOUS
<1>3. r = [q EXCEPT ![n] = o]
  BY <1>2 DEF Rebased
<1>4. n \in DOMAIN q => /\ o \in Opened /\ o.sequence = q[n].sequence
                        /\ o.allocations = q[n].allocations /\ o.frees = q[n].frees
                        /\ o.doubleFrees = q[n].doubleFrees /\ o.overflows = q[n].overflows
                        /\ o.useAfterFrees = q[n].useAfterFrees /\ o.opening = q[n].opening
  BY <1>1, <1>2 DEF Opened
<1>5. PICK k : k = Len(q)
  OBVIOUS
<1>6. k \in Nat /\ DOMAIN q = 1..k
  BY <1>1, <1>5
<1>7. DOMAIN r = 1..k /\ \A i \in 1..k : r[i] = IF i = n THEN o ELSE q[i]
  BY <1>3, <1>6
<1>8. r = [i \in 1..k |-> r[i]] /\ \A i \in 1..k : r[i] \in Opened
  BY <1>1, <1>3, <1>4, <1>6, <1>7
<1>9. r \in Seq(Opened) /\ Len(r) = k
  <2>1. r \in [1..k -> Opened]
    BY <1>8
  <2>2. \A S : \A f \in [1..k -> S] : f \in Seq(S) /\ Len(f) = k
    BY <1>6
  <2> QED
    BY <2>1, <2>2
<1> QED
  BY <1>4, <1>5, <1>6, <1>7, <1>9

\* Scopes note what is counted when they are opened.
LEMMA NotedNext ==
  ASSUME FaultInv, FaultInv', Unharmed, Numbered, Noted, [Next]_vars
  PROVE  Noted'
<1>1. counts'.allocations >= counts.allocations /\ counts'.frees >= counts.frees
  BY CountsRise DEF FaultInv, NotMore, CountInv, Counters
<1>2. /\ counts \in Counters /\ counts.allocations \in Nat /\ counts.frees \in Nat
      /\ m_sequence = counts.allocations + 1 /\ truth = NoMistakes
      /\ scopes \in Seq(Opened) /\ \A i \in DOMAIN scopes : scopes[i] \in Opened
  <2>1. \A S : \A q \in Seq(S) : \A i \in DOMAIN q : q[i] \in S
    OBVIOUS
  <2>2. scopes \in Seq(Opened)
    BY DEF Noted
  <2>3. \A i \in DOMAIN scopes : scopes[i] \in Opened
    BY <2>1, <2>2
  <2> QED
    BY <2>2, <2>3 DEF FaultInv, CountInv, Counters, Numbered, Unharmed
<1>3. counts'.allocations \in Int /\ counts'.frees \in Int
  <2>1. CountInv'
    BY DEF FaultInv
  <2> QED
    BY <2>1 DEF CountInv, Counters
<1>4. \A o \in Opened : NotedBefore(o) => NotedBefore(o)'
  BY <1>1, <1>2, <1>3 DEF NotedBefore, Opened
<1>5. CASE ScopeBaseline
  <2>1. PICK o : o = [sequence |-> m_sequence, allocations |-> counts.allocations,
                      frees |-> counts.frees, doubleFrees |-> counts.doubleFrees,
                      overflows |-> counts.overflows, useAfterFrees |-> counts.useAfterFrees,
                      peakBase |-> 0, opening |-> truth]
    OBVIOUS
  <2>2. counts.doubleFrees = 0 /\ counts.overflows = 0 /\ counts.useAfterFrees = 0
    BY NoFaultsCounted
  <2>3. scopes' = Append(scopes, o) /\ counts' = counts
    BY <1>5, <2>1 DEF ScopeBaseline, blockVars
  <2>4. o \in Opened
    BY <1>2, <2>1, <2>2 DEF Opened, Mistakes, NoMistakes
  <2>5. NotedBefore(o)
    BY <1>2, <2>1, <2>2 DEF NotedBefore
  <2>6. NotedBefore(o)'
    BY <1>4, <2>4, <2>5
  <2>7. /\ scopes' \in Seq(Opened)
        /\ \A i \in DOMAIN scopes' :
             (i \in DOMAIN scopes /\ scopes'[i] = scopes[i]) \/ scopes'[i] = o
    BY <1>2, <2>3, <2>4
  <2> QED
    BY <1>2, <1>4, <2>6, <2>7 DEF Noted
<1>6. CASE ScopeReset
  <2>1. PICK q, n, x, r :
          q = scopes /\ n = Len(scopes) /\ x = counts.liveBytes /\ r = scopes'
    OBVIOUS
  <2>2. r = Rebased(q, n, x) /\ x \in Nat /\ q \in Seq(Opened)
    BY <1>2, <1>6, <2>1 DEF ScopeReset, Counters, Rebased
  <2>3. /\ r \in Seq(Opened) /\ DOMAIN r = DOMAIN q
        /\ \A i \in DOMAIN q :
             /\ r[i].sequence = q[i].sequence /\ r[i].allocations = q[i].allocations
             /\ r[i].frees = q[i].frees /\ r[i].doubleFrees = q[i].doubleFrees
             /\ r[i].overflows = q[i].overflows /\ r[i].useAfterFrees = q[i].useAfterFrees
             /\ r[i].opening = q[i].opening
    BY <2>2, BaseChanged
  <2>4. ASSUME NEW i \in DOMAIN scopes PROVE NotedBefore(scopes[i])'
    <3>1. NotedBefore(scopes[i]) /\ scopes[i] \in Opened
      BY <1>2 DEF Noted
    <3>2. PICK o, u : o = scopes[i] /\ u = scopes'[i]
      OBVIOUS
    <3>3. NotedBefore(o)'
      BY <1>4, <3>1, <3>2
    <3>4. /\ u.sequence = o.sequence /\ u.allocations = o.allocations /\ u.frees = o.frees
          /\ u.doubleFrees = o.doubleFrees /\ u.overflows = o.overflows
          /\ u.useAfterFrees = o.useAfterFrees /\ u.opening = o.opening
      BY <2>1, <2>3, <3>2
    <3>5. NotedBefore(u)'
      BY <3>3, <3>4 DEF NotedBefore
    <3> QED
      BY <3>2, <3>5
  <2> QED
    BY <2>1, <2>3, <2>4 DEF Noted
<1>7. CASE EndRecording
  <2>1. scopes' = SubSeq(scopes, 1, Len(scopes) - 1) /\ scopes # <<>>
    BY <1>7 DEF EndRecording
  <2>2. \A S : \A q \in Seq(S) : q # <<>> =>
          LET r == SubSeq(q, 1, Len(q) - 1)
          IN r \in Seq(S) /\ \A i \in DOMAIN r : i \in DOMAIN q /\ r[i] = q[i]
    OBVIOUS
  <2>3. /\ scopes' \in Seq(Opened)
        /\ \A i \in DOMAIN scopes' : i \in DOMAIN scopes /\ scopes'[i] = scopes[i]
    BY <1>2, <2>1, <2>2
  <2> QED
    BY <1>2, <1>4, <2>3 DEF Noted
<1>8. CASE ~ScopeBaseline /\ ~ScopeReset /\ ~EndRecording
  <2>1. scopes' = scopes
    BY <1>8, ScopesFrame
  <2> QED
    BY <1>2, <1>4, <2>1 DEF Noted
<1> QED
  BY <1>5, <1>6, <1>7, <1>8
\* While Main reports, alone, nothing else happens.
LEMMA QuietSteps ==
  ASSUME Faultless, pc[Main] \in {"counts", "sample"}, Alone(Main),
         [Next]_vars, ~ReadCounts, ~Sample
  PROVE  UNCHANGED <<heapVars, slotVars, modeVars, blockVars, pc, ptr, scopeVars>>
<1> DEFINE Same == UNCHANGED <<heapVars, slotVars, modeVars, blockVars, pc, ptr, scopeVars>>
<1>1. "joined" \in Assumes /\ Faults = {}
  BY DEF Faultless, Discipline, AllAssumes
<1>2. \A t \in Threads : pc[t] \in {"idle", "counts", "sample"} /\ ~MayStart(t)
  BY <1>1 DEF Alone, MayStart
<1>3. \A t \in Threads : ~Continue(t)
  BY <1>2 DEF Continue, RawAllocate, AllocateFails, HookAllocate, Link, RawFree, Lookup,
              CountDoubleFree, PassThrough, ReportSmashed, InspectRedzones, Unlink, HoldBack,
              ReleaseNow, Settle, FinishUninstall
<1>4. \A t \in Threads : ~LoadAllocate(t) /\ ~LoadDeallocate(t) /\ ~Reallocate(t) /\ ~DoubleFree(t)
  BY <1>2 DEF LoadAllocate, LoadDeallocate, Reallocate, DoubleFree
<1>5. ~FinishInstall /\ ~ScopeBaseline /\ ~ScopeReset
  BY DEF FinishInstall, ScopeBaseline, ScopeReset
<1>6. ~BeginRecording /\ ~EndRecording /\ ~FlushQuarantine
  BY DEF BeginRecording, EndRecording, FlushQuarantine
<1>7. ~ProgramWrites
  BY <1>1 DEF ProgramWrites, Overrun, Smash, DanglingWrite
<1>8. ASSUME NEW t \in Threads, ToggleBypass(t) PROVE Same
  BY <1>8 DEF ToggleBypass
<1>9. UNCHANGED vars => Same
  BY DEF vars
<1> HIDE DEF Same
<1>10. Same
  BY <1>3, <1>4, <1>5, <1>6, <1>7, <1>8, <1>9 DEF Next, ContinueScope
<1> QED
  BY <1>10 DEF Same

\* A report is put together by Main alone.
LEMMA ReportingNext ==
  ASSUME Faultless, pc \in [Threads -> Labels], Reporting, [Next]_vars
  PROVE  Reporting'
<1> DEFINE Busy == pc[Main] \in {"counts", "sample"}
<1>1. /\ Busy => Alone(Main) /\ scopes # <<>>
      /\ pc[Main] = "counts" => report = {}
      /\ pc[Main] = "sample" => report = {HalfReport}
      /\ Main \in Threads /\ "joined" \in Assumes
  BY ThreadsAssumption DEF Reporting, Faultless, Discipline, AllAssumes
<1>2. CASE Busy /\ ~ReadCounts /\ ~Sample
  <2>1. UNCHANGED <<pc, report, scopes, counts>>
    BY <1>1, <1>2, QuietSteps DEF scopeVars, blockVars
  <2> QED
    BY <1>1, <2>1 DEF Reporting, Alone, HalfReport
<1>3. CASE ReadCounts
  <2>1. /\ pc[Main] = "counts" /\ pc' = [pc EXCEPT ![Main] = "sample"]
        /\ UNCHANGED <<scopes, counts>> /\ report' = {HalfReport}
    BY <1>3 DEF ReadCounts, Goto, blockVars, HalfReport
  <2>2. /\ Alone(Main)' /\ scopes' # <<>> /\ pc'[Main] = "sample" /\ report' = {HalfReport'}
    BY <1>1, <2>1 DEF Alone, HalfReport
  <2> QED
    BY <2>2 DEF Reporting
<1>4. CASE Sample
  BY <1>1, <1>4 DEF Sample, Goto, Reporting
<1>5. CASE FlushQuarantine
  <2>1. /\ Alone(Main) /\ scopes # <<>> /\ scopes' = scopes /\ report' = {}
        /\ pc' = [pc EXCEPT ![Main] = "counts"]
    BY <1>1, <1>5 DEF FlushQuarantine, Joined, Goto
  <2>2. Alone(Main)' /\ pc'[Main] = "counts"
    BY <1>1, <2>1 DEF Alone
  <2> QED
    BY <2>1, <2>2 DEF Reporting
<1>6. CASE BeginRecording \/ FinishInstall \/ ScopeBaseline \/ ScopeReset
  <2>1. pc'[Main] \notin {"counts", "sample"}
    BY <1>1, <1>6 DEF BeginRecording, FinishInstall, ScopeBaseline, ScopeReset, Goto
  <2> QED
    BY <2>1 DEF Reporting
<1>7. CASE /\ ~Busy /\ ~BeginRecording /\ ~FinishInstall /\ ~ScopeBaseline
           /\ ~ScopeReset /\ ~FlushQuarantine /\ ~ReadCounts /\ ~Sample
  <2>1. pc'[Main] \notin {"counts", "sample"}
    BY <1>7, MainSteps DEF ScopeLabels
  <2> QED
    BY <2>1 DEF Reporting
<1> QED
  BY <1>2, <1>3, <1>4, <1>5, <1>6, <1>7

\* It holds before the program starts.
LEMMA PromiseInvInit == Init => PromiseInv
<1> SUFFICES ASSUME Init PROVE PromiseInv
  OBVIOUS
<1>1. FaultInv
  BY FaultInvInit
<1>2. Unharmed
  BY DEF Init, Unharmed, NoHeader, NoMistakes
<1>3. Numbered
  BY DEF Init, Numbered
<1>4. Noted
  BY DEF Init, Noted
<1>5. Reporting
  BY ThreadsAssumption DEF Init, Reporting
<1> QED
  BY <1>1, <1>2, <1>3, <1>4, <1>5 DEF PromiseInv

\* And every step keeps it.
LEMMA PromiseInvNext ==
  ASSUME Faultless, PromiseInv, [Next]_vars
  PROVE  PromiseInv'
<1>1. FaultInv /\ Unharmed /\ Numbered /\ Noted /\ Reporting
  BY DEF PromiseInv
<1>2. FaultInv'
  BY <1>1, FaultInvNext DEF Faultless
<1>3. HeapInv /\ HeapInv' /\ CountInv /\ CountInv' /\ pc \in [Threads -> Labels]
  BY <1>1, <1>2 DEF FaultInv, HookInv, HookTypeOK
<1>4. Unharmed' /\ Numbered' /\ Noted' /\ Reporting'
  BY <1>1, <1>2, <1>3, UnharmedNext, NumberedNext, NotedNext, ReportingNext
<1> QED
  BY <1>2, <1>4 DEF PromiseInv
-----------------------------------------------------------------------------
(* What the program holds, as the tracker's list has it. *)

Own == {s \in m_list : \E p \in owned : p[1] = s}

Mapped == heldBlocks = BlocksOf(Own) /\ freedBlocks = BlocksOf(m_list \ Own)

\* The blocks of the list are those the program holds and those it is giving back.
LEMMA ListIsHeld ==
  ASSUME HeapInv, Unharmed
  PROVE  Mapped
<1>1. ASSUME NEW q \in owned, Tracked(q) PROVE Block(q) /\ q[1] \in Own
  <2>1. Block(q)
    BY <1>1, LiveMeansBlock DEF HeapInv
  <2> QED
    BY <2>1 DEF Block, Own
<1>2. ASSUME NEW s \in Own PROVE \E q \in owned : Tracked(q) /\ q[1] = s
  <2>1. PICK q \in owned : q[1] = s
    BY DEF Own
  <2>2. Block(q)
    BY <2>1 DEF Own, Raw, HeapInv, HeapTypes, Layout
  <2> QED
    BY <2>1, <2>2, LiveMeansBlock
<1>3. {p[1] : p \in {q \in owned : Tracked(q)}} = Own
  BY <1>1, <1>2
<1>4. ASSUME NEW t \in InFlight PROVE ptr[t][1] \in m_list \ Own
  <2>1. /\ pc[t] \in {"lookup", "notOurs", "inspect", "unlink"} /\ t \in Threads
        /\ Tracked(ptr[t]) /\ PointerOK(t)
    BY DEF InFlight, HeapInv
  <2>2. Raw(ptr[t]) \/ Block(ptr[t])
    BY <2>1 DEF PointerOK
  <2>3. Block(ptr[t])
    BY <2>1, <2>2, LiveMeansBlock
  <2>4. \A p \in owned : p[1] # ptr[t][1]
    BY <2>1 DEF HeapInv, Exclusive, Holding
  <2> QED
    BY <2>3, <2>4 DEF Block, Own
<1>5. ASSUME NEW s \in m_list \ Own PROVE \E t \in InFlight : ptr[t][1] = s
  <2>1. s \in Slots /\ header[s].magic = "live"
    BY DEF HeapInv, HeapTypes, Layout, Unharmed
  <2>2. Payload(s)[1] = s
    BY PayloadFacts
  <2>3. Payload(s) \notin owned
    BY <2>2 DEF Own
  <2>4. PICK t \in Threads : pc[t] \in {"lookup", "inspect", "unlink"} /\ ptr[t] = Payload(s)
    BY <2>1, <2>3 DEF HeapInv, Placed
  <2>5. Payload(s) \in m_live
    BY <2>1 DEF HeapInv, Linked
  <2>6. Block(ptr[t])
    BY <2>2, <2>4, <2>5 DEF Block
  <2>7. Tracked(ptr[t])
    BY <2>6, LiveMeansBlock
  <2>8. t \in InFlight
    BY <2>1, <2>2, <2>4, <2>7 DEF InFlight
  <2> QED
    BY <2>2, <2>4, <2>8
<1>6. {ptr[t][1] : t \in InFlight} = m_list \ Own
  BY <1>4, <1>5
<1> QED
  BY <1>3, <1>6 DEF Mapped, heldBlocks, freedBlocks

\* Before a step and after it.
LEMMA MappedTwice ==
  ASSUME HeapInv, HeapInv', Unharmed, Unharmed'
  PROVE  Mapped /\ Mapped'
<1>1. HeapInv /\ Unharmed => Mapped
  BY ListIsHeld
<1>2. (HeapInv /\ Unharmed => Mapped)'
  BY ListIsHeld, PTL
<1> QED
  BY <1>1, <1>2

\* Names change with the headers of the list only.
LEMMA NamesKept ==
  ASSUME HeapInv, HeapInv', [Next]_vars, NEW S, S \subseteq m_list, S \subseteq m_list'
  PROVE  BlocksOf(S)' = BlocksOf(S)
<1>1. \A s \in S : header'[s].size = header[s].size /\ header'[s].sequence = header[s].sequence
  BY ListKept
<1> QED
  BY <1>1 DEF BlocksOf

Gives(t, p) == LoadDeallocate(t) /\ owned' = owned \ {p} /\ p \in owned /\ Block(p)

\* The blocks of the program change hands in three steps.
LEMMA HeldFrame ==
  ASSUME HookInv, HeapInv, HeapInv', CountInv, Unharmed, Unharmed', [Next]_vars,
         \A t \in Threads : ~Link(t) /\ ~Unlink(t) /\ \A p : ~Gives(t, p)
  PROVE  heldBlocks' = heldBlocks /\ freedBlocks' = freedBlocks
<1> DEFINE Same == Own' = Own
<1>1. m_list' = m_list
  BY TalliesKept
<1>2. \A p : Block(p) => p[1] \in m_list
  BY DEF Block
<1>3. ASSUME NEW t \in Threads, RawAllocate(t) PROVE Same
  <2>1. PICK s \in Slots, o \in SystemOffsets :
          heap[s] = NoChunk /\ owned' = owned \union {<<s, o>>}
    BY <1>3 DEF RawAllocate
  <2>2. s \notin m_list
    BY <2>1, FreeSlot
  <2> QED
    BY <1>1, <2>1, <2>2 DEF Own
<1>4. ASSUME NEW t \in Threads, LoadDeallocate(t) PROVE Same
  <2>1. PICK p \in owned : owned' = owned \ {p}
    BY <1>4 DEF LoadDeallocate
  <2>2. Raw(p) /\ ~Block(p)
    BY <1>4, <2>1 DEF Gives, HeapInv
  <2>3. p[1] \notin m_list
    BY <2>2 DEF Raw, HeapInv, HeapTypes, Layout
  <2> QED
    BY <1>1, <2>1, <2>3 DEF Own
<1>5. ASSUME NEW t \in Threads, Reallocate(t) PROVE Same
  <2>1. PICK p \in owned : /\ ~trackedSize(p)
                           /\ \/ owned' = owned
                              \/ \E s \in Slots, o \in SystemOffsets :
                                   /\ s = p[1] \/ heap[s] = NoChunk
                                   /\ owned' = (owned \ {p}) \union {<<s, o>>}
    BY <1>5 DEF Reallocate
  <2>2. CASE owned' = owned
    BY <1>1, <2>2 DEF Own
  <2>3. CASE owned' # owned
    <3>1. PICK s \in Slots, o \in SystemOffsets :
            (s = p[1] \/ heap[s] = NoChunk) /\ owned' = (owned \ {p}) \union {<<s, o>>}
      BY <2>1, <2>3
    <3>2. ~Block(p)
      <4>1. ASSUME Block(p) PROVE FALSE
        <5>1. p \in m_live /\ headerOf(p) = header[p[1]] /\ p[1] \in m_list
          BY <4>1, LiveMeansBlock DEF Block
        <5>2. m_installed
          BY <5>1 DEF HookInv, OutMeansEmpty
        <5>3. header[p[1]].magic = "live"
          BY <5>1 DEF HeapInv, HeapTypes, Layout, Unharmed
        <5> QED
          BY <2>1, <5>1, <5>2, <5>3 DEF trackedSize
      <4> QED
        BY <4>1
    <3>3. p[1] \notin m_list
      BY <3>2 DEF Raw, HeapInv, HeapTypes, Layout
    <3>4. s \notin m_list
      BY <3>1, <3>3, FreeSlot
    <3> QED
      BY <1>1, <3>1, <3>3, <3>4 DEF Own
  <2> QED
    BY <2>2, <2>3
<1>6. owned' = owned => Same
  BY <1>1 DEF Own
<1>7. Same
  <2> HIDE DEF Same
  <2>1. ASSUME NEW t \in Threads,
               \/ AllocateFails(t) \/ HookAllocate(t) \/ RawFree(t) \/ Lookup(t)
               \/ CountDoubleFree(t) \/ PassThrough(t) \/ ReportSmashed(t)
               \/ InspectRedzones(t) \/ HoldBack(t) \/ ReleaseNow(t) \/ Settle(t)
               \/ FinishUninstall(t) \/ LoadAllocate(t) \/ DoubleFree(t) \/ ToggleBypass(t)
        PROVE  Same
    BY <1>6, <2>1
       DEF heapVars, AllocateFails, HookAllocate, RawFree, Lookup, CountDoubleFree, PassThrough,
           ReportSmashed, InspectRedzones, HoldBack, ReleaseNow, Settle, FinishUninstall,
           LoadAllocate, DoubleFree, ToggleBypass
  <2>2. ASSUME ContinueScope \/ BeginRecording \/ EndRecording \/ FlushQuarantine
               \/ ProgramWrites \/ UNCHANGED vars
        PROVE  Same
    BY <1>6, <2>2
       DEF heapVars, vars, ContinueScope, FinishInstall, ScopeBaseline, ScopeReset, ReadCounts,
           Sample, BeginRecording, EndRecording, FlushQuarantine, ProgramWrites
  <2> QED
    BY <1>3, <1>4, <1>5, <2>1, <2>2 DEF Next, Continue
<1>8. Mapped /\ Mapped'
  BY MappedTwice
<1>9. PICK A, B : A = Own /\ B = m_list \ Own
  OBVIOUS
<1>10. BlocksOf(A)' = BlocksOf(A) /\ BlocksOf(B)' = BlocksOf(B)
  <2>1. A \subseteq m_list /\ B \subseteq m_list
    BY <1>9 DEF Own
  <2> QED
    BY <1>1, <2>1, NamesKept
<1>11. Own' = A /\ m_list' \ Own' = B
  BY <1>1, <1>7, <1>9
<1>12. BlocksOf(Own)' = BlocksOf(A)' /\ BlocksOf(m_list \ Own)' = BlocksOf(B)'
  BY <1>11 DEF BlocksOf
<1> QED
  BY <1>8, <1>9, <1>10, <1>12 DEF Mapped
\* What was noted of the Scopes changes when one opens or closes.
LEMMA OpenedFrame ==
  ASSUME CountInv, Noted, [Next]_vars, ~ScopeBaseline, ~EndRecording
  PROVE  openedScopes' = openedScopes
<1>1. CASE ScopeReset
  <2>1. PICK q, n, x, r :
          q = scopes /\ n = Len(scopes) /\ x = counts.liveBytes /\ r = scopes'
    OBVIOUS
  <2>2. r = Rebased(q, n, x) /\ x \in Nat /\ q \in Seq(Opened)
    BY <1>1, <2>1 DEF ScopeReset, CountInv, Counters, Noted, Rebased
  <2>3. /\ DOMAIN r = DOMAIN q
        /\ \A i \in DOMAIN q : /\ r[i].sequence = q[i].sequence /\ r[i].frees = q[i].frees
                               /\ r[i].opening = q[i].opening
    BY <2>2, BaseChanged
  <2> QED
    BY <2>1, <2>3 DEF openedScopes
<1>2. CASE ~ScopeReset
  <2>1. scopes' = scopes
    BY <1>2, ScopesFrame
  <2> QED
    BY <2>1 DEF openedScopes
<1> QED
  BY <1>1, <1>2

\* The report is the program's to read when Main has finished it.
LEMMA ReportFrame ==
  ASSUME pc \in [Threads -> Labels], Reporting, Unharmed, Unharmed', [Next]_vars,
         ~EndRecording, ~FlushQuarantine, ~Sample
  PROVE  finishedReport' = finishedReport
<1>1. CASE ReadCounts
  <2>1. pc[Main] = "counts" /\ pc'[Main] = "sample" /\ report = {}
    BY <1>1, ThreadsAssumption DEF ReadCounts, Goto, Reporting
  <2>2. finishedReport = {} /\ finishedReport' = {}
    BY <2>1 DEF finishedReport
  <2> QED
    BY <2>2
<1>2. CASE ~ReadCounts
  <2>1. report' = report
    BY <1>2
       DEF Next, Continue, ContinueScope, scopeVars, vars,
           RawAllocate, AllocateFails, HookAllocate, Link, RawFree, Lookup, CountDoubleFree,
           PassThrough, ReportSmashed, InspectRedzones, Unlink, HoldBack, ReleaseNow, Settle,
           FinishUninstall, LoadAllocate, LoadDeallocate, Reallocate, DoubleFree, ToggleBypass,
           FinishInstall, ScopeBaseline, ScopeReset, BeginRecording, ProgramWrites
  <2>2. pc'[Main] = "sample" <=> pc[Main] = "sample"
    <3>1. CASE BeginRecording \/ FinishInstall \/ ScopeBaseline \/ ScopeReset
      BY <3>1, ThreadsAssumption
         DEF BeginRecording, FinishInstall, ScopeBaseline, ScopeReset, Goto
    <3>2. CASE ~BeginRecording /\ ~FinishInstall /\ ~ScopeBaseline /\ ~ScopeReset
      BY <1>2, <3>2, MainSteps DEF ScopeLabels
    <3> QED
      BY <3>1, <3>2
  <2>3. truth' = truth
    BY DEF Unharmed
  <2> QED
    BY <2>1, <2>2, <2>3 DEF finishedReport, Promised
<1> QED
  BY <1>1, <1>2
-----------------------------------------------------------------------------
(* Step by step. *)

\* A block linked is a block allocated.
LEMMA LinkAllocates ==
  ASSUME HeapInv, HeapInv', Unharmed, Unharmed', CountInv, Numbered, [Next]_vars,
         NEW t \in Threads, Link(t)
  PROVE  /\ \E b \in heldBlocks' :
              /\ b.id = counts.allocations + 1
              /\ heldBlocks' = heldBlocks \union {[id |-> b.id, size |-> b.size]}
         /\ freedBlocks' = freedBlocks
         /\ counts'.allocations = counts.allocations + 1 /\ counts'.frees = counts.frees
<1>1. PICK s : s = ptr[t][1]
  OBVIOUS
<1>2. PICK z, A, B : z = header[s].size /\ A = Own /\ B = m_list \ Own
  OBVIOUS
<1>3. PointerOK(t) /\ pc[t] = "link" /\ header \in [Slots -> Header]
  BY DEF Link, HeapInv, HeapTypes
<1>4. s \in Slots \ m_list /\ ptr[t] = Payload(s) /\ Payload(s)[1] = s
  BY <1>1, <1>3, PayloadFacts DEF PointerOK
<1>5. /\ m_list' = m_list \union {s} /\ owned' = owned \union {ptr[t]}
      /\ header' = [header EXCEPT ![s].sequence = m_sequence]
      /\ \E b, p, l : counts' = [counts EXCEPT !.allocations = @ + 1, !.liveBytes = b,
                                              !.peakBytes = p, !.largestBlock = l]
  BY <1>1 DEF Link
<1>6. counts'.allocations = counts.allocations + 1 /\ counts'.frees = counts.frees
  BY <1>5 DEF CountInv, Counters
<1>7. Own' = A \union {s} /\ m_list' \ Own' = B
  BY <1>2, <1>4, <1>5 DEF Own
<1>8. header'[s].sequence = counts.allocations + 1 /\ header'[s].size = z
  BY <1>2, <1>3, <1>4, <1>5 DEF Header, Numbered
<1>9. Mapped /\ Mapped'
  BY MappedTwice
<1>10. BlocksOf(A)' = BlocksOf(A) /\ BlocksOf(B)' = BlocksOf(B)
  <2>1. A \subseteq m_list /\ B \subseteq m_list
    BY <1>2 DEF Own
  <2>2. A \subseteq m_list' /\ B \subseteq m_list'
    BY <1>5, <2>1
  <2> QED
    BY <2>1, <2>2, NamesKept
<1>11. BlocksOf(Own)' = BlocksOf(A)' \union {[id |-> counts.allocations + 1, size |-> z]}
  BY <1>7, <1>8 DEF BlocksOf
<1>12. BlocksOf(m_list \ Own)' = BlocksOf(B)'
  BY <1>7 DEF BlocksOf
<1>13. /\ heldBlocks' = heldBlocks \union {[id |-> counts.allocations + 1, size |-> z]}
       /\ freedBlocks' = freedBlocks
  BY <1>2, <1>9, <1>10, <1>11, <1>12 DEF Mapped
<1>14. PICK b : b = [id |-> counts.allocations + 1, size |-> z]
  OBVIOUS
<1>15. b.id = counts.allocations + 1 /\ b = [id |-> b.id, size |-> b.size] /\ b \in heldBlocks'
  BY <1>13, <1>14
<1> QED
  BY <1>6, <1>13, <1>14, <1>15

\* A block the program gives to operator delete is a block freed.
LEMMA GiveFrees ==
  ASSUME HeapInv, HeapInv', Unharmed, Unharmed', CountInv, Numbered, [Next]_vars,
         NEW t \in Threads, NEW p, Gives(t, p)
  PROVE  /\ \E b \in heldBlocks : /\ heldBlocks' = heldBlocks \ {b}
                                  /\ freedBlocks' = freedBlocks \union {b}
         /\ counts' = counts
<1>1. PICK s, b, A, B : /\ s = p[1] /\ A = Own /\ B = m_list \ Own
                        /\ b = [id |-> header[s].sequence, size |-> header[s].size]
  OBVIOUS
<1>2. /\ m_list' = m_list /\ header' = header /\ counts' = counts
      /\ owned' = owned \ {p} /\ p \in owned /\ Block(p)
  BY DEF Gives, LoadDeallocate, blockVars
<1>3. s \in A /\ A \subseteq m_list
  BY <1>1, <1>2 DEF Own, Block
<1>4. \A q \in owned : q[1] = s => q = p
  BY <1>1, <1>2, OwnedApart
<1>5. Own' = A \ {s} /\ m_list' \ Own' = B \union {s}
  BY <1>1, <1>2, <1>3, <1>4 DEF Own
<1>6. \A r \in A : header[r].sequence = header[s].sequence => r = s
  BY <1>3 DEF Numbered
<1>7. Mapped /\ Mapped'
  BY MappedTwice
<1>8. b \in BlocksOf(A)
  BY <1>1, <1>3 DEF BlocksOf
<1>9. BlocksOf(Own)' = BlocksOf(A) \ {b}
  BY <1>1, <1>2, <1>3, <1>5, <1>6 DEF BlocksOf
<1>10. BlocksOf(m_list \ Own)' = BlocksOf(B) \union {b}
  BY <1>1, <1>2, <1>5 DEF BlocksOf
<1> QED
  BY <1>1, <1>2, <1>7, <1>8, <1>9, <1>10 DEF Mapped

\* A block unlinked has been returned.
LEMMA UnlinkReturns ==
  ASSUME HeapInv, HeapInv', Unharmed, Unharmed', CountInv, Numbered, [Next]_vars,
         NEW t \in Threads, Unlink(t)
  PROVE  /\ \E b \in freedBlocks : freedBlocks' = freedBlocks \ {b}
         /\ heldBlocks' = heldBlocks
         /\ counts'.allocations = counts.allocations /\ counts'.frees = counts.frees + 1
<1>1. PICK s, b, A, B : /\ s = ptr[t][1] /\ A = Own /\ B = m_list \ Own
                        /\ b = [id |-> header[s].sequence, size |-> header[s].size]
  OBVIOUS
<1>2. /\ m_list' = m_list \ {s} /\ header' = header /\ owned' = owned /\ pc[t] = "unlink"
      /\ \E l : counts' = [counts EXCEPT !.frees = @ + 1, !.liveBytes = l]
  BY <1>1 DEF Unlink, heapVars
<1>3. counts'.allocations = counts.allocations /\ counts'.frees = counts.frees + 1
  BY <1>2 DEF CountInv, Counters
<1>4. s \in B
  <2>1. PointerOK(t) /\ \A p \in owned : p[1] # s
    BY <1>1, <1>2 DEF HeapInv, Exclusive, Holding
  <2> QED
    BY <1>1, <1>2, <2>1 DEF PointerOK, Block, Own
<1>5. Own' = A /\ m_list' \ Own' = B \ {s}
  BY <1>1, <1>2, <1>4 DEF Own
<1>6. \A r \in B : header[r].sequence = header[s].sequence => r = s
  BY <1>1, <1>4 DEF Numbered
<1>7. Mapped /\ Mapped'
  BY MappedTwice
<1>8. b \in BlocksOf(B)
  BY <1>1, <1>4 DEF BlocksOf
<1>9. BlocksOf(Own)' = BlocksOf(A)
  BY <1>2, <1>5 DEF BlocksOf
<1>10. BlocksOf(m_list \ Own)' = BlocksOf(B) \ {b}
  BY <1>1, <1>2, <1>4, <1>5, <1>6 DEF BlocksOf
<1> QED
  BY <1>1, <1>3, <1>7, <1>8, <1>9, <1>10 DEF Mapped
Note == [made : Int, returned : Nat, faults : Mistakes]

Entry(o) == [made |-> o.sequence - 1, returned |-> o.frees, faults |-> o.opening]

Entries(q) == [i \in DOMAIN q |-> Entry(q[i])]

\* Notes are taken one by one.
LEMMA EntriesFacts ==
  ASSUME NEW q \in Seq(Opened)
  PROVE  /\ Entries(q) \in Seq(Note) /\ Len(Entries(q)) = Len(q)
         /\ \A i \in DOMAIN q : Entries(q)[i] = Entry(q[i])
         /\ \A o \in Opened : Entries(Append(q, o)) = Append(Entries(q), Entry(o))
         /\ q # <<>> => Entries(SubSeq(q, 1, Len(q) - 1))
                          = SubSeq(Entries(q), 1, Len(Entries(q)) - 1)
<1>1. \A o \in Opened : Entry(o) \in Note
  BY DEF Opened, Entry, Note
<1>2. \A S : \A a, b \in Seq(S) : Len(a) = Len(b) /\ (\A i \in 1..Len(a) : a[i] = b[i]) => a = b
  OBVIOUS
<1>3. ASSUME NEW r \in Seq(Opened)
      PROVE  /\ Entries(r) \in Seq(Note) /\ Len(Entries(r)) = Len(r)
             /\ DOMAIN r = 1..Len(r) /\ Len(r) \in Nat
             /\ \A i \in 1..Len(r) : r[i] \in Opened /\ Entries(r)[i] = Entry(r[i])
  <2>1. DOMAIN r = 1..Len(r) /\ Len(r) \in Nat /\ \A i \in 1..Len(r) : r[i] \in Opened
    OBVIOUS
  <2>2. PICK k : k \in Nat /\ k = Len(r)
    BY <2>1
  <2>3. Entries(r) \in [1..k -> Note] /\ \A i \in 1..k : Entries(r)[i] = Entry(r[i])
    BY <1>1, <2>1, <2>2 DEF Entries
  <2>4. \A S : \A f \in [1..k -> S] : f \in Seq(S) /\ Len(f) = k
    BY <2>2
  <2> QED
    BY <2>1, <2>2, <2>3, <2>4
<1>4. ASSUME NEW o \in Opened PROVE Entries(Append(q, o)) = Append(Entries(q), Entry(o))
  <2>1. PICK r, e, n : r = Append(q, o) /\ e = Entries(q) /\ n = Entry(o)
    OBVIOUS
  <2>2. /\ r \in Seq(Opened) /\ Len(r) = Len(q) + 1 /\ r[Len(q) + 1] = o
        /\ \A i \in 1..Len(q) : r[i] = q[i]
    BY <2>1
  <2>3. e \in Seq(Note) /\ Len(e) = Len(q) /\ n \in Note /\ Len(q) \in Nat
    BY <1>1, <1>3, <2>1
  <2>4. /\ Append(e, n) \in Seq(Note) /\ Len(Append(e, n)) = Len(q) + 1
        /\ Append(e, n)[Len(q) + 1] = n /\ \A i \in 1..Len(q) : Append(e, n)[i] = e[i]
    BY <2>3
  <2>5. Entries(r) \in Seq(Note) /\ Len(Entries(r)) = Len(q) + 1
    BY <1>3, <2>2
  <2>6. ASSUME NEW i \in 1..(Len(q) + 1) PROVE Entries(r)[i] = Append(e, n)[i]
    <3>1. Entries(r)[i] = Entry(r[i])
      BY <1>3, <2>2
    <3>2. CASE i = Len(q) + 1
      BY <2>1, <2>2, <2>4, <3>1, <3>2
    <3>3. CASE i # Len(q) + 1
      <4>1. i \in 1..Len(q)
        BY <2>3, <3>3
      <4>2. e[i] = Entry(q[i])
        BY <1>3, <2>1, <4>1
      <4> QED
        BY <2>2, <2>4, <3>1, <4>1, <4>2
    <3> QED
      BY <3>2, <3>3
  <2> QED
    BY <1>2, <2>1, <2>4, <2>5, <2>6
<1>5. ASSUME q # <<>>
      PROVE  Entries(SubSeq(q, 1, Len(q) - 1)) = SubSeq(Entries(q), 1, Len(Entries(q)) - 1)
  <2>1. PICK r, e, k : r = SubSeq(q, 1, Len(q) - 1) /\ e = Entries(q) /\ k = Len(q) - 1
    OBVIOUS
  <2>2. /\ r \in Seq(Opened) /\ Len(r) = k /\ k \in Nat /\ Len(q) = k + 1
        /\ \A i \in 1..k : r[i] = q[i]
    BY <1>5, <2>1
  <2>3. e \in Seq(Note) /\ Len(e) = k + 1
    BY <1>3, <2>1, <2>2
  <2>4. PICK f : f = SubSeq(e, 1, k)
    OBVIOUS
  <2>5. f \in Seq(Note) /\ Len(f) = k /\ \A i \in 1..k : f[i] = e[i]
    BY <2>2, <2>3, <2>4
  <2>6. Entries(r) \in Seq(Note) /\ Len(Entries(r)) = k
    BY <1>3, <2>2
  <2>7. ASSUME NEW i \in 1..k PROVE Entries(r)[i] = f[i]
    <3>1. Entries(r)[i] = Entry(r[i]) /\ i \in 1..Len(q)
      BY <1>3, <2>2
    <3>2. e[i] = Entry(q[i])
      BY <1>3, <2>1, <3>1
    <3> QED
      BY <2>2, <2>5, <3>1, <3>2
  <2>8. Entries(r) = f
    BY <1>2, <2>5, <2>6, <2>7
  <2> QED
    BY <2>1, <2>2, <2>3, <2>4, <2>8
<1> QED
  BY <1>3, <1>4, <1>5
Younger(S, made) == {b \in S : b.id > made}

\* The leaks of a Scope, by header and by name.
LEMMA LeaksAgree ==
  ASSUME HeapInv, Numbered, counts.allocations \in Nat, NEW q \in Nat
  PROVE  LET old == Leaked(q)
             new == Younger(BlocksOf(m_list), q - 1)
         IN /\ Cardinality(new) = Cardinality(old)
            /\ SumFunction([b \in new |-> b.size]) = SumFunction([s \in old |-> header[s].size])
<1>1. PICK S, T : S = Leaked(q) /\ T = Younger(BlocksOf(m_list), q - 1)
  OBVIOUS
<1>2. PICK nm : nm = [s \in S |-> [id |-> header[s].sequence, size |-> header[s].size]]
  OBVIOUS
<1>3. /\ S \subseteq m_list /\ m_list \subseteq Slots /\ IsFiniteSet(m_list)
      /\ \A s \in Slots : header[s] \in Header
  BY <1>1 DEF HeapInv, HeapTypes, Linked, Leaked
<1>4. IsFiniteSet(S)
  BY <1>3, FS_Subset
<1>5. \A s \in m_list : header[s].sequence \in Nat /\ header[s].size \in Nat
  BY <1>3 DEF Header
<1>6. \A x, y \in S : nm[x] = nm[y] => x = y
  BY <1>2, <1>3 DEF Numbered
<1>7. T = {nm[s] : s \in S}
  <2>1. ASSUME NEW b \in T PROVE \E s \in S : b = nm[s]
    <3>1. PICK s \in m_list : b = [id |-> header[s].sequence, size |-> header[s].size]
      BY <1>1 DEF Younger, BlocksOf
    <3>2. header[s].sequence > q - 1
      BY <1>1, <3>1 DEF Younger
    <3>3. s \in S
      BY <1>1, <1>5, <3>2 DEF Leaked
    <3> QED
      BY <1>2, <3>1, <3>3
  <2>2. ASSUME NEW s \in S PROVE nm[s] \in T
    <3>1. s \in m_list /\ header[s].sequence >= q
      BY <1>1 DEF Leaked
    <3>2. header[s].sequence > q - 1
      BY <1>5, <3>1
    <3>3. nm[s] \in BlocksOf(m_list) /\ nm[s].id = header[s].sequence
      BY <1>2, <3>1 DEF BlocksOf
    <3> QED
      BY <1>1, <3>2, <3>3 DEF Younger
  <2> QED
    BY <2>1, <2>2
<1>8. Cardinality(T) = Cardinality(S)
  BY <1>4, <1>6, <1>7, ImageCount
<1>9. PICK f, g : f = [s \in S |-> header[s].size] /\ g = [b \in T |-> b.size]
  OBVIOUS
<1>10. \A s \in S : f[s] \in Int /\ g[nm[s]] = f[s]
  BY <1>2, <1>3, <1>5, <1>7, <1>9
<1>11. SumFunctionOnSet(g, {nm[s] : s \in S}) = SumFunctionOnSet(f, S)
  BY <1>4, <1>6, <1>10, SumImage
<1>12. DOMAIN f = S /\ DOMAIN g = T
  BY <1>9
<1>13. SumFunction(g) = SumFunction(f)
  BY <1>7, <1>11, <1>12 DEF SumFunction
<1> QED
  BY <1>1, <1>8, <1>9, <1>13

\* The seven numbers a report owes the program.
Owed(r) ==
  [allocations |-> r.allocations, frees |-> r.frees,
   leakedBlocks |-> r.leakedBlocks, leakedBytes |-> r.leakedBytes,
   doubleFrees |-> r.doubleFrees, overflows |-> r.overflows, useAfterFrees |-> r.useAfterFrees]

LEMMA PromisedNumbers ==
  ASSUME truth = NoMistakes, NEW r
  PROVE  [f \in Promised |-> r[f]] = Owed(r)
<1>1. Promised = {"allocations", "frees", "leakedBlocks", "leakedBytes",
                  "doubleFrees", "overflows", "useAfterFrees"}
  BY DEF Promised, NoMistakes
<1> QED
  BY <1>1 DEF Owed
\* Opening a Scope notes what has been counted.
LEMMA BaselineOpens ==
  ASSUME FaultInv, Unharmed, Numbered, Noted, ScopeBaseline
  PROVE  openedScopes' = Append(openedScopes, [made |-> counts.allocations,
                                               returned |-> counts.frees, faults |-> truth])
<1>1. PICK o : o = [sequence |-> m_sequence, allocations |-> counts.allocations,
                    frees |-> counts.frees, doubleFrees |-> counts.doubleFrees,
                    overflows |-> counts.overflows, useAfterFrees |-> counts.useAfterFrees,
                    peakBase |-> 0, opening |-> truth]
  OBVIOUS
<1>2. /\ counts \in Counters /\ counts.allocations \in Nat /\ counts.frees \in Nat
      /\ m_sequence = counts.allocations + 1 /\ truth = NoMistakes /\ scopes \in Seq(Opened)
  BY DEF FaultInv, CountInv, Counters, Unharmed, Numbered, Noted
<1>3. o \in Opened
  BY <1>1, <1>2, NoFaultsCounted DEF Opened, Mistakes, NoMistakes
<1>4. scopes' = Append(scopes, o)
  BY <1>1 DEF ScopeBaseline
<1>5. Entries(Append(scopes, o)) = Append(Entries(scopes), Entry(o))
  BY <1>2, <1>3, EntriesFacts
<1>6. openedScopes = Entries(scopes) /\ openedScopes' = Entries(scopes')
  BY DEF openedScopes, Entries, Entry
<1>7. Entry(o) = [made |-> counts.allocations, returned |-> counts.frees, faults |-> truth]
  BY <1>1, <1>2 DEF Entry
<1> QED
  BY <1>4, <1>5, <1>6, <1>7

\* What Sample adds to the half report is the report that was promised.
LEMMA SampleAnswers ==
  ASSUME PromiseInv, Sample
  PROVE  LET since  == openedScopes[Len(openedScopes)]
             leaked == Younger(heldBlocks, since.made)
         IN /\ openedScopes # <<>> /\ freedBlocks = {}
            /\ finishedReport' = {[
                 allocations   |-> counts.allocations - since.made,
                 frees         |-> counts.frees - since.returned,
                 leakedBlocks  |-> Cardinality(leaked),
                 leakedBytes   |-> SumFunction([b \in leaked |-> b.size]),
                 doubleFrees   |-> truth.doubleFrees - since.faults.doubleFrees,
                 overflows     |-> truth.overflows - since.faults.overflows,
                 useAfterFrees |-> truth.useAfterFrees - since.faults.useAfterFrees]}
<1>1. /\ FaultInv /\ HeapInv /\ CountInv /\ Unharmed /\ Numbered /\ Noted /\ Reporting
      /\ counts \in Counters /\ scopes \in Seq(Opened) /\ truth = NoMistakes
  BY DEF PromiseInv, FaultInv, CountInv, Noted, Unharmed
<1>2. /\ pc[Main] = "sample" /\ Alone(Main) /\ scopes # <<>> /\ report = {HalfReport}
      /\ pc' = [pc EXCEPT ![Main] = "idle"] /\ truth' = truth
  BY <1>1 DEF Sample, Goto, Reporting, heapVars
<1>3. PICK base, since : base = scopes[Len(scopes)] /\ since = openedScopes[Len(openedScopes)]
  OBVIOUS
<1>4. Len(scopes) \in DOMAIN scopes /\ base \in Opened /\ NotedBefore(base)
  <2>1. \A S : \A q \in Seq(S) : q # <<>> => Len(q) \in DOMAIN q /\ q[Len(q)] \in S
    OBVIOUS
  <2>2. Len(scopes) \in DOMAIN scopes /\ base \in Opened
    BY <1>1, <1>2, <1>3, <2>1
  <2> QED
    BY <1>3, <2>2, <1>1 DEF Noted
<1>5. openedScopes = Entries(scopes)
  BY DEF openedScopes, Entries, Entry
<1>6. Len(openedScopes) = Len(scopes) /\ openedScopes # <<>> /\ since = Entry(base)
  <2>1. Entries(scopes) \in Seq(Note) /\ Len(Entries(scopes)) = Len(scopes)
    BY <1>1, EntriesFacts
  <2>2. Entries(scopes)[Len(scopes)] = Entry(scopes[Len(scopes)])
    BY <1>1, <1>4, EntriesFacts
  <2>3. Len(scopes) # 0
    BY <1>1, <1>2
  <2>4. Len(<<>>) = 0
    OBVIOUS
  <2> QED
    BY <1>3, <1>5, <2>1, <2>2, <2>3, <2>4
<1>7. /\ base.sequence = base.allocations + 1 /\ base.allocations \in Nat /\ base.frees \in Nat
      /\ counts.allocations >= base.allocations /\ counts.frees >= base.frees
      /\ counts.allocations \in Nat /\ counts.frees \in Nat /\ base.opening = NoMistakes
      /\ base.doubleFrees = 0 /\ base.overflows = 0 /\ base.useAfterFrees = 0
      /\ counts.doubleFrees = 0 /\ counts.overflows = 0 /\ counts.useAfterFrees = 0
  <2>1. counts.doubleFrees = 0 /\ counts.overflows = 0 /\ counts.useAfterFrees = 0
    BY <1>1, NoFaultsCounted
  <2> QED
    BY <1>1, <1>4, <2>1 DEF NotedBefore, Opened, Counters
<1>8. /\ since.made = base.allocations /\ since.returned = base.frees
      /\ since.faults = NoMistakes /\ since.made = base.sequence - 1
  BY <1>6, <1>7 DEF Entry
<1>9. freedBlocks = {} /\ heldBlocks = BlocksOf(m_list)
  <2>1. \A t \in Threads : pc[t] \in {"idle", "sample"}
    BY <1>2 DEF Alone
  <2>2. InFlight = {}
    BY <2>1 DEF InFlight
  <2>3. freedBlocks = {}
    BY <2>2 DEF freedBlocks, BlocksOf
  <2>4. heldBlocks = BlocksOf(Own) /\ freedBlocks = BlocksOf(m_list \ Own)
    BY <1>1, ListIsHeld DEF Mapped
  <2>5. m_list \ Own = {}
    BY <2>3, <2>4 DEF BlocksOf
  <2>6. Own = m_list
    BY <2>5 DEF Own
  <2> QED
    BY <2>3, <2>4, <2>6
<1>10. PICK old, new : old = Leaked(base.sequence) /\ new = Younger(heldBlocks, since.made)
  OBVIOUS
<1>11. /\ Cardinality(new) = Cardinality(old)
       /\ SumFunction([b \in new |-> b.size]) = SumFunction([s \in old |-> header[s].size])
  <2>1. base.sequence \in Nat /\ counts.allocations \in Nat
    BY <1>7
  <2> QED
    BY <1>1, <1>8, <1>9, <1>10, <2>1, LeaksAgree
<1>12. PICK r : r = [HalfReport EXCEPT !.leakedBlocks = Cardinality(old),
                                       !.leakedBytes = SumFunction([s \in old |-> header[s].size])]
  OBVIOUS
<1>13. report' = {r}
  BY <1>2, <1>3, <1>10, <1>12 DEF Sample
<1>14. finishedReport' = {Owed(r)}
  <2>1. Promised' = Promised
    BY <1>2 DEF Promised
  <2>2. pc'[Main] # "sample"
    BY <1>1, <1>2, ThreadsAssumption DEF FaultInv, HookInv, HookTypeOK
  <2>3. finishedReport' = {[f \in Promised |-> r[f]]}
    BY <1>13, <2>1, <2>2 DEF finishedReport
  <2> QED
    BY <1>1, <2>3, PromisedNumbers
<1>15. PICK card, sum : card = Cardinality(old) /\ sum = SumFunction([s \in old |-> header[s].size])
  OBVIOUS
<1>16. /\ r.allocations = counts.allocations - base.allocations
       /\ r.frees = counts.frees - base.frees
       /\ r.leakedBlocks = card /\ r.leakedBytes = sum
       /\ r.doubleFrees = 0 /\ r.overflows = 0 /\ r.useAfterFrees = 0
  BY <1>3, <1>7, <1>12, <1>15 DEF HalfReport, Minus
<1>17. Owed(r) = [allocations   |-> counts.allocations - since.made,
                  frees         |-> counts.frees - since.returned,
                  leakedBlocks  |-> card,
                  leakedBytes   |-> sum,
                  doubleFrees   |-> truth.doubleFrees - since.faults.doubleFrees,
                  overflows     |-> truth.overflows - since.faults.overflows,
                  useAfterFrees |-> truth.useAfterFrees - since.faults.useAfterFrees]
  <2>1. /\ truth.doubleFrees - since.faults.doubleFrees = 0
        /\ truth.overflows - since.faults.overflows = 0
        /\ truth.useAfterFrees - since.faults.useAfterFrees = 0
    BY <1>1, <1>8 DEF NoMistakes
  <2> QED
    BY <1>8, <1>16, <2>1 DEF Owed
<1> QED
  BY <1>3, <1>6, <1>9, <1>10, <1>11, <1>14, <1>15, <1>17
\* The community operator is the same in both modules.
LEMMA SameSum ==
  \A f : Promise!SumFunction(f) = SumFunction(f)
BY DEF SumFunction, SumFunctionOnSet, FoldFunctionOnSet, MapThenFoldSet,
       Promise!SumFunction, Promise!SumFunctionOnSet, Promise!FoldFunctionOnSet,
       Promise!MapThenFoldSet

LEMMA SameCardinality ==
  \A S : Promise!Cardinality(S) = Cardinality(S)
BY DEF Cardinality, Promise!Cardinality

\* Every step of the tracker is a step of the promise, or none that it can see.
LEMMA PromiseNext ==
  ASSUME Faultless, PromiseInv, PromiseInv', [Next]_vars
  PROVE  [Promise!Next]_(Promise!vars)
<1>1. /\ FaultInv /\ HookInv /\ HeapInv /\ CountInv /\ Unharmed /\ Numbered /\ Noted /\ Reporting
      /\ FaultInv' /\ HeapInv' /\ Unharmed' /\ pc \in [Threads -> Labels] /\ Main \in Threads
  BY ThreadsAssumption DEF PromiseInv, FaultInv, HookInv, HookTypeOK
<1>2. truth' = truth
  BY <1>1 DEF Unharmed
<1>3. ASSUME ~ScopeBaseline, ~EndRecording PROVE openedScopes' = openedScopes
  BY <1>1, <1>3, OpenedFrame
<1>4. ASSUME ~EndRecording, ~FlushQuarantine, ~Sample PROVE finishedReport' = finishedReport
  BY <1>1, <1>4, ReportFrame
<1>5. ASSUME NEW t \in Threads, Link(t) PROVE Promise!Next
  <2>1. /\ \E b \in heldBlocks' :
             /\ b.id = counts.allocations + 1
             /\ heldBlocks' = heldBlocks \union {[id |-> b.id, size |-> b.size]}
        /\ freedBlocks' = freedBlocks
        /\ counts'.allocations = counts.allocations + 1 /\ counts'.frees = counts.frees
    BY <1>1, <1>5, LinkAllocates
  <2>2. UNCHANGED <<scopes, report>> /\ pc[t] = "link" /\ pc' = [pc EXCEPT ![t] = "idle"]
    BY <1>5 DEF Link, scopeVars, Goto
  <2>3. openedScopes' = openedScopes
    BY <2>2 DEF openedScopes
  <2>4. finishedReport' = finishedReport
    BY <1>1, <1>2, <2>2 DEF finishedReport, Promised
  <2> QED
    BY <1>2, <2>1, <2>3, <2>4 DEF Promise!Next, Promise!Allocate
<1>6. ASSUME NEW t \in Threads, NEW p, Gives(t, p) PROVE Promise!Next
  <2>1. /\ \E b \in heldBlocks : /\ heldBlocks' = heldBlocks \ {b}
                                 /\ freedBlocks' = freedBlocks \union {b}
        /\ counts' = counts
    BY <1>1, <1>6, GiveFrees
  <2>2. /\ UNCHANGED <<scopes, report>> /\ pc[t] = "idle"
        /\ \E l \in {"rawFree", "lookup"} : pc' = [pc EXCEPT ![t] = l]
    BY <1>6 DEF Gives, LoadDeallocate, scopeVars, Dispatch, MayStart, Goto
  <2>3. openedScopes' = openedScopes
    BY <2>2 DEF openedScopes
  <2>4. finishedReport' = finishedReport
    BY <1>1, <1>2, <2>2 DEF finishedReport, Promised
  <2> QED
    BY <1>2, <2>1, <2>3, <2>4 DEF Promise!Next, Promise!Free
<1>7. ASSUME NEW t \in Threads, Unlink(t) PROVE Promise!Next
  <2>1. /\ \E b \in freedBlocks : freedBlocks' = freedBlocks \ {b}
        /\ heldBlocks' = heldBlocks
        /\ counts'.allocations = counts.allocations /\ counts'.frees = counts.frees + 1
    BY <1>1, <1>7, UnlinkReturns
  <2>2. UNCHANGED <<scopes, report>> /\ pc[t] = "unlink" /\ pc' = [pc EXCEPT ![t] = "release"]
    BY <1>7 DEF Unlink, scopeVars, Goto
  <2>3. openedScopes' = openedScopes
    BY <2>2 DEF openedScopes
  <2>4. finishedReport' = finishedReport
    BY <1>1, <1>2, <2>2 DEF finishedReport, Promised
  <2> QED
    BY <1>2, <2>1, <2>3, <2>4 DEF Promise!Next, Promise!Return
<1>8. ASSUME ScopeBaseline \/ EndRecording \/ FlushQuarantine \/ Sample
      PROVE  \A t \in Threads : ~Link(t) /\ ~Unlink(t) /\ \A p : ~Gives(t, p)
  <2>1. pc[Main] \notin {"link", "unlink"}
    BY <1>8 DEF ScopeBaseline, EndRecording, FlushQuarantine, Sample
  <2>2. m_list' = m_list /\ owned' = owned
    BY <1>8 DEF ScopeBaseline, EndRecording, FlushQuarantine, Sample, heapVars, blockVars
  <2>3. ASSUME NEW t \in Threads, Link(t) PROVE FALSE
    <3>1. PointerOK(t) /\ pc[t] = "link" /\ m_list' = m_list \union {ptr[t][1]}
      BY <1>1, <2>3 DEF Link, HeapInv
    <3> QED
      BY <2>2, <3>1 DEF PointerOK
  <2>4. ASSUME NEW t \in Threads, Unlink(t) PROVE FALSE
    <3>1. PointerOK(t) /\ pc[t] = "unlink" /\ m_list' = m_list \ {ptr[t][1]}
      BY <1>1, <2>4 DEF Unlink, HeapInv
    <3> QED
      BY <2>2, <3>1 DEF PointerOK, Block
  <2>5. ASSUME NEW t \in Threads, NEW p, Gives(t, p) PROVE FALSE
    BY <2>2, <2>5 DEF Gives
  <2> QED
    BY <2>3, <2>4, <2>5
<1>9. ASSUME \A t \in Threads : ~Link(t) /\ ~Unlink(t) /\ \A p : ~Gives(t, p)
      PROVE  /\ heldBlocks' = heldBlocks /\ freedBlocks' = freedBlocks
             /\ counts'.allocations = counts.allocations /\ counts'.frees = counts.frees
  BY <1>1, <1>9, HeldFrame, TalliesKept
<1>10. CASE ScopeBaseline
  <2>1. /\ heldBlocks' = heldBlocks /\ freedBlocks' = freedBlocks
        /\ counts'.allocations = counts.allocations /\ counts'.frees = counts.frees
    BY <1>8, <1>9, <1>10
  <2>2. openedScopes' = Append(openedScopes, [made |-> counts.allocations,
                                              returned |-> counts.frees, faults |-> truth])
    BY <1>1, <1>10, BaselineOpens
  <2>3. ~EndRecording /\ ~FlushQuarantine /\ ~Sample
    BY <1>10 DEF ScopeBaseline, EndRecording, FlushQuarantine, Sample
  <2>4. finishedReport' = finishedReport
    BY <1>4, <2>3
  <2> QED
    BY <1>2, <2>1, <2>2, <2>4 DEF Promise!Next, Promise!Open
<1>11. CASE EndRecording
  <2>1. /\ heldBlocks' = heldBlocks /\ freedBlocks' = freedBlocks
        /\ counts'.allocations = counts.allocations /\ counts'.frees = counts.frees
    BY <1>8, <1>9, <1>11
  <2>2. scopes # <<>> /\ scopes' = SubSeq(scopes, 1, Len(scopes) - 1) /\ report' = {}
    BY <1>11 DEF EndRecording
  <2>3. openedScopes = Entries(scopes) /\ openedScopes' = Entries(scopes')
    BY DEF openedScopes, Entries, Entry
  <2>4. scopes \in Seq(Opened)
    BY <1>1 DEF Noted
  <2>5. openedScopes' = SubSeq(openedScopes, 1, Len(openedScopes) - 1)
    BY <2>2, <2>3, <2>4, EntriesFacts
  <2>6. openedScopes # <<>>
    <3>1. Len(openedScopes) = Len(scopes) /\ Len(scopes) # 0
      BY <2>2, <2>3, <2>4, EntriesFacts
    <3>2. Len(<<>>) = 0
      OBVIOUS
    <3> QED
      BY <3>1, <3>2
  <2>7. finishedReport' = {}
    BY <2>2 DEF finishedReport
  <2> QED
    BY <1>2, <2>1, <2>5, <2>6, <2>7 DEF Promise!Next, Promise!Close
<1>12. CASE FlushQuarantine
  <2>1. /\ heldBlocks' = heldBlocks /\ freedBlocks' = freedBlocks
        /\ counts'.allocations = counts.allocations /\ counts'.frees = counts.frees
    BY <1>8, <1>9, <1>12
  <2>2. scopes' = scopes /\ report' = {}
    BY <1>12 DEF FlushQuarantine
  <2>3. openedScopes' = openedScopes /\ finishedReport' = {}
    BY <2>2 DEF openedScopes, finishedReport
  <2> QED
    BY <1>2, <2>1, <2>3 DEF Promise!Next, Promise!Ask
<1>13. CASE Sample
  <2>1. /\ heldBlocks' = heldBlocks /\ freedBlocks' = freedBlocks
        /\ counts'.allocations = counts.allocations /\ counts'.frees = counts.frees
    BY <1>8, <1>9, <1>13
  <2>2. scopes' = scopes
    BY <1>13 DEF Sample
  <2>3. openedScopes' = openedScopes
    BY <2>2 DEF openedScopes
  <2>4. PICK since, leaked : /\ since = openedScopes[Len(openedScopes)]
                             /\ leaked = Younger(heldBlocks, since.made)
    OBVIOUS
  <2>5. /\ openedScopes # <<>> /\ freedBlocks = {}
        /\ finishedReport' = {[
             allocations   |-> counts.allocations - since.made,
             frees         |-> counts.frees - since.returned,
             leakedBlocks  |-> Cardinality(leaked),
             leakedBytes   |-> SumFunction([b \in leaked |-> b.size]),
             doubleFrees   |-> truth.doubleFrees - since.faults.doubleFrees,
             overflows     |-> truth.overflows - since.faults.overflows,
             useAfterFrees |-> truth.useAfterFrees - since.faults.useAfterFrees]}
    BY <1>13, <2>4, SampleAnswers
  <2>6. leaked = {b \in heldBlocks : b.id > since.made}
    BY <2>4 DEF Younger
  <2>7. Promise!SumFunction([b \in leaked |-> b.size]) = SumFunction([b \in leaked |-> b.size])
    BY SameSum
  <2>8. Promise!Cardinality(leaked) = Cardinality(leaked)
    BY SameCardinality
  <2>9. Promise!Answer
    BY <1>2, <2>1, <2>3, <2>4, <2>5, <2>6, <2>7, <2>8 DEF Promise!Answer
  <2> QED
    BY <2>9 DEF Promise!Next
<1>14. CASE /\ ~ScopeBaseline /\ ~EndRecording /\ ~FlushQuarantine /\ ~Sample
            /\ \A t \in Threads : ~Link(t) /\ ~Unlink(t) /\ \A p : ~Gives(t, p)
  BY <1>2, <1>3, <1>4, <1>9, <1>14 DEF Promise!vars
<1> QED
  BY <1>5, <1>6, <1>7, <1>10, <1>11, <1>12, <1>13, <1>14

\* A program that keeps the discipline and makes no mistakes reads the promised
\* report from every Scope it opens, however deep it nests them and whatever its
\* threads do meanwhile: KeepsPromise for any number of threads, blocks and Scopes.
THEOREM PromiseIsKept ==
  ASSUME Faultless
  PROVE  Spec => KeepsPromise
<1>1. Init => Promise!Init
  <2> SUFFICES ASSUME Init PROVE Promise!Init
    OBVIOUS
  <2>1. heldBlocks = {} /\ freedBlocks = {}
    BY DEF Init, heldBlocks, freedBlocks, BlocksOf, InFlight
  <2>2. openedScopes = <<>>
    BY DEF Init, openedScopes
  <2>3. finishedReport = {}
    BY DEF Init, finishedReport
  <2>4. counts.allocations = 0 /\ counts.frees = 0
        /\ truth = [doubleFrees |-> 0, overflows |-> 0, useAfterFrees |-> 0]
    BY DEF Init
  <2> QED
    BY <2>1, <2>2, <2>3, <2>4 DEF Promise!Init
<1>2. PromiseInv /\ [Next]_vars => PromiseInv'
  BY PromiseInvNext
<1>3. PromiseInv /\ PromiseInv' /\ [Next]_vars => [Promise!Next]_(Promise!vars)
  BY PromiseNext
<1> QED
  BY PromiseInvInit, <1>1, <1>2, <1>3, PTL DEF Spec, KeepsPromise, Promise!Spec

==============================================================================

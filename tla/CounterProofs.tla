---------------------------- MODULE CounterProofs ----------------------------
(***************************************************************************)
(* What Tracker's counters say: proofs, on top of the heap invariant of    *)
(* TrackerProofs, that the bytes held back stay within the configuration's *)
(* bound, that the count and the bytes of live blocks are those of the     *)
(* list, that every fault of the program is counted once, that the         *)
(* high-water mark stays above what an open Scope subtracts from it, and   *)
(* that the tracker's state is of its types.                               *)
(***************************************************************************)
EXTENDS TrackerProofs

-----------------------------------------------------------------------------
(* The quarantine. *)

\* What quarantine holds is within the bound of the configuration it works with.
Bounded == BytesOf(m_quarantine, header) <= m_config.quarantineBytes

\* A queue holds as many bytes as before when its blocks have the sizes they had.
LEMMA BytesSame ==
  ASSUME NEW q, NEW g, NEW h, \A s \in Range(q) : h[s].size = g[s].size
  PROVE  BytesOf(q, h) = BytesOf(q, g)
<1>1. \A i \in DOMAIN q : h[q[i]].size = g[q[i]].size
  BY DEF Range
<1>2. [i \in DOMAIN q |-> h[q[i]].size] = [i \in DOMAIN q |-> g[q[i]].size]
  BY <1>1
<1> QED
  BY <1>2 DEF BytesOf

\* An empty queue holds none.
LEMMA BytesEmpty ==
  ASSUME NEW h
  PROVE  BytesOf(<<>>, h) = 0
<1>1. DOMAIN [i \in DOMAIN <<>> |-> h[<<>>[i]].size] = {}
  OBVIOUS
<1> QED
  BY <1>1, SumEmpty, Zenon DEF BytesOf, SumFunction

\* Only a drain touches the sizes of blocks held back, or the queue.
LEMMA QueueKept ==
  ASSUME HookInv, HeapInv, [Next]_vars,
         ~(\E t \in Threads : HoldBack(t) \/ Settle(t)), ~EndRecording, ~FlushQuarantine
  PROVE  /\ m_quarantine' = m_quarantine
         /\ \A s \in Range(m_quarantine) :
              /\ header'[s].size = header[s].size
              /\ ~ProgramWrites => header'[s] = header[s]
<1>1. m_quarantine' = m_quarantine
  BY DEF Next, Continue, ContinueScope, blockVars, vars,
         RawAllocate, AllocateFails, HookAllocate, Link, RawFree, Lookup, CountDoubleFree,
         PassThrough, ReportSmashed, InspectRedzones, Unlink, ReleaseNow,
         FinishUninstall, LoadAllocate, LoadDeallocate, Reallocate, DoubleFree, ToggleBypass,
         FinishInstall, ScopeBaseline, ScopeReset, ReadCounts, Sample, BeginRecording,
         ProgramWrites
<1>2. /\ header \in [Slots -> Header] /\ Range(m_quarantine) \subseteq Slots
      /\ \A s \in Slots : header[s] \in Header
  BY DEF HeapInv, HeapTypes, Range
<1> SUFFICES ASSUME NEW s \in Range(m_quarantine)
             PROVE  header'[s].size = header[s].size /\ (~ProgramWrites => header'[s] = header[s])
  BY <1>1
<1>3. /\ s \in Slots /\ header[s].magic = "freed" /\ heap[s] = 0
      /\ \A p \in owned : p[1] # s
      /\ \A u \in Threads : pc[u] \in Holding => ptr[u][1] # s
      /\ 0 # NoChunk
  BY HeldFacts DEF NoChunk
<1>4. ASSUME NEW r, r # s, NEW x, header' = [header EXCEPT ![r] = x]
      PROVE  header'[s] = header[s]
  BY <1>2, <1>3, <1>4
<1>5. ASSUME NEW t \in Threads, HookAllocate(t) PROVE header'[s] = header[s]
  <2>1. \E r \in Slots : heap[r] = NoChunk /\ \E x : header' = [header EXCEPT ![r] = x]
    BY <1>5 DEF HookAllocate
  <2> QED
    BY <1>3, <1>4, <2>1
<1>6. ASSUME NEW t \in Threads, Link(t) PROVE header'[s] = header[s]
  <2>1. /\ header' = [header EXCEPT ![ptr[t][1]].sequence = m_sequence]
        /\ pc[t] \in Holding /\ ptr[t][1] # s
    BY <1>3, <1>6 DEF Link, Holding
  <2> QED
    BY <1>2, <1>3, <2>1
<1>7. ASSUME NEW t \in Threads, RawFree(t) \/ ReleaseNow(t)
      PROVE  header'[s] = header[s]
  <2>1. pc[t] \in Holding /\ ptr[t][1] # s
    BY <1>3, <1>7 DEF RawFree, ReleaseNow, Holding
  <2>2. header' = header \/ header' = [header EXCEPT ![ptr[t][1]] = NoHeader]
    BY <1>7 DEF RawFree, ReleaseNow
  <2> QED
    BY <1>4, <2>1, <2>2
<1>8. ASSUME NEW t \in Threads, Reallocate(t) PROVE header'[s] = header[s]
  <2>1. PICK p \in owned : header' = header \/ header' = [header EXCEPT ![p[1]] = NoHeader]
    BY <1>8 DEF Reallocate
  <2> QED
    BY <1>3, <1>4, <2>1
<1>9. ASSUME ProgramWrites PROVE header'[s].size = header[s].size
  <2>1. PICK r : \/ header' = [header EXCEPT ![r].guard = FALSE]
                 \/ header' = [header EXCEPT ![r].magic = "smashed"]
                 \/ header' = [header EXCEPT ![r].pattern = FALSE]
    BY <1>9 DEF ProgramWrites, Overrun, Smash, DanglingWrite
  <2> QED
    BY <1>2, <1>3, <2>1 DEF Header
<1>10. CASE UNCHANGED header
  BY <1>10
<1> QED
  BY <1>5, <1>6, <1>7, <1>8, <1>9, <1>10
     DEF Next, Continue, ContinueScope, heapVars, vars,
         RawAllocate, AllocateFails, Lookup, CountDoubleFree,
         PassThrough, ReportSmashed, InspectRedzones, Unlink,
         FinishUninstall, LoadAllocate, LoadDeallocate, DoubleFree, ToggleBypass,
         FinishInstall, ScopeBaseline, ScopeReset, ReadCounts, Sample, BeginRecording

\* The bound holds from step to step, also when the configuration changes.
LEMMA BoundedNext ==
  ASSUME Discipline, HookInv, HeapInv, Bounded, [Next]_vars
  PROVE  Bounded'
<1>1. m_config \in Configs /\ \A c \in Configs : c.quarantineBytes \in Nat
  BY ConfigsAssumption DEF HeapInv, HeapTypes, Config
<1>2. m_config' \in Configs /\ (~BeginRecording => m_config' = m_config)
  BY <1>1 DEF Next, Continue, ContinueScope, modeVars, vars,
         RawAllocate, AllocateFails, HookAllocate, Link, RawFree, Lookup, CountDoubleFree,
         PassThrough, ReportSmashed, InspectRedzones, Unlink, HoldBack, ReleaseNow, Settle,
         FinishUninstall, LoadAllocate, LoadDeallocate, Reallocate, DoubleFree, ToggleBypass,
         FinishInstall, ScopeBaseline, ScopeReset, ReadCounts, Sample, BeginRecording,
         EndRecording, FlushQuarantine, ProgramWrites
<1>3. ASSUME m_quarantine' = <<>> PROVE Bounded'
  <2>1. BytesOf(m_quarantine', header') = 0
    BY <1>3, BytesEmpty
  <2> QED
    BY <1>1, <1>2, <2>1 DEF Bounded
<1>4. ASSUME m_quarantine' = m_quarantine, m_config' = m_config,
             \A s \in Range(m_quarantine) : header'[s].size = header[s].size
      PROVE  Bounded'
  <2>1. BytesOf(m_quarantine, header') = BytesOf(m_quarantine, header)
    BY <1>4, BytesSame
  <2> QED
    BY <1>4, <2>1 DEF Bounded
<1>5. ASSUME NEW t \in Threads, HoldBack(t) PROVE Bounded'
  <2>1. ~BeginRecording
    BY <1>5 DEF HoldBack, BeginRecording, blockVars, Goto, HookInv, HookTypeOK
  <2> QED
    BY <1>2, <1>5, <2>1, HoldBackKeeps DEF Bounded
<1>6. ASSUME NEW t \in Threads, Settle(t) PROVE Bounded'
  <2>1. /\ m_quarantine' = <<>> \/ UNCHANGED <<m_quarantine, header>>
        /\ m_config' = m_config
    BY <1>6, UninstallKeeps DEF Settle
  <2> QED
    BY <1>3, <1>4, <2>1
<1>7. ASSUME EndRecording PROVE Bounded'
  <2>1. /\ m_quarantine' = <<>> \/ UNCHANGED <<m_quarantine, header>>
        /\ m_config' = m_config
    BY <1>7, UninstallKeeps, ThreadsAssumption DEF EndRecording
  <2> QED
    BY <1>3, <1>4, <2>1
<1>8. ASSUME FlushQuarantine PROVE Bounded'
  <2>1. pc[Main] \notin Holding /\ "counts" \in Labels \ Holding
    BY <1>8 DEF FlushQuarantine, Holding, Labels
  <2>2. /\ Unlocked /\ Drain(m_quarantine, header, 0) /\ Goto(Main, "counts")
        /\ UNCHANGED <<owned, dangling, m_config, m_list, m_live, m_liveBlocks, ptr>>
    BY <1>8 DEF FlushQuarantine, modeVars
  <2> QED
    BY <1>3, <2>1, <2>2, FlushKeeps, ThreadsAssumption
<1>9. CASE BeginRecording /\ m_config' # m_config
  BY <1>3, <1>9, ConfigureKeeps
<1> QED
  BY <1>2, <1>4, <1>5, <1>6, <1>7, <1>8, <1>9, QueueKept

\* Under the discipline, what quarantine keeps is within the bound of the
\* configuration, and nothing at all once the hook is out.
THEOREM QuarantineStaysBounded ==
  ASSUME Discipline
  PROVE  Spec => []QuarantineBounded
<1>1. Init => Bounded
  <2> SUFFICES ASSUME Init PROVE Bounded
    OBVIOUS
  <2>1. m_quarantine = <<>> /\ m_config \in Configs
    BY DEF Init
  <2>2. m_config.quarantineBytes \in Nat
    BY <2>1, ConfigsAssumption DEF Config
  <2> QED
    BY <2>1, <2>2, BytesEmpty DEF Bounded
<1>2. HookInv /\ HeapInv /\ Bounded /\ [Next]_vars => Bounded'
  BY BoundedNext
<1>3. HeapInv /\ Bounded => QuarantineBounded
  <2> SUFFICES ASSUME HeapInv, Bounded PROVE QuarantineBounded
    OBVIOUS
  <2>1. CASE m_quarantine = <<>>
    <3>1. BytesOf(m_quarantine, header) = 0 /\ m_config.quarantineBytes \in Nat
      BY <2>1, BytesEmpty, ConfigFacts DEF HeapInv
    <3> QED
      BY <3>1 DEF QuarantineBounded
  <2>2. CASE m_quarantine # <<>>
    <3>1. m_installed
      BY <2>2 DEF HeapInv, Held
    <3> QED
      BY <3>1 DEF QuarantineBounded, Bounded
  <2> QED
    BY <2>1, <2>2
<1> QED
  BY <1>1, <1>2, <1>3, HeapInvHolds, PTL DEF Spec
-----------------------------------------------------------------------------
(* The counters. *)

Counters == [allocations : Nat, frees : Nat, doubleFrees : Nat, overflows : Nat,
             useAfterFrees : Nat, liveBytes : Nat, peakBytes : Nat, largestBlock : Nat]

\* The bytes of the blocks of a list, given the headers h.
ListBytes(l, h) == SumFunctionOnSet([s \in l |-> h[s].size], l)

\* The counters count, and liveBytes is what the list holds.
CountInv == counts \in Counters /\ counts.liveBytes = ListBytes(m_list, header)

\* A list has the bytes it had while its blocks keep their sizes.
LEMMA ListSame ==
  ASSUME NEW l, IsFiniteSet(l), NEW g, NEW h, \A s \in l : g[s].size = h[s].size
  PROVE  ListBytes(l, g) = ListBytes(l, h)
<1> DEFINE a == [s \in l |-> g[s].size]
           b == [s \in l |-> h[s].size]
<1>1. \A s \in l : a[s] = b[s]
  OBVIOUS
<1> HIDE DEF a, b
<1>2. SumFunctionOnSet(a, l) = SumFunctionOnSet(b, l)
  BY <1>1, SumSame
<1> QED
  BY <1>2 DEF ListBytes, a, b

\* A block more, its bytes more; a block less, its bytes less.
LEMMA ListStep ==
  ASSUME NEW l, IsFiniteSet(l), NEW h, \A s \in l : h[s].size \in Nat
  PROVE  /\ ListBytes(l, h) \in Nat
         /\ \A s \in l : /\ ListBytes(l, h) = h[s].size + ListBytes(l \ {s}, h)
                         /\ h[s].size <= ListBytes(l, h)
<1> DEFINE a == [s \in l |-> h[s].size]
<1>1. \A s \in l : a[s] = h[s].size /\ a[s] \in Nat /\ a[s] \in Int
  OBVIOUS
<1>2. ListBytes(l, h) = SumFunctionOnSet(a, l)
  BY DEF ListBytes
<1> HIDE DEF a
<1>3. ListBytes(l, h) \in Nat
  <2>1. \A s \in l : a[s] \in Nat
    BY <1>1
  <2>2. SumFunctionOnSet(a, l) \in Nat
    BY <2>1, SumType
  <2> QED
    BY <1>2, <2>2
<1>4. ASSUME NEW s \in l
      PROVE  ListBytes(l, h) = h[s].size + ListBytes(l \ {s}, h) /\ h[s].size <= ListBytes(l, h)
  <2> DEFINE c == [r \in l \ {s} |-> h[r].size]
  <2>1. \A r \in l \ {s} : a[r] = c[r]
    BY <1>1
  <2>2. ListBytes(l \ {s}, h) = SumFunctionOnSet(c, l \ {s})
    BY DEF ListBytes
  <2> HIDE DEF c
  <2>3. IsFiniteSet(l \ {s})
    BY FS_RemoveElement
  <2>4. SumFunctionOnSet(a, l \ {s}) = SumFunctionOnSet(c, l \ {s})
    BY <2>1, <2>3, SumSame
  <2>5. SumFunctionOnSet(a, l) = a[s] + SumFunctionOnSet(a, l \ {s})
    BY <1>1, SumWithout
  <2>6. a[s] <= SumFunctionOnSet(a, l)
    BY <1>1, SumMonotone
  <2> QED
    BY <1>1, <1>2, <2>2, <2>4, <2>5, <2>6
<1> QED
  BY <1>3, <1>4

\* A block keeps its size and its number while it is in the list.
LEMMA ListKept ==
  ASSUME HeapInv, HeapInv', [Next]_vars, NEW s \in m_list, s \in m_list'
  PROVE  header'[s].size = header[s].size /\ header'[s].sequence = header[s].sequence
<1> DEFINE Same == header'[s].size = header[s].size /\ header'[s].sequence = header[s].sequence
<1>1. /\ header \in [Slots -> Header] /\ s \in Slots /\ header[s] \in Header
      /\ heap[s] = 0 /\ 0 # NoChunk /\ header'[s].magic # "none" /\ NoHeader.magic = "none"
  BY DEF HeapInv, HeapTypes, Layout, NoChunk, NoHeader
<1>2. ASSUME NEW r, header' = [header EXCEPT ![r] = NoHeader]
      PROVE  Same
  BY <1>1, <1>2
<1>3. ASSUME NEW t \in Threads, HookAllocate(t) PROVE Same
  <2>1. \E r \in Slots : heap[r] = NoChunk /\ \E x : header' = [header EXCEPT ![r] = x]
    BY <1>3 DEF HookAllocate
  <2> QED
    BY <1>1, <2>1
<1>4. ASSUME NEW t \in Threads, Link(t) PROVE Same
  <2>1. \E r : r # s /\ header' = [header EXCEPT ![r].sequence = m_sequence]
    BY <1>4 DEF Link, HeapInv, PointerOK
  <2> QED
    BY <1>1, <2>1 DEF Header
<1>5. ASSUME NEW t \in Threads, RawFree(t) \/ ReleaseNow(t)
      PROVE  Same
  <2>1. header' = header \/ header' = [header EXCEPT ![ptr[t][1]] = NoHeader]
    BY <1>5 DEF RawFree, ReleaseNow
  <2> QED
    BY <1>2, <2>1
<1>6. ASSUME NEW t \in Threads, Reallocate(t) PROVE Same
  <2>1. PICK p \in owned : header' = header \/ header' = [header EXCEPT ![p[1]] = NoHeader]
    BY <1>6 DEF Reallocate
  <2> QED
    BY <1>2, <2>1
<1>7. ASSUME ProgramWrites PROVE Same
  <2>1. PICK r : \/ header' = [header EXCEPT ![r].guard = FALSE]
                 \/ header' = [header EXCEPT ![r].magic = "smashed"]
                 \/ header' = [header EXCEPT ![r].pattern = FALSE]
    BY <1>7 DEF ProgramWrites, Overrun, Smash, DanglingWrite
  <2> QED
    BY <1>1, <2>1 DEF Header
<1>8. ASSUME NEW q, NEW h, NEW d, Drain(q, h, d),
             h[s].size = header[s].size, h[s].sequence = header[s].sequence
      PROVE  Same
  <2>1. PICK gone : header' = [r \in Slots |-> IF r \in gone THEN NoHeader ELSE h[r]]
    BY <1>8 DEF Drain
  <2> QED
    BY <1>1, <1>8, <2>1
<1>9. ASSUME NEW t \in Threads, HoldBack(t) PROVE Same
  <2>1. PICK r : Drain(Append(m_quarantine, r),
                       [header EXCEPT ![r].magic = "freed", ![r].pattern = TRUE],
                       m_config.quarantineBytes)
    BY <1>9 DEF HoldBack
  <2>2. PICK h : h = [header EXCEPT ![r].magic = "freed", ![r].pattern = TRUE]
    OBVIOUS
  <2>3. h[s].size = header[s].size /\ h[s].sequence = header[s].sequence
    BY <1>1, <2>2 DEF Header
  <2> QED
    BY <1>8, <2>1, <2>2, <2>3
<1>10. ASSUME FlushQuarantine \/ EndRecording \/ \E t \in Threads : Settle(t)
       PROVE  Same
  <2>1. Drain(m_quarantine, header, 0) \/ UNCHANGED header
    BY <1>10 DEF FlushQuarantine, EndRecording, Settle, UninstallIfIdle, BeginUninstall,
                 KeepInstalled
  <2> QED
    BY <1>8, <2>1
<1>11. CASE UNCHANGED header
  BY <1>11
<1> QED
  BY <1>3, <1>4, <1>5, <1>6, <1>7, <1>9, <1>10, <1>11
     DEF Next, Continue, ContinueScope, heapVars, vars,
         RawAllocate, AllocateFails, Lookup, CountDoubleFree,
         PassThrough, ReportSmashed, InspectRedzones, Unlink,
         FinishUninstall, LoadAllocate, LoadDeallocate, DoubleFree, ToggleBypass,
         FinishInstall, ScopeBaseline, ScopeReset, ReadCounts, Sample, BeginRecording

\* Blocks held back that were written to.
Disturbed(q, h) == {s \in Range(q) : ~h[s].pattern}

\* Those a drain notices are those that leave.
LEMMA DrainCounts ==
  ASSUME NEW S, NEW q \in Seq(S), IsInjective(q), NEW h, NEW k \in 0..Len(q)
  PROVE  /\ IsFiniteSet(Disturbed(q, h)) /\ IsFiniteSet(Disturbed(SubSeq(q, k + 1, Len(q)), h))
         /\ Cardinality({i \in 1..k : ~h[q[i]].pattern}) \in Nat
         /\ Cardinality(Disturbed(q, h)) = Cardinality(Disturbed(SubSeq(q, k + 1, Len(q)), h))
                                           + Cardinality({i \in 1..k : ~h[q[i]].pattern})
<1>0. PICK r, I : r = SubSeq(q, k + 1, Len(q)) /\ I = {i \in 1..k : ~h[q[i]].pattern}
  OBVIOUS
<1> DEFINE A == {s \in First(q, k) : ~h[s].pattern}
           B == Disturbed(r, h)
           D == Disturbed(q, h)
<1>1. /\ DOMAIN q = 1..Len(q) /\ Len(q) \in Nat /\ k \in Nat /\ k <= Len(q)
      /\ \A i, j \in DOMAIN q : q[i] = q[j] => i = j
  BY DEF IsInjective
<1>2. First(q, k) \subseteq Range(q) /\ Range(r) = Range(q) \ First(q, k)
  BY <1>0, <1>1, QueueHalves
<1>3. D = A \union B /\ A \intersect B = {}
  BY <1>2 DEF Disturbed
<1>4. IsFiniteSet(D)
  <2>1. IsFiniteSet({q[i] : i \in 1..Len(q)})
    BY <1>1, CountUpTo, ImageCount
  <2>2. D \in SUBSET {q[i] : i \in 1..Len(q)}
    BY <1>1 DEF Disturbed, Range
  <2> QED
    BY <2>1, <2>2, FS_Subset
<1>5. IsFiniteSet(A) /\ IsFiniteSet(B)
  <2>1. A \in SUBSET D /\ B \in SUBSET D
    BY <1>3
  <2> QED
    BY <1>4, <2>1, FS_Subset
<1>6. IsFiniteSet(I) /\ Cardinality(I) \in Nat
  <2>1. IsFiniteSet(1..k) /\ I \in SUBSET (1..k)
    BY <1>0, <1>1, CountUpTo
  <2> QED
    BY <2>1, FS_Subset, FS_CardinalityType
<1>7. Cardinality(A) = Cardinality(I)
  <2>1. \A x, y \in I : q[x] = q[y] => x = y
    BY <1>0, <1>1
  <2>2. \A x : x \in A <=> \E i \in I : x = q[i]
    BY <1>0 DEF First
  <2> HIDE DEF A
  <2> QED
    BY <1>6, <2>1, <2>2, CountImage
<1>8. Cardinality(D) = Cardinality(A) + Cardinality(B)
  <2> HIDE DEF A, B, D
  <2>1. /\ Cardinality(D) = Cardinality(A) + Cardinality(B) - Cardinality(A \intersect B)
        /\ Cardinality(A) \in Nat /\ Cardinality(B) \in Nat
    BY <1>3, <1>5, FS_Union, FS_CardinalityType
  <2>2. Cardinality(A \intersect B) = 0
    BY <1>3, FS_EmptySet
  <2> QED
    BY <2>1, <2>2
<1>9. Cardinality(B) \in Nat
  BY <1>5, FS_CardinalityType
<1> HIDE DEF A
<1> QED
  BY <1>0, <1>4, <1>5, <1>6, <1>7, <1>8, <1>9

\* A drain takes no more blocks than there are.
LEMMA DrainUpTo ==
  ASSUME NEW S, NEW q \in Seq(S), NEW h, NEW d
  PROVE  DrainCount(q, h, d) \in 0..Len(q)
<1>1. PICK K : K = {j \in 1..Len(q) : BytesOf(SubSeq(q, j, Len(q)), h) > d}
  OBVIOUS
<1>2. /\ K \in SUBSET (1..Len(q)) /\ IsFiniteSet(1..Len(q)) /\ Cardinality(1..Len(q)) = Len(q)
      /\ DrainCount(q, h, d) = Cardinality(K)
  BY <1>1, CountUpTo DEF DrainCount
<1>3. IsFiniteSet(K) /\ Cardinality(K) <= Cardinality(1..Len(q))
  BY <1>2, FS_Subset
<1>4. Cardinality(K) \in Nat
  BY <1>3, FS_CardinalityType
<1> QED
  BY <1>2, <1>3, <1>4

\* A drain only raises the count of dangling writes.
LEMMA DrainTypes ==
  ASSUME counts \in Counters, NEW q \in Seq(Slots), NEW h, NEW d, Drain(q, h, d)
  PROVE  /\ counts' \in Counters
         /\ \E n \in Nat : /\ n >= counts.useAfterFrees
                          /\ counts' = [counts EXCEPT !.useAfterFrees = n]
<1>1. PICK k : /\ k = DrainCount(q, h, d)
               /\ counts' = [counts EXCEPT !.useAfterFrees =
                    IF m_config.patternFill
                    THEN @ + Cardinality({i \in 1..k : ~h[q[i]].pattern}) ELSE @]
  BY DEF Drain
<1>2. k \in Nat
  BY <1>1, DrainUpTo
<1>3. PICK I : I = {i \in 1..k : ~h[q[i]].pattern}
  OBVIOUS
<1>4. Cardinality(I) \in Nat
  <2>1. I \in SUBSET (1..k) /\ IsFiniteSet(1..k)
    BY <1>2, <1>3, CountUpTo
  <2> QED
    BY <2>1, FS_Subset, FS_CardinalityType
<1>5. counts.useAfterFrees \in Nat
  BY DEF Counters
<1>6. PICK n \in Nat : n = IF m_config.patternFill THEN counts.useAfterFrees + Cardinality(I)
                           ELSE counts.useAfterFrees
  BY <1>4, <1>5
<1>7. counts' = [counts EXCEPT !.useAfterFrees = n] /\ n >= counts.useAfterFrees
  BY <1>1, <1>3, <1>4, <1>5, <1>6
<1> QED
  BY <1>7 DEF Counters

\* The steps that neither link nor unlink a block leave the tallies of blocks alone.
LEMMA TalliesKept ==
  ASSUME CountInv, HeapInv, [Next]_vars,
         \A t \in Threads : ~Link(t) /\ ~Unlink(t)
  PROVE  /\ m_list' = m_list /\ m_sequence' = m_sequence /\ counts' \in Counters
         /\ counts'.liveBytes = counts.liveBytes
         /\ counts'.allocations = counts.allocations /\ counts'.frees = counts.frees
<1> DEFINE Same == /\ counts' \in Counters /\ counts'.liveBytes = counts.liveBytes
                   /\ counts'.allocations = counts.allocations /\ counts'.frees = counts.frees
<1>1. /\ counts \in Counters /\ m_quarantine \in Seq(Slots)
      /\ \A t \in Threads : pc[t] = "release" => ptr[t][1] \in Slots
  BY DEF CountInv, HeapInv, HeapTypes, PointerOK
<1>2. m_list' = m_list /\ m_sequence' = m_sequence
  BY DEF Next, Continue, ContinueScope, blockVars, vars,
         RawAllocate, AllocateFails, HookAllocate, RawFree, Lookup, CountDoubleFree,
         PassThrough, ReportSmashed, InspectRedzones, HoldBack, ReleaseNow, Settle,
         FinishUninstall, LoadAllocate, LoadDeallocate, Reallocate, DoubleFree, ToggleBypass,
         FinishInstall, ScopeBaseline, ScopeReset, ReadCounts, Sample, BeginRecording,
         EndRecording, FlushQuarantine, ProgramWrites
<1>3. ASSUME NEW q \in Seq(Slots), NEW h, NEW d, Drain(q, h, d)
      PROVE  Same
  <2>1. PICK n \in Nat : counts' = [counts EXCEPT !.useAfterFrees = n]
    BY <1>1, <1>3, DrainTypes
  <2> QED
    BY <1>1, <2>1 DEF Counters
<1>4. ASSUME NEW t \in Threads, HoldBack(t)
      PROVE  Same
  <2>1. PICK q, h : /\ q = Append(m_quarantine, ptr[t][1])
                    /\ Drain(q, h, m_config.quarantineBytes)
    BY <1>4 DEF HoldBack
  <2>2. q \in Seq(Slots)
    BY <1>1, <1>4, <2>1 DEF HoldBack
  <2> QED
    BY <1>3, <2>1, <2>2
<1>5. ASSUME FlushQuarantine \/ EndRecording \/ \E t \in Threads : Settle(t)
      PROVE  Same
  <2>1. Drain(m_quarantine, header, 0) \/ UNCHANGED counts
    BY <1>5 DEF FlushQuarantine, EndRecording, Settle, UninstallIfIdle, BeginUninstall,
                KeepInstalled
  <2> QED
    BY <1>1, <1>3, <2>1
<1>6. ASSUME NEW t \in Threads, CountDoubleFree(t) \/ ReportSmashed(t) \/ InspectRedzones(t)
      PROVE  Same
  <2>1. \/ counts' = counts \/ counts' = [counts EXCEPT !.doubleFrees = @ + 1]
        \/ counts' = [counts EXCEPT !.overflows = @ + 1]
    BY <1>6 DEF CountDoubleFree, ReportSmashed, InspectRedzones
  <2> QED
    BY <1>1, <2>1 DEF Counters
<1>7. ASSUME ScopeReset PROVE Same
  BY <1>1, <1>7 DEF ScopeReset, Reset, Counters
<1>8. ASSUME UNCHANGED counts PROVE Same
  BY <1>1, <1>8
<1>9. Same
  <2> HIDE DEF Same
  <2> QED
    BY <1>4, <1>5, <1>6, <1>7, <1>8
       DEF Next, Continue, ContinueScope, blockVars, vars,
         RawAllocate, AllocateFails, HookAllocate, RawFree, Lookup, PassThrough, ReleaseNow,
         FinishUninstall, LoadAllocate, LoadDeallocate, Reallocate, DoubleFree, ToggleBypass,
         FinishInstall, ScopeBaseline, ReadCounts, Sample, BeginRecording, ProgramWrites
<1> QED
  BY <1>2, <1>9

\* Nothing is listed and nothing is counted.
LEMMA CountInvInit == Init => CountInv
<1> SUFFICES ASSUME Init PROVE CountInv
  OBVIOUS
<1>1. /\ m_list = {} /\ counts = [allocations |-> 0, frees |-> 0, doubleFrees |-> 0,
            overflows |-> 0, useAfterFrees |-> 0,
            liveBytes |-> 0, peakBytes |-> 0, largestBlock |-> 0]
  BY DEF Init
<1>2. ListBytes(m_list, header) = 0
  BY <1>1, SumEmpty DEF ListBytes
<1> QED
  BY <1>1, <1>2 DEF CountInv, Counters

\* liveBytes is the bytes of the listed blocks, whichever thread links or unlinks.
LEMMA CountInvNext ==
  ASSUME Discipline, HookInv, HeapInv, HeapInv', CountInv, [Next]_vars
  PROVE  CountInv'
<1>1. /\ counts \in Counters /\ counts.liveBytes = ListBytes(m_list, header)
      /\ IsFiniteSet(m_list) /\ IsFiniteSet(m_list')
      /\ \A s \in m_list : s \in Slots /\ header[s].size \in Nat
      /\ \A s \in m_list' : header'[s].size \in Nat
      /\ header \in [Slots -> Header]
  BY DEF CountInv, HeapInv, Linked, HeapTypes, Header
<1>2. \A s \in m_list : s \in m_list' => header'[s].size = header[s].size
  BY ListKept
<1>3. CASE \A t \in Threads : ~Link(t) /\ ~Unlink(t)
  <2>1. m_list' = m_list /\ counts' \in Counters /\ counts'.liveBytes = counts.liveBytes
    BY <1>3, TalliesKept
  <2>2. ListBytes(m_list, header') = ListBytes(m_list, header)
    BY <1>1, <1>2, <2>1, ListSame
  <2> QED
    BY <1>1, <2>1, <2>2 DEF CountInv
<1>4. ASSUME NEW t \in Threads, Link(t) PROVE CountInv'
  <2>1. PICK s : s = ptr[t][1]
    OBVIOUS
  <2>2. s \in Slots /\ s \notin m_list /\ header[s].size \in Nat /\ m_list' = m_list \union {s}
    BY <1>1, <1>4, <2>1 DEF Link, HeapInv, PointerOK, Header
  <2>3. /\ header'[s].size = header[s].size
        /\ counts' = [counts EXCEPT
             !.allocations = @ + 1,
             !.liveBytes = counts.liveBytes + header[s].size,
             !.peakBytes = IF counts.liveBytes + header[s].size > @
                           THEN counts.liveBytes + header[s].size ELSE @,
             !.largestBlock = IF header[s].size > @ THEN header[s].size ELSE @]
    BY <1>1, <1>4, <2>1, <2>2 DEF Link, Header
  <2>4. counts' \in Counters /\ counts'.liveBytes = counts.liveBytes + header[s].size
    <3>1. PICK n \in Nat, b \in Nat : n = header[s].size /\ b = counts.liveBytes + n
      BY <1>1, <2>2 DEF Counters
    <3>2. PICK a, c, e : /\ a = counts.allocations + 1
                         /\ c = IF b > counts.peakBytes THEN b ELSE counts.peakBytes
                         /\ e = IF n > counts.largestBlock THEN n ELSE counts.largestBlock
      OBVIOUS
    <3>3. a \in Nat /\ c \in Nat /\ e \in Nat
      BY <1>1, <3>1, <3>2 DEF Counters
    <3>4. counts' = [counts EXCEPT !.allocations = a, !.liveBytes = b,
                                   !.peakBytes = c, !.largestBlock = e]
      BY <2>3, <3>1, <3>2
    <3> QED
      BY <1>1, <3>1, <3>3, <3>4 DEF Counters
  <2>5. m_list' \ {s} = m_list /\ s \in m_list'
    BY <2>2
  <2>6. ListBytes(m_list', header') = header'[s].size + ListBytes(m_list, header')
    BY <1>1, <2>5, ListStep
  <2>7. ListBytes(m_list, header') = ListBytes(m_list, header)
    BY <1>1, <1>2, <2>2, ListSame
  <2>8. counts.liveBytes \in Nat
    BY <1>1 DEF Counters
  <2> QED
    BY <1>1, <2>2, <2>3, <2>4, <2>6, <2>7, <2>8 DEF CountInv
<1>5. ASSUME NEW t \in Threads, Unlink(t) PROVE CountInv'
  <2>1. PICK s : s = ptr[t][1]
    OBVIOUS
  <2>2. /\ s \in m_list /\ m_list' = m_list \ {s} /\ header' = header
        /\ counts' = [counts EXCEPT !.frees = @ + 1, !.liveBytes = Minus(@, header[s].size)]
    BY <1>5, <2>1 DEF Unlink, HeapInv, PointerOK, Block, heapVars
  <2>3. /\ ListBytes(m_list, header) = header[s].size + ListBytes(m_list', header)
        /\ header[s].size <= ListBytes(m_list, header) /\ ListBytes(m_list', header) \in Nat
    BY <1>1, <2>2, ListStep
  <2>4. header[s].size \in Nat /\ counts.liveBytes \in Nat
    BY <1>1, <2>2 DEF Counters
  <2>5. Minus(counts.liveBytes, header[s].size) = ListBytes(m_list', header)
    BY <1>1, <2>3, <2>4 DEF Minus
  <2>6. PICK f, b : f = counts.frees + 1 /\ b = ListBytes(m_list', header)
    OBVIOUS
  <2>8. f \in Nat /\ b \in Nat /\ counts' = [counts EXCEPT !.frees = f, !.liveBytes = b]
    <3>1. f \in Nat
      BY <1>1, <2>6 DEF Counters
    <3>2. b \in Nat /\ b = Minus(counts.liveBytes, header[s].size)
      BY <2>3, <2>5, <2>6
    <3> QED
      BY <2>2, <2>6, <3>1, <3>2
  <2>7. counts' \in Counters /\ counts'.liveBytes = b
    BY <1>1, <2>8 DEF Counters
  <2> QED
    BY <2>2, <2>6, <2>7 DEF CountInv
<1> QED
  BY <1>3, <1>4, <1>5

\* Under the discipline the number and the bytes of live blocks are those of the
\* list, and the live set holds a block's payload unless the block is on its way
\* into or out of the list: Accounting for any number of threads and slots.
THEOREM CountersAreTheLists ==
  ASSUME Discipline
  PROVE  Spec => []Accounting
<1> DEFINE I == HookInv /\ HeapInv /\ CountInv /\ m_sequence \in Nat
<1>1. Init => I
  BY HookInvInit, HeapInvInit, CountInvInit
<1>2. I /\ [Next]_vars => I'
  <2> SUFFICES ASSUME I, [Next]_vars PROVE I'
    OBVIOUS
  <2>1. HookInv' /\ HeapInv' /\ m_sequence' \in Nat
    BY HookInvNext, HeapInvNext, SequenceNext DEF Discipline, AllAssumes
  <2> QED
    BY <2>1, CountInvNext
<1>3. I => Accounting
  <2> SUFFICES ASSUME HeapInv, CountInv PROVE Accounting
    OBVIOUS
  <2>1. \A s \in m_list : payloadOf(s, header[s].redzone) = Payload(s)
    BY DEF HeapInv, Layout, HeapTypes, Payload
  <2>2. /\ m_live \subseteq {payloadOf(s, header[s].redzone) : s \in m_list}
        /\ \A s \in m_list : header[s].magic = "live" => payloadOf(s, header[s].redzone) \in m_live
    BY <2>1 DEF HeapInv, Linked
  <2>3. counts.liveBytes = SumFunction([s \in m_list |-> header[s].size])
    BY DEF CountInv, ListBytes, SumFunction
  <2> QED
    BY <2>2, <2>3 DEF Accounting, HeapInv, Linked
<1> HIDE DEF I
<1> QED
  BY <1>1, <1>2, <1>3, PTL DEF Spec
-----------------------------------------------------------------------------
(* The faults. *)

\* The system allocator places no chunk where a payload may be.
OffsetsApart == \A config \in Configs : payloadOffset(config.redzone) \notin SystemOffsets

\* Only blocks with a red zone have a damaged guard, only painted blocks are held
\* back, and no chunk of the system's is remembered as freed.
FaultFacts ==
  /\ \A s \in Slots : ~header[s].guard => header[s].redzone # 0
  /\ m_quarantine # <<>> => m_config.patternFill
  /\ \A s \in Slots : header[s].magic = "none" => heap[s] \in SystemOffsets \union {NoChunk}
  /\ \A p \in m_freedRecently : p[2] \notin SystemOffsets

\* The guards of a block are intact until the program writes.
LEMMA GuardsNext ==
  ASSUME HeapInv, [Next]_vars, \A s \in Slots : ~header[s].guard => header[s].redzone # 0
  PROVE  \A s \in Slots : ~header'[s].guard => header'[s].redzone # 0
<1> SUFFICES ASSUME NEW s \in Slots, ~header'[s].guard PROVE header'[s].redzone # 0
  OBVIOUS
<1>1. /\ header \in [Slots -> Header] /\ header[s] \in Header /\ NoHeader.guard
      /\ \A r \in Slots : ~header[r].guard => header[r].redzone # 0
  BY DEF HeapInv, HeapTypes, NoHeader
<1>2. ASSUME NEW r, header' = [header EXCEPT ![r] = NoHeader] PROVE header'[s].redzone # 0
  BY <1>1, <1>2
<1>3. ASSUME NEW t \in Threads, HookAllocate(t) PROVE header'[s].redzone # 0
  <2>0. PICK redzone : redzone = IF m_config.checkRedzone THEN m_config.redzone ELSE 0
    OBVIOUS
  <2>1. PICK r \in Slots, size \in Sizes : header' = [header EXCEPT ![r] =
               [NoHeader EXCEPT !.magic = "live", !.size = size,
                                !.redzone = redzone, !.pattern = FALSE]]
    BY <1>3, <2>0 DEF HookAllocate
  <2>2. PICK x : x = [NoHeader EXCEPT !.magic = "live", !.size = size,
                                      !.redzone = redzone, !.pattern = FALSE]
    OBVIOUS
  <2>3. x.guard
    BY <2>2 DEF NoHeader
  <2> QED
    BY <1>1, <2>1, <2>2, <2>3
<1>4. ASSUME NEW t \in Threads, Link(t) PROVE header'[s].redzone # 0
  <2>1. \E r : header' = [header EXCEPT ![r].sequence = m_sequence]
    BY <1>4 DEF Link
  <2> QED
    BY <1>1, <2>1 DEF Header
<1>5. ASSUME NEW t \in Threads, RawFree(t) \/ ReleaseNow(t) \/ Reallocate(t)
      PROVE  header'[s].redzone # 0
  <2>1. header' = header \/ \E r : header' = [header EXCEPT ![r] = NoHeader]
    BY <1>5 DEF RawFree, ReleaseNow, Reallocate
  <2> QED
    BY <1>1, <1>2, <2>1
<1>6. ASSUME ProgramWrites PROVE header'[s].redzone # 0
  <2>1. PICK r : \/ header' = [header EXCEPT ![r].guard = FALSE] /\ header[r].redzone > 0
                 \/ header' = [header EXCEPT ![r].magic = "smashed"]
                 \/ header' = [header EXCEPT ![r].pattern = FALSE]
    BY <1>6 DEF ProgramWrites, Overrun, Smash, DanglingWrite
  <2> QED
    BY <1>1, <2>1 DEF Header
<1>7. ASSUME NEW q, NEW h, NEW d, Drain(q, h, d),
             h[s].guard = header[s].guard, h[s].redzone = header[s].redzone
      PROVE  header'[s].redzone # 0
  <2>1. PICK gone : header' = [r \in Slots |-> IF r \in gone THEN NoHeader ELSE h[r]]
    BY <1>7 DEF Drain
  <2> QED
    BY <1>1, <1>7, <2>1
<1>8. ASSUME NEW t \in Threads, HoldBack(t) PROVE header'[s].redzone # 0
  <2>1. PICK r : Drain(Append(m_quarantine, r),
                       [header EXCEPT ![r].magic = "freed", ![r].pattern = TRUE],
                       m_config.quarantineBytes)
    BY <1>8 DEF HoldBack
  <2>2. PICK h : h = [header EXCEPT ![r].magic = "freed", ![r].pattern = TRUE]
    OBVIOUS
  <2>3. h[s].guard = header[s].guard /\ h[s].redzone = header[s].redzone
    BY <1>1, <2>2 DEF Header
  <2> QED
    BY <1>7, <2>1, <2>2, <2>3
<1>9. ASSUME FlushQuarantine \/ EndRecording \/ \E t \in Threads : Settle(t)
      PROVE  header'[s].redzone # 0
  <2>1. Drain(m_quarantine, header, 0) \/ UNCHANGED header
    BY <1>9 DEF FlushQuarantine, EndRecording, Settle, UninstallIfIdle, BeginUninstall,
                KeepInstalled
  <2> QED
    BY <1>1, <1>7, <2>1
<1>10. CASE UNCHANGED header
  BY <1>1, <1>10
<1> QED
  BY <1>3, <1>4, <1>5, <1>6, <1>8, <1>9, <1>10
     DEF Next, Continue, ContinueScope, heapVars, vars,
         RawAllocate, AllocateFails, Lookup, CountDoubleFree,
         PassThrough, ReportSmashed, InspectRedzones, Unlink,
         FinishUninstall, LoadAllocate, LoadDeallocate, DoubleFree, ToggleBypass,
         FinishInstall, ScopeBaseline, ScopeReset, ReadCounts, Sample, BeginRecording

\* Only painted blocks are held back.
LEMMA PaintedNext ==
  ASSUME Discipline, HookInv, HeapInv, [Next]_vars, m_quarantine # <<>> => m_config.patternFill
  PROVE  m_quarantine' # <<>> => m_config'.patternFill
<1>1. ~BeginRecording => m_config' = m_config
  BY DEF Next, Continue, ContinueScope, modeVars, vars,
         RawAllocate, AllocateFails, HookAllocate, Link, RawFree, Lookup, CountDoubleFree,
         PassThrough, ReportSmashed, InspectRedzones, Unlink, HoldBack, ReleaseNow, Settle,
         FinishUninstall, LoadAllocate, LoadDeallocate, Reallocate, DoubleFree, ToggleBypass,
         FinishInstall, ScopeBaseline, ScopeReset, ReadCounts, Sample,
         EndRecording, FlushQuarantine, ProgramWrites
<1>2. CASE \E t \in Threads : HoldBack(t)
  BY <1>2 DEF HoldBack, Quarantining, modeVars
<1>3. CASE FlushQuarantine \/ EndRecording \/ \E t \in Threads : Settle(t)
  <2>1. m_config' = m_config
    BY <1>3 DEF FlushQuarantine, EndRecording, Settle, modeVars
  <2>2. CASE FlushQuarantine
    <3>1. pc[Main] \notin Holding /\ "counts" \in Labels \ Holding
      BY <2>2 DEF FlushQuarantine, Holding, Labels
    <3>2. /\ Unlocked /\ Drain(m_quarantine, header, 0) /\ Goto(Main, "counts")
          /\ UNCHANGED <<owned, dangling, m_config, m_list, m_live, m_liveBlocks, ptr>>
      BY <2>2 DEF FlushQuarantine, modeVars
    <3> QED
      BY <3>1, <3>2, FlushKeeps, ThreadsAssumption
  <2>3. CASE EndRecording \/ \E t \in Threads : Settle(t)
    <3>1. m_quarantine' = <<>> \/ UNCHANGED m_quarantine
      BY <2>3, UninstallKeeps, ThreadsAssumption DEF EndRecording, Settle
    <3> QED
      BY <2>1, <3>1
  <2> QED
    BY <1>3, <2>2, <2>3
<1>4. CASE BeginRecording /\ m_config' # m_config
  BY <1>4, ConfigureKeeps
<1> QED
  BY <1>1, <1>2, <1>3, <1>4, QueueKept

\* A chunk without a header is the system's.
LEMMA ChunksNext ==
  ASSUME HeapInv, [Next]_vars,
         \A s \in Slots : header[s].magic = "none" => heap[s] \in SystemOffsets \union {NoChunk}
  PROVE  \A s \in Slots : header'[s].magic = "none" => heap'[s] \in SystemOffsets \union {NoChunk}
<1> SUFFICES ASSUME NEW s \in Slots, header'[s].magic = "none"
             PROVE  heap'[s] \in SystemOffsets \union {NoChunk}
  OBVIOUS
<1>1. /\ header \in [Slots -> Header] /\ heap \in [Slots -> Nat \union {NoChunk}]
      /\ header[s] \in Header
      /\ header[s].magic = "none" => heap[s] \in SystemOffsets \union {NoChunk}
  BY DEF HeapInv, HeapTypes
<1>2. ASSUME NEW r, NEW o \in SystemOffsets \union {NoChunk},
             heap' = [heap EXCEPT ![r] = o],
             header' = header \/ header' = [header EXCEPT ![r] = NoHeader]
      PROVE  heap'[s] \in SystemOffsets \union {NoChunk}
  BY <1>1, <1>2
<1>3. ASSUME NEW t \in Threads, HookAllocate(t) PROVE heap'[s] \in SystemOffsets \union {NoChunk}
  <2>0. PICK redzone : redzone = IF m_config.checkRedzone THEN m_config.redzone ELSE 0
    OBVIOUS
  <2>1. PICK r \in Slots, size \in Sizes :
          /\ header' = [header EXCEPT ![r] =
               [NoHeader EXCEPT !.magic = "live", !.size = size,
                                !.redzone = redzone, !.pattern = FALSE]]
          /\ heap' = [heap EXCEPT ![r] = 0]
    BY <1>3, <2>0 DEF HookAllocate
  <2>2. PICK x : x = [NoHeader EXCEPT !.magic = "live", !.size = size,
                                      !.redzone = redzone, !.pattern = FALSE]
    OBVIOUS
  <2>3. x.magic = "live"
    BY <2>2 DEF NoHeader
  <2> QED
    BY <1>1, <2>1, <2>2, <2>3
<1>4. ASSUME NEW t \in Threads, Link(t) PROVE heap'[s] \in SystemOffsets \union {NoChunk}
  <2>1. heap' = heap /\ \E r : header' = [header EXCEPT ![r].sequence = m_sequence]
    BY <1>4 DEF Link
  <2> QED
    BY <1>1, <2>1 DEF Header
<1>5. ASSUME NEW t \in Threads, RawAllocate(t) \/ RawFree(t) \/ ReleaseNow(t)
      PROVE  heap'[s] \in SystemOffsets \union {NoChunk}
  <2>1. \/ heap' = heap /\ header' = header
        \/ \E r \in Slots, o \in SystemOffsets : heap' = [heap EXCEPT ![r] = o] /\ header' = header
        \/ \E r : heap' = [heap EXCEPT ![r] = NoChunk] /\ header' = [header EXCEPT ![r] = NoHeader]
    BY <1>5 DEF RawAllocate, RawFree, ReleaseNow
  <2> QED
    BY <1>1, <1>2, <2>1
<1>6. ASSUME NEW t \in Threads, Reallocate(t) PROVE heap'[s] \in SystemOffsets \union {NoChunk}
  <2>1. PICK p \in owned :
          \/ heap' = heap /\ header' = header
          \/ \E r \in Slots, o \in SystemOffsets :
               /\ r = p[1] \/ heap[r] = NoChunk
               /\ heap' = [heap EXCEPT ![p[1]] = NoChunk, ![r] = o]
               /\ header' = [header EXCEPT ![p[1]] = NoHeader]
    BY <1>6 DEF Reallocate
  <2>2. CASE heap' = heap /\ header' = header
    BY <1>1, <2>2
  <2>3. ASSUME NEW r \in Slots, NEW o \in SystemOffsets,
               heap' = [heap EXCEPT ![p[1]] = NoChunk, ![r] = o],
               header' = [header EXCEPT ![p[1]] = NoHeader]
        PROVE  heap'[s] \in SystemOffsets \union {NoChunk}
    BY <1>1, <2>3
  <2> QED
    BY <2>1, <2>2, <2>3
<1>7. ASSUME ProgramWrites PROVE heap'[s] \in SystemOffsets \union {NoChunk}
  <2>1. heap' = heap /\ \E r : \/ header' = [header EXCEPT ![r].guard = FALSE]
                               \/ header' = [header EXCEPT ![r].magic = "smashed"]
                               \/ header' = [header EXCEPT ![r].pattern = FALSE]
    BY <1>7 DEF ProgramWrites, Overrun, Smash, DanglingWrite
  <2> QED
    BY <1>1, <2>1 DEF Header
<1>8. ASSUME NEW q, NEW h, NEW d, Drain(q, h, d), h[s].magic = "none" => header[s].magic = "none"
      PROVE  heap'[s] \in SystemOffsets \union {NoChunk}
  <2>1. PICK gone : /\ header' = [r \in Slots |-> IF r \in gone THEN NoHeader ELSE h[r]]
                    /\ heap' = [r \in Slots |-> IF r \in gone THEN NoChunk ELSE heap[r]]
    BY <1>8 DEF Drain
  <2> QED
    BY <1>1, <1>8, <2>1
<1>9. ASSUME NEW t \in Threads, HoldBack(t) PROVE heap'[s] \in SystemOffsets \union {NoChunk}
  <2>1. PICK r : Drain(Append(m_quarantine, r),
                       [header EXCEPT ![r].magic = "freed", ![r].pattern = TRUE],
                       m_config.quarantineBytes)
    BY <1>9 DEF HoldBack
  <2>2. PICK h : h = [header EXCEPT ![r].magic = "freed", ![r].pattern = TRUE]
    OBVIOUS
  <2>3. h[s].magic = header[s].magic \/ h[s].magic = "freed"
    BY <1>1, <2>2 DEF Header
  <2> QED
    BY <1>8, <2>1, <2>2, <2>3
<1>10. ASSUME FlushQuarantine \/ EndRecording \/ \E t \in Threads : Settle(t)
       PROVE  heap'[s] \in SystemOffsets \union {NoChunk}
  <2>1. Drain(m_quarantine, header, 0) \/ (heap' = heap /\ header' = header)
    BY <1>10 DEF FlushQuarantine, EndRecording, Settle, UninstallIfIdle, BeginUninstall,
                 KeepInstalled
  <2> QED
    BY <1>1, <1>8, <2>1
<1>11. CASE heap' = heap /\ header' = header
  BY <1>1, <1>11
<1> QED
  BY <1>3, <1>4, <1>5, <1>6, <1>7, <1>9, <1>10, <1>11
     DEF Next, Continue, ContinueScope, heapVars, vars,
         AllocateFails, Lookup, CountDoubleFree,
         PassThrough, ReportSmashed, InspectRedzones, Unlink,
         FinishUninstall, LoadAllocate, LoadDeallocate, DoubleFree, ToggleBypass,
         FinishInstall, ScopeBaseline, ScopeReset, ReadCounts, Sample, BeginRecording

\* What is remembered as freed was a payload.
LEMMA FreedNext ==
  ASSUME HeapInv, OffsetsApart, [Next]_vars, \A p \in m_freedRecently : p[2] \notin SystemOffsets
  PROVE  \A p \in m_freedRecently' : p[2] \notin SystemOffsets
<1>1. \A p : Block(p) => p[2] \notin SystemOffsets
  BY PayloadFacts DEF Block, OffsetsApart, HeapInv, HeapTypes
<1>2. ASSUME NEW t \in Threads, Unlink(t)
      PROVE  m_freedRecently' \subseteq m_freedRecently \union {ptr[t]} /\ Block(ptr[t])
  BY <1>2 DEF Unlink, Remember, HeapInv, PointerOK
<1>3. CASE m_freedRecently' \subseteq m_freedRecently
  BY <1>3
<1> QED
  BY <1>1, <1>2, <1>3
     DEF Next, Continue, ContinueScope, blockVars, vars,
         RawAllocate, AllocateFails, HookAllocate, Link, RawFree, Lookup, CountDoubleFree,
         PassThrough, ReportSmashed, InspectRedzones, HoldBack, ReleaseNow, Settle,
         FinishUninstall, LoadAllocate, LoadDeallocate, Reallocate, DoubleFree, ToggleBypass,
         FinishInstall, ScopeBaseline, ScopeReset, ReadCounts, Sample, BeginRecording,
         EndRecording, FlushQuarantine, ProgramWrites

\* So these facts are kept.
LEMMA FaultFactsNext ==
  ASSUME Discipline, OffsetsApart, HookInv, HeapInv, FaultFacts, [Next]_vars
  PROVE  FaultFacts'
<1>1. \A s \in Slots : ~header'[s].guard => header'[s].redzone # 0
  BY GuardsNext DEF FaultFacts
<1>2. m_quarantine' # <<>> => m_config'.patternFill
  BY PaintedNext DEF FaultFacts
<1>3. \A s \in Slots : header'[s].magic = "none" => heap'[s] \in SystemOffsets \union {NoChunk}
  BY ChunksNext DEF FaultFacts
<1>4. \A p \in m_freedRecently' : p[2] \notin SystemOffsets
  BY FreedNext DEF FaultFacts
<1> QED
  BY <1>1, <1>2, <1>3, <1>4 DEF FaultFacts

Waiting == {"lookup", "inspect"}

\* A thread's steps after LoadDeallocate.
Inspects(t) == Lookup(t) \/ ReportSmashed(t) \/ InspectRedzones(t)

\* Nobody changes the block a thread is about to inspect, or leads it on.
LEMMA WaitingKept ==
  ASSUME Discipline, HookInv, HeapInv, [Next]_vars, NEW u \in Threads, pc[u] \in Waiting,
         ~Inspects(u)
  PROVE  /\ pc'[u] = pc[u] /\ ptr'[u] = ptr[u] /\ m_config' = m_config
         /\ header'[ptr[u][1]].magic = header[ptr[u][1]].magic
         /\ header'[ptr[u][1]].guard = header[ptr[u][1]].guard
         /\ ptr[u][1] \in m_list' <=> ptr[u][1] \in m_list
         /\ ptr[u] \in m_live' <=> ptr[u] \in m_live
<1> DEFINE Same(s) == /\ pc'[u] = pc[u] /\ ptr'[u] = ptr[u] /\ m_config' = m_config
                      /\ header'[s].magic = header[s].magic
                      /\ header'[s].guard = header[s].guard
                      /\ s \in m_list' <=> s \in m_list
                      /\ ptr[u] \in m_live' <=> ptr[u] \in m_live
<1>0. PICK s : s = ptr[u][1]
  OBVIOUS
<1>1. /\ pc \in [Threads -> Labels] /\ ptr \in [Threads -> Pointers]
      /\ header \in [Slots -> Header] /\ s \in Slots /\ header[s] \in Header
      /\ pc[u] \in Holding /\ pc[u] \in InTracker
  BY <1>0, SlotFacts DEF HookInv, HookTypeOK, HeapInv, HeapTypes, Holding, InTracker, Waiting
<1>2. /\ heap[s] # NoChunk /\ s \notin Range(m_quarantine)
      /\ \A p \in owned : p[1] # s
      /\ \A v \in Threads \ {u} : pc[v] \in Holding => ptr[v][1] # s
  BY <1>0, <1>1, FreeSlot, HeldFacts DEF HeapInv, Exclusive
<1>3. ASSUME NEW t \in Threads, RawAllocate(t) \/ AllocateFails(t) \/ LoadAllocate(t)
                                \/ PassThrough(t) \/ CountDoubleFree(t) \/ ToggleBypass(t)
                                \/ LoadDeallocate(t) \/ Inspects(t)
      PROVE  Same(s)
  <2>1. t # u
    BY <1>3 DEF RawAllocate, AllocateFails, LoadAllocate, PassThrough, CountDoubleFree,
                ToggleBypass, LoadDeallocate, MayStart, Waiting
  <2>2. pc'[u] = pc[u] /\ ptr'[u] = ptr[u]
    BY <1>1, <1>3, <2>1
       DEF RawAllocate, AllocateFails, LoadAllocate, PassThrough, CountDoubleFree, ToggleBypass,
           LoadDeallocate, Inspects, Lookup, ReportSmashed, InspectRedzones, Dispatch, Goto
  <2>3. /\ UNCHANGED <<header, m_config, m_list>>
        /\ m_live' = m_live \/ (m_live' = m_live \ {ptr[t]} /\ pc[t] \in Holding)
    BY <1>3
       DEF RawAllocate, AllocateFails, LoadAllocate, PassThrough, CountDoubleFree, ToggleBypass,
           LoadDeallocate, Inspects, Lookup, ReportSmashed, InspectRedzones, Holding,
           heapVars, modeVars, blockVars
  <2>4. pc[t] \in Holding => ptr[t] # ptr[u]
    BY <1>0, <1>2, <2>1
  <2> QED
    BY <2>2, <2>3, <2>4
<1>4. ASSUME NEW t \in Threads, HookAllocate(t) PROVE Same(s)
  <2>1. PICK r \in Slots : heap[r] = NoChunk /\ \E x : header' = [header EXCEPT ![r] = x]
    BY <1>4 DEF HookAllocate
  <2>2. /\ t # u /\ UNCHANGED <<m_config, m_list, m_live>>
        /\ pc'[u] = pc[u] /\ ptr'[u] = ptr[u]
    BY <1>1, <1>4 DEF HookAllocate, Waiting, Goto, modeVars, blockVars
  <2>3. header'[s] = header[s]
    BY <1>1, <1>2, <2>1
  <2> QED
    BY <2>2, <2>3
<1>5. ASSUME NEW t \in Threads, RawFree(t) \/ ReleaseNow(t) \/ Link(t) \/ Unlink(t) PROVE Same(s)
  <2>1. t # u /\ pc[t] \in Holding
    BY <1>5 DEF RawFree, ReleaseNow, Link, Unlink, Waiting, Holding
  <2>2. PICK r : r = ptr[t][1] /\ r # s
    BY <1>2, <2>1
  <2>3. /\ m_config' = m_config
        /\ \/ header' = header \/ header' = [header EXCEPT ![r] = NoHeader]
           \/ header' = [header EXCEPT ![r].sequence = m_sequence]
        /\ m_list' = m_list \/ m_list' = m_list \union {r} \/ m_list' = m_list \ {r}
        /\ m_live' = m_live \/ m_live' = m_live \union {ptr[t]} \/ m_live' = m_live \ {ptr[t]}
    BY <1>5, <2>2 DEF RawFree, ReleaseNow, Link, Unlink, heapVars, modeVars, blockVars
  <2>4. pc'[u] = pc[u] /\ ptr'[u] = ptr[u]
    BY <1>1, <1>5, <2>1 DEF RawFree, ReleaseNow, Link, Unlink, Goto
  <2>5. ptr[t] # ptr[u] /\ header'[s] = header[s]
    BY <1>0, <1>1, <2>2, <2>3
  <2> QED
    BY <2>2, <2>3, <2>4, <2>5
<1>6. ASSUME NEW t \in Threads, Reallocate(t) PROVE Same(s)
  <2>1. PICK p \in owned : header' = header \/ header' = [header EXCEPT ![p[1]] = NoHeader]
    BY <1>6 DEF Reallocate
  <2>2. UNCHANGED <<m_config, m_list, m_live, pc, ptr>>
    BY <1>6 DEF Reallocate, modeVars, blockVars
  <2>3. header'[s] = header[s]
    BY <1>1, <1>2, <2>1
  <2> QED
    BY <2>2, <2>3
<1>7. ASSUME ProgramWrites PROVE Same(s)
  <2>1. PICK r : /\ r # s
                 /\ \/ header' = [header EXCEPT ![r].guard = FALSE]
                    \/ header' = [header EXCEPT ![r].magic = "smashed"]
                    \/ header' = [header EXCEPT ![r].pattern = FALSE]
    BY <1>2, <1>7 DEF ProgramWrites, Overrun, Smash, DanglingWrite, Range
  <2>2. UNCHANGED <<m_config, m_list, m_live, pc, ptr>>
    BY <1>7 DEF ProgramWrites, modeVars, blockVars
  <2>3. header'[s] = header[s]
    BY <1>1, <2>1
  <2> QED
    BY <2>2, <2>3
<1>8. ASSUME NEW q \in Seq(Slots), NEW h, NEW d \in Nat, Drain(q, h, d), h[s] = header[s],
             s \notin Range(q)
      PROVE  header'[s] = header[s]
  <2>1. PICK k : header' = [r \in Slots |-> IF r \in {q[i] : i \in 1..k} THEN NoHeader ELSE h[r]]
                 /\ k = DrainCount(q, h, d)
    BY <1>8 DEF Drain
  <2>2. k \in Nat /\ k <= Len(q)
    BY <2>1, DrainUpTo
  <2>3. \A i \in 1..k : q[i] # s
    BY <1>8, <2>2 DEF Range
  <2> QED
    BY <1>1, <1>8, <2>1, <2>3
<1>9. ASSUME NEW t \in Threads, HoldBack(t) PROVE Same(s)
  <2>1. /\ pc[t] = "release" /\ t # u /\ ptr[t][1] # s /\ ptr[t][1] \in Slots
        /\ m_quarantine \in Seq(Slots) /\ m_config.quarantineBytes \in Nat
    BY <1>2, <1>9, SlotFacts, ConfigFacts DEF HoldBack, Waiting, Holding, HeapInv, HeapTypes
  <2>2. PICK r, q, h : /\ r = ptr[t][1] /\ q = Append(m_quarantine, r)
                       /\ h = [header EXCEPT ![r].magic = "freed", ![r].pattern = TRUE]
    OBVIOUS
  <2>3. Drain(q, h, m_config.quarantineBytes)
    BY <1>9, <2>2 DEF HoldBack
  <2>4. q \in Seq(Slots) /\ h[s] = header[s]
    BY <1>1, <2>1, <2>2
  <2>5. s \notin Range(q)
    <3>1. \A i \in DOMAIN q : q[i] = r \/ \E j \in DOMAIN m_quarantine : q[i] = m_quarantine[j]
      BY <2>1, <2>2
    <3> QED
      BY <1>2, <2>1, <2>2, <3>1 DEF Range
  <2>6. header'[s] = header[s]
    BY <1>8, <2>1, <2>3, <2>4, <2>5
  <2>7. UNCHANGED <<m_config, m_list, m_live>> /\ pc'[u] = pc[u] /\ ptr'[u] = ptr[u]
    BY <1>1, <1>9, <2>1 DEF HoldBack, Goto, modeVars
  <2> QED
    BY <2>6, <2>7
<1>10. ASSUME FlushQuarantine \/ EndRecording \/ \E t \in Threads : Settle(t) PROVE Same(s)
  <2>1. m_quarantine \in Seq(Slots) /\ Main \in Threads
    BY ThreadsAssumption DEF HeapInv, HeapTypes
  <2>2. Drain(m_quarantine, header, 0) \/ UNCHANGED header
    BY <1>10 DEF FlushQuarantine, EndRecording, Settle, UninstallIfIdle, BeginUninstall,
                 KeepInstalled
  <2>3. header'[s] = header[s]
    BY <1>2, <1>8, <2>1, <2>2
  <2>4. PICK t \in Threads : /\ pc[t] \in {"settle", "idle"}
                             /\ \E l : pc' = [pc EXCEPT ![t] = l]
    BY <1>10, <2>1 DEF FlushQuarantine, EndRecording, Settle, UninstallIfIdle, BeginUninstall,
                       KeepInstalled, Goto
  <2>5. UNCHANGED <<m_config, m_list, m_live, ptr>> /\ pc'[u] = pc[u]
    BY <1>1, <1>10, <2>4 DEF FlushQuarantine, EndRecording, Settle, modeVars, Waiting
  <2> QED
    BY <2>3, <2>5
<1>11. ASSUME NEW t \in Threads, FinishUninstall(t) PROVE Same(s)
  <2>1. t # u /\ m_live = {}
    BY <1>11, NothingLive DEF FinishUninstall, Waiting, HookInv, SlotsAgree
  <2> QED
    BY <1>1, <1>11, <2>1 DEF FinishUninstall, Goto
<1>12. ASSUME ContinueScope \/ UNCHANGED vars PROVE Same(s)
  <2>1. UNCHANGED <<header, m_config, m_list, m_live, ptr>>
    BY <1>12 DEF ContinueScope, FinishInstall, ScopeBaseline, ScopeReset, ReadCounts, Sample,
                 vars, heapVars, modeVars, blockVars
  <2>2. pc' = pc \/ (pc[Main] \notin Waiting /\ \E l : pc' = [pc EXCEPT ![Main] = l])
    BY <1>12 DEF ContinueScope, FinishInstall, ScopeBaseline, ScopeReset, ReadCounts, Sample,
                 vars, Goto, Waiting
  <2> QED
    BY <1>1, <2>1, <2>2
<1>13. ASSUME BeginRecording PROVE Same(s)
  <2>1. m_installed
    BY <1>1, <1>13, UnlockedFacts DEF BeginRecording
  <2>2. m_config' = m_config
    BY <1>13, <2>1 DEF BeginRecording, MayConfigure, Discipline, AllAssumes
  <2>3. UNCHANGED <<header, m_list, m_live, ptr>>
    BY <1>13 DEF BeginRecording, heapVars, blockVars
  <2>4. pc[Main] = "idle" /\ \E l : pc' = [pc EXCEPT ![Main] = l]
    BY <1>13 DEF BeginRecording, Goto
  <2> QED
    BY <1>1, <2>2, <2>3, <2>4 DEF Waiting
<1>14. ASSUME NEW t \in Threads, DoubleFree(t) PROVE FALSE
  BY <1>14 DEF DoubleFree, Discipline
<1>15. Same(s)
  <2> HIDE DEF Same
  <2> QED
    BY <1>3, <1>4, <1>5, <1>6, <1>7, <1>9, <1>10, <1>11, <1>12, <1>13, <1>14
       DEF Next, Continue, Inspects
<1> QED
  BY <1>0, <1>15

\* A block the program damaged.
DamagedBlock(s) == header[s].magic # "live" \/ ~header[s].guard

\* Frees of damaged blocks that have begun and are not yet reported.
Pending == {t \in Threads : pc[t] \in Waiting /\ Block(ptr[t]) /\ DamagedBlock(ptr[t][1])}

\* A block is about to be inspected only once its free has begun.
LEMMA WaitingBegins ==
  ASSUME Discipline, pc \in [Threads -> Labels], [Next]_vars, NEW u \in Threads,
         ~LoadDeallocate(u), pc[u] \notin Waiting
  PROVE  pc'[u] \notin Waiting
<1>1. ASSUME NEW t \in Threads, NEW l \in Labels \ Waiting, pc' = [pc EXCEPT ![t] = l]
      PROVE  pc'[u] \notin Waiting
  BY <1>1
<1>2. {"idle", "rawAllocate", "allocate", "link", "rawFree", "unlink", "notOurs",
       "release", "settle", "uninstall", "install", "baseline", "reset", "counts", "sample"}
      \subseteq Labels \ Waiting
  BY DEF Labels, Waiting
<1>3. ASSUME NEW t \in Threads, RawAllocate(t) \/ AllocateFails(t) \/ HookAllocate(t) \/ Link(t)
                                \/ RawFree(t) \/ CountDoubleFree(t) \/ PassThrough(t)
                                \/ ReportSmashed(t) \/ InspectRedzones(t) \/ Unlink(t)
                                \/ HoldBack(t) \/ ReleaseNow(t) \/ Settle(t)
                                \/ FinishUninstall(t) \/ LoadAllocate(t)
      PROVE  pc'[u] \notin Waiting
  <2>1. PICK l \in {"idle", "rawAllocate", "allocate", "link", "rawFree", "unlink", "notOurs",
                    "release", "settle", "uninstall"} : pc' = [pc EXCEPT ![t] = l]
    BY <1>3 DEF RawAllocate, AllocateFails, HookAllocate, Link, RawFree, CountDoubleFree,
                PassThrough, ReportSmashed, InspectRedzones, Unlink, HoldBack, ReleaseNow, Settle,
                UninstallIfIdle, BeginUninstall, KeepInstalled, FinishUninstall, LoadAllocate, Goto
  <2> QED
    BY <1>1, <1>2, <2>1
<1>4. ASSUME NEW t \in Threads, Lookup(t) \/ LoadDeallocate(t) PROVE pc'[u] \notin Waiting
  <2>1. t # u /\ \E l : pc' = [pc EXCEPT ![t] = l]
    BY <1>4 DEF Lookup, LoadDeallocate, Dispatch, Goto, Waiting
  <2> QED
    BY <2>1
<1>5. ASSUME NEW t \in Threads, DoubleFree(t) PROVE FALSE
  BY <1>5 DEF DoubleFree, Discipline
<1>6. ASSUME ContinueScope \/ BeginRecording \/ EndRecording \/ FlushQuarantine
      PROVE  pc'[u] \notin Waiting
  <2>1. PICK l \in {"idle", "uninstall", "install", "baseline", "reset", "counts", "sample"} :
          pc' = [pc EXCEPT ![Main] = l]
    BY <1>6 DEF ContinueScope, FinishInstall, ScopeBaseline, ScopeReset, ReadCounts, Sample,
                BeginRecording, EndRecording, FlushQuarantine, UninstallIfIdle, BeginUninstall,
                KeepInstalled, Goto
  <2> QED
    BY <1>1, <1>2, <2>1, ThreadsAssumption
<1>7. CASE UNCHANGED pc
  BY <1>7
<1> QED
  BY <1>3, <1>4, <1>5, <1>6, <1>7
     DEF Next, Continue, Reallocate, ToggleBypass, ProgramWrites, vars

\* A free is pending until its thread inspects the block.
LEMMA PendingKept ==
  ASSUME Discipline, HookInv, HeapInv, [Next]_vars, NEW u \in Threads,
         ~LoadDeallocate(u), ~Inspects(u)
  PROVE  u \in Pending' <=> u \in Pending
<1>1. pc \in [Threads -> Labels]
  BY DEF HookInv, HookTypeOK
<1>2. CASE pc[u] \notin Waiting
  BY <1>1, <1>2, WaitingBegins DEF Pending
<1>3. CASE pc[u] \in Waiting
  <2>1. PICK p, s : p = ptr[u] /\ s = ptr[u][1]
    OBVIOUS
  <2>2. /\ pc'[u] = pc[u] /\ ptr'[u] = p /\ m_config' = m_config
        /\ header'[s].magic = header[s].magic /\ header'[s].guard = header[s].guard
        /\ s \in m_list' <=> s \in m_list
        /\ p \in m_live' <=> p \in m_live
    BY <1>3, <2>1, WaitingKept
  <2>3. p[1] = s
    BY <2>1
  <2>4. (Block(p)' <=> Block(p)) /\ (DamagedBlock(s)' <=> DamagedBlock(s))
    BY <2>2, <2>3 DEF Block, Payload, DamagedBlock
  <2> QED
    BY <2>1, <2>2, <2>3, <2>4 DEF Pending
<1> QED
  BY <1>2, <1>3

\* While a block is alive its free reaches the hook.
LEMMA FreeReachesHook ==
  ASSUME HookInv, HeapInv, NEW p, Block(p)
  PROVE  deallocateSlot = "hook"
<1>1. p \in m_live /\ m_installed
  BY DEF Block, HookInv, OutMeansEmpty, HookTypeOK
<1>2. m_liveBlocks # 0
  BY <1>1, NothingLive
<1> QED
  BY <1>1, <1>2 DEF HookInv, HookTypeOK, SlotsAgree

\* The faults counted and the mistakes made are counts, and nothing was freed twice.
MistakeInv == truth \in Mistakes /\ truth.doubleFrees = 0 /\ counts.doubleFrees = 0

\* Every damaged block whose free has begun is reported, or is about to be.
OverflowInv ==
  IsFiniteSet(Pending) /\ counts.overflows + Cardinality(Pending) = truth.overflows

\* A free of something that is not a block finds nothing it remembers.
LEMMA NoDoubleFree ==
  ASSUME HeapInv, FaultFacts, NEW t \in Threads, CountDoubleFree(t)
  PROVE  FALSE
<1>1. PICK p : p = ptr[t]
  OBVIOUS
<1>2. Raw(p) /\ p \in m_freedRecently /\ p[2] \in Nat
  BY <1>1 DEF CountDoubleFree, HeapInv, HeapTypes, PointerOK, Pointers
<1> QED
  BY <1>2 DEF Raw, FaultFacts, NoChunk

Reports(t) == ReportSmashed(t) \/ InspectRedzones(t)

Drains ==
  FlushQuarantine \/ EndRecording \/ \E t \in Threads : HoldBack(t) \/ Settle(t)

\* Which steps count a fault.
LEMMA CountsFrame ==
  ASSUME HeapInv, FaultFacts, CountInv, [Next]_vars
  PROVE  /\ counts'.doubleFrees = counts.doubleFrees
         /\ (\A t \in Threads : ~Reports(t)) => counts'.overflows = counts.overflows
         /\ ~Drains => counts'.useAfterFrees = counts.useAfterFrees
<1> DEFINE Same == /\ counts'.doubleFrees = counts.doubleFrees
                   /\ (\A t \in Threads : ~Reports(t)) => counts'.overflows = counts.overflows
                   /\ ~Drains => counts'.useAfterFrees = counts.useAfterFrees
<1>1. counts \in Counters /\ m_quarantine \in Seq(Slots)
  BY DEF CountInv, HeapInv, HeapTypes
<1>2. ASSUME NEW t \in Threads, Link(t) PROVE Same
  BY <1>1, <1>2 DEF Link, Counters
<1>3. ASSUME NEW t \in Threads, Unlink(t) PROVE Same
  BY <1>1, <1>3 DEF Unlink, Counters
<1>4. ASSUME NEW t \in Threads, Reports(t) PROVE Same
  <2>1. counts' = counts \/ counts' = [counts EXCEPT !.overflows = @ + 1]
    BY <1>4 DEF Reports, ReportSmashed, InspectRedzones
  <2> QED
    BY <1>1, <1>4, <2>1 DEF Counters
<1>5. ASSUME ScopeReset PROVE Same
  BY <1>1, <1>5 DEF ScopeReset, Reset, Counters
<1>6. ASSUME Drains PROVE Same
  <2>1. (\E n : counts' = [counts EXCEPT !.useAfterFrees = n]) \/ counts' = counts
    BY <1>6 DEF Drains, HoldBack, Drain, FlushQuarantine, EndRecording, Settle, UninstallIfIdle,
                BeginUninstall, KeepInstalled
  <2> QED
    BY <1>1, <1>6, <2>1 DEF Counters
<1>7. ASSUME NEW t \in Threads, CountDoubleFree(t) PROVE Same
  BY <1>7, NoDoubleFree
<1>8. ASSUME UNCHANGED counts PROVE Same
  BY <1>8
<1>9. Same
  <2> HIDE DEF Same
  <2> QED
    BY <1>2, <1>3, <1>4, <1>5, <1>6, <1>7, <1>8
       DEF Next, Continue, ContinueScope, blockVars, vars, Reports, Drains,
           RawAllocate, AllocateFails, HookAllocate, RawFree, Lookup, PassThrough, ReleaseNow,
           FinishUninstall, LoadAllocate, LoadDeallocate, Reallocate, DoubleFree, ToggleBypass,
           FinishInstall, ScopeBaseline, ReadCounts, Sample, BeginRecording, ProgramWrites
<1> QED
  BY <1>9

\* And which make a mistake.
LEMMA TruthFrame ==
  ASSUME Discipline, truth \in Mistakes, [Next]_vars
  PROVE  /\ truth' \in Mistakes /\ truth'.doubleFrees = truth.doubleFrees
         /\ (\A t \in Threads : ~LoadDeallocate(t)) => truth'.overflows = truth.overflows
         /\ ~ProgramWrites => truth'.useAfterFrees = truth.useAfterFrees
<1> DEFINE Same == /\ truth' \in Mistakes /\ truth'.doubleFrees = truth.doubleFrees
                   /\ (\A t \in Threads : ~LoadDeallocate(t)) => truth'.overflows = truth.overflows
                   /\ ~ProgramWrites => truth'.useAfterFrees = truth.useAfterFrees
<1>1. ASSUME NEW t \in Threads, LoadDeallocate(t) PROVE Same
  <2>1. truth' = truth \/ truth' = [truth EXCEPT !.overflows = @ + 1]
    BY <1>1 DEF LoadDeallocate, Mistakes
  <2> QED
    BY <1>1, <2>1 DEF Mistakes
<1>2. ASSUME ProgramWrites PROVE Same
  <2>1. truth' = truth \/ truth' = [truth EXCEPT !.useAfterFrees = @ + 1]
    BY <1>2 DEF ProgramWrites, Overrun, Smash, DanglingWrite
  <2> QED
    BY <1>2, <2>1 DEF Mistakes
<1>3. ASSUME NEW t \in Threads, DoubleFree(t) PROVE Same
  BY <1>3 DEF DoubleFree, Discipline
<1>4. ASSUME UNCHANGED truth PROVE Same
  BY <1>4
<1>5. Same
  <2> HIDE DEF Same
  <2> QED
    BY <1>1, <1>2, <1>3, <1>4
       DEF Next, Continue, ContinueScope, heapVars, vars,
           RawAllocate, AllocateFails, HookAllocate, Link, RawFree, Lookup, CountDoubleFree,
           PassThrough, ReportSmashed, InspectRedzones, Unlink, HoldBack, ReleaseNow, Settle,
           FinishUninstall, LoadAllocate, Reallocate, ToggleBypass,
           FinishInstall, ScopeBaseline, ScopeReset, ReadCounts, Sample, BeginRecording,
           EndRecording, FlushQuarantine
<1> QED
  BY <1>5

\* A thread that stays where it is neither begins a free nor inspects.
LEMMA StaysPut ==
  ASSUME pc \in [Threads -> Labels], NEW u \in Threads, pc'[u] = pc[u]
  PROVE  ~LoadDeallocate(u) /\ ~Inspects(u)
BY DEF LoadDeallocate, MayStart, Dispatch, Inspects, Lookup, ReportSmashed, InspectRedzones, Goto

\* A free of a damaged block begins.
LEMMA OverflowBegins ==
  ASSUME Discipline, HookInv, HeapInv, CountInv, MistakeInv, OverflowInv,
         NEW t \in Threads, LoadDeallocate(t), [Next]_vars
  PROVE  OverflowInv'
<1>1. PICK p \in owned :
        /\ MayFree(t, p) /\ Dispatch(t, p)
        /\ truth' = [truth EXCEPT !.overflows =
             IF Tracked(p) /\ (header[p[1]].magic # "live" \/ ~header[p[1]].guard)
             THEN @ + 1 ELSE @]
  BY DEF LoadDeallocate
<1>2. /\ pc[t] = "idle" /\ pc \in [Threads -> Labels] /\ ptr \in [Threads -> Pointers]
      /\ UNCHANGED <<header, m_config, m_list, m_live, counts>>
  BY DEF LoadDeallocate, MayStart, modeVars, blockVars, HookInv, HookTypeOK, HeapInv, HeapTypes
<1>3. /\ ptr'[t] = p /\ \A u \in Threads \ {t} : pc'[u] = pc[u]
      /\ pc'[t] = IF bypass[t] \/ deallocateSlot = "system" THEN "rawFree" ELSE "lookup"
  BY <1>1, <1>2 DEF Dispatch, Goto
<1>4. \A u \in Threads \ {t} : u \in Pending' <=> u \in Pending
  BY <1>2, <1>3, StaysPut, PendingKept
<1>5. t \notin Pending
  BY <1>2 DEF Pending, Waiting
<1>6. Tracked(p) <=> Block(p)
  BY LiveMeansBlock DEF HeapInv
<1>7. (Block(p)' <=> Block(p)) /\ (DamagedBlock(p[1])' <=> DamagedBlock(p[1]))
  BY <1>2 DEF Block, Payload, DamagedBlock
<1>8. Block(p) => pc'[t] = "lookup"
  <2>1. SUFFICES ASSUME Block(p) PROVE pc'[t] = "lookup"
    OBVIOUS
  <2>2. deallocateSlot = "hook" /\ ~bypass[t]
    BY <1>1, <1>6, <2>1, FreeReachesHook DEF MayFree, Discipline, AllAssumes
  <2> QED
    BY <1>3, <2>2
<1>9. t \in Pending' <=> Block(p) /\ DamagedBlock(p[1])
  BY <1>3, <1>7, <1>8 DEF Pending, Waiting
<1>10. /\ IsFiniteSet(Pending) /\ counts.overflows + Cardinality(Pending) = truth.overflows
       /\ counts.overflows \in Nat /\ Cardinality(Pending) \in Nat /\ truth \in Mistakes
  BY FS_CardinalityType DEF OverflowInv, CountInv, Counters, MistakeInv
<1>11. Pending \subseteq Threads /\ Pending' \subseteq Threads
  BY DEF Pending
<1>12. CASE Block(p) /\ DamagedBlock(p[1])
  <2>1. Pending' = Pending \union {t}
    BY <1>4, <1>9, <1>11, <1>12
  <2>2. truth'.overflows = truth.overflows + 1
    BY <1>1, <1>6, <1>10, <1>12 DEF DamagedBlock, Mistakes
  <2>3. IsFiniteSet(Pending') /\ Cardinality(Pending') = Cardinality(Pending) + 1
    BY <1>5, <1>10, <2>1, FS_AddElement
  <2> QED
    BY <1>2, <1>10, <2>2, <2>3 DEF OverflowInv
<1>13. CASE ~(Block(p) /\ DamagedBlock(p[1]))
  <2>1. Pending' = Pending
    BY <1>4, <1>5, <1>9, <1>11, <1>13
  <2>2. truth'.overflows = truth.overflows
    BY <1>1, <1>6, <1>10, <1>13 DEF DamagedBlock, Mistakes
  <2> QED
    BY <1>2, <1>10, <2>1, <2>2 DEF OverflowInv
<1> QED
  BY <1>12, <1>13

\* It is reported, once.
LEMMA OverflowReported ==
  ASSUME Discipline, HookInv, HeapInv, CountInv, FaultFacts, OverflowInv,
         NEW t \in Threads, Reports(t), [Next]_vars
  PROVE  OverflowInv'
<1>1. PICK p, s : p = ptr[t] /\ s = ptr[t][1]
  OBVIOUS
<1>2. /\ pc[t] = "inspect" /\ pc \in [Threads -> Labels] /\ truth' = truth
      /\ \E l \in {"idle", "unlink"} : pc' = [pc EXCEPT ![t] = l]
  BY DEF Reports, ReportSmashed, InspectRedzones, heapVars, Goto, HookInv, HookTypeOK
<1>3. Block(p) /\ headerOf(p) = header[s] /\ s \in Slots /\ header[s].redzone = m_config.redzone
  <2>1. Block(p) /\ s \in Slots
    BY <1>1, <1>2, SlotFacts DEF HeapInv, PointerOK, Holding
  <2>2. header[s].magic # "none"
    BY <1>1, <2>1 DEF Block, HeapInv, Layout
  <2> QED
    BY <1>1, <2>1, <2>2, LiveMeansBlock DEF HeapInv, Layout
<1>4. \A u \in Threads \ {t} : u \in Pending' <=> u \in Pending
  BY <1>2, StaysPut, PendingKept
<1>5. t \notin Pending' /\ (t \in Pending <=> header[s].magic # "live" \/ ~header[s].guard)
  BY <1>1, <1>2, <1>3 DEF Pending, Waiting, DamagedBlock
<1>6. /\ IsFiniteSet(Pending) /\ counts.overflows + Cardinality(Pending) = truth.overflows
      /\ counts.overflows \in Nat /\ Cardinality(Pending) \in Nat /\ counts \in Counters
  BY FS_CardinalityType DEF OverflowInv, CountInv, Counters
<1>7. Pending' = Pending \ {t}
  BY <1>4, <1>5 DEF Pending
<1>8. /\ IsFiniteSet(Pending')
      /\ Cardinality(Pending') = IF t \in Pending THEN Cardinality(Pending) - 1
                                 ELSE Cardinality(Pending)
  BY <1>6, <1>7, FS_RemoveElement
<1>9. counts'.overflows = IF t \in Pending THEN counts.overflows + 1 ELSE counts.overflows
  <2>1. CASE ReportSmashed(t)
    <3>1. counts' = [counts EXCEPT !.overflows = @ + 1] /\ header[s].magic # "live"
      BY <1>1, <1>3, <2>1 DEF ReportSmashed
    <3> QED
      BY <1>5, <1>6, <3>1 DEF Counters
  <2>2. CASE InspectRedzones(t)
    <3>1. ~header[s].guard => m_config.checkRedzone
      BY <1>3 DEF FaultFacts, Discipline, HeapInv, HeapTypes
    <3>2. /\ header[s].magic = "live"
          /\ counts' = IF m_config.checkRedzone /\ ~header[s].guard
                       THEN [counts EXCEPT !.overflows = @ + 1] ELSE counts
      BY <1>1, <1>3, <2>2 DEF InspectRedzones, Damaged
    <3> QED
      BY <1>5, <1>6, <3>1, <3>2 DEF Counters
  <2> QED
    BY <2>1, <2>2 DEF Reports
<1> QED
  BY <1>2, <1>6, <1>8, <1>9 DEF OverflowInv

\* Other steps leave the count and what is pending alone.
LEMMA OverflowNext ==
  ASSUME Discipline, HookInv, HeapInv, CountInv, MistakeInv, FaultFacts, OverflowInv, [Next]_vars
  PROVE  OverflowInv'
<1>1. CASE \E t \in Threads : LoadDeallocate(t)
  BY <1>1, OverflowBegins
<1>2. CASE \E t \in Threads : Reports(t)
  BY <1>2, OverflowReported
<1>3. CASE \A t \in Threads : ~LoadDeallocate(t) /\ ~Reports(t)
  <2>1. counts'.overflows = counts.overflows /\ truth'.overflows = truth.overflows
    BY <1>3, CountsFrame, TruthFrame DEF MistakeInv
  <2>2. ASSUME NEW u \in Threads PROVE u \in Pending' <=> u \in Pending
    <3>1. CASE Lookup(u)
      <4>1. PICK p : p = ptr[u]
        OBVIOUS
      <4>2. /\ pc[u] = "lookup" /\ ptr'[u] = p /\ pc \in [Threads -> Labels]
            /\ pc' = [pc EXCEPT ![u] = IF p \in m_live THEN "inspect" ELSE "notOurs"]
            /\ UNCHANGED <<header, m_config, m_list, m_live>>
        BY <3>1, <4>1 DEF Lookup, Goto, heapVars, modeVars, blockVars, HookInv, HookTypeOK
      <4>3. p \in m_live <=> Block(p)
        BY <4>1, <4>2, LiveMeansBlock DEF HeapInv, PointerOK
      <4>4. (Block(p)' <=> Block(p)) /\ (DamagedBlock(p[1])' <=> DamagedBlock(p[1]))
        BY <4>2 DEF Block, Payload, DamagedBlock
      <4> QED
        BY <4>1, <4>2, <4>3, <4>4 DEF Pending, Waiting
    <3>2. CASE ~Lookup(u)
      BY <1>3, <3>2, PendingKept DEF Inspects, Reports
    <3> QED
      BY <3>1, <3>2
  <2>3. Pending' = Pending
    BY <2>2 DEF Pending
  <2> QED
    BY <2>1, <2>3 DEF OverflowInv
<1> QED
  BY <1>1, <1>2, <1>3

\* Every dangling write is counted, or waits in quarantine to be noticed.
UseInv ==
  counts.useAfterFrees + Cardinality(Disturbed(m_quarantine, header)) = truth.useAfterFrees

\* A drain counts those that leave.
LEMMA DrainUse ==
  ASSUME NEW q \in Seq(Slots), IsInjective(q), NEW h, NEW d, Drain(q, h, d), counts \in Counters,
         q # <<>> => m_config.patternFill
  PROVE  counts'.useAfterFrees + Cardinality(Disturbed(m_quarantine', header'))
           = counts.useAfterFrees + Cardinality(Disturbed(q, h))
<1>1. PICK k, r, I, gone :
        /\ k = DrainCount(q, h, d) /\ r = SubSeq(q, k + 1, Len(q))
        /\ I = {i \in 1..k : ~h[q[i]].pattern} /\ gone = {q[i] : i \in 1..k}
  OBVIOUS
<1>2. /\ m_quarantine' = r
      /\ header' = [s \in Slots |-> IF s \in gone THEN NoHeader ELSE h[s]]
      /\ counts' = [counts EXCEPT !.useAfterFrees =
           IF m_config.patternFill THEN @ + Cardinality(I) ELSE @]
  BY <1>1 DEF Drain
<1>3. k \in 0..Len(q) /\ k \in Nat /\ k <= Len(q)
  <2>1. k \in 0..Len(q)
    BY <1>1, DrainUpTo
  <2> QED
    BY <2>1
<1>4. /\ IsFiniteSet(Disturbed(q, h)) /\ IsFiniteSet(Disturbed(r, h)) /\ Cardinality(I) \in Nat
      /\ Cardinality(Disturbed(q, h)) = Cardinality(Disturbed(r, h)) + Cardinality(I)
  BY <1>1, <1>3, DrainCounts
<1>5. Disturbed(r, header') = Disturbed(r, h)
  <2>1. gone = First(q, k)
    BY <1>1 DEF First
  <2>4. /\ Range(SubSeq(q, k + 1, Len(q))) = Range(q) \ First(q, k)
        /\ First(q, k) \subseteq Range(q) /\ Range(q) \subseteq Slots
    BY <1>3, QueueHalves
  <2>2. Range(r) = Range(q) \ gone /\ Range(q) \subseteq Slots
    BY <1>1, <2>1, <2>4
  <2>3. \A s \in Range(r) : header'[s] = h[s]
    BY <1>2, <2>2
  <2> QED
    BY <2>3 DEF Disturbed
<1>6. ~m_config.patternFill => Cardinality(I) = 0
  <2>1. SUFFICES ASSUME q = <<>> PROVE Cardinality(I) = 0
    OBVIOUS
  <2>2. I = {}
    BY <1>1, <1>3, <2>1
  <2> QED
    BY <2>2, FS_EmptySet
<1>7. /\ counts.useAfterFrees \in Nat
      /\ counts'.useAfterFrees = counts.useAfterFrees + Cardinality(I)
  BY <1>2, <1>4, <1>6 DEF Counters
<1>8. Cardinality(Disturbed(r, h)) \in Nat
  BY <1>4, FS_CardinalityType
<1> QED
  BY <1>2, <1>4, <1>5, <1>7, <1>8

\* The count follows the writes.
LEMMA UseNext ==
  ASSUME Discipline, HookInv, HeapInv, CountInv, MistakeInv, FaultFacts, UseInv, [Next]_vars
  PROVE  UseInv'
<1>1. /\ counts \in Counters /\ truth \in Mistakes /\ header \in [Slots -> Header]
      /\ m_quarantine \in Seq(Slots) /\ IsInjective(m_quarantine)
      /\ m_quarantine # <<>> => m_config.patternFill
  BY DEF CountInv, MistakeInv, FaultFacts, HeapInv, HeapTypes, Held
<1>2. ASSUME NEW t \in Threads, HoldBack(t) PROVE UseInv'
  <2>1. PICK s, q, h : /\ s = ptr[t][1] /\ q = Append(m_quarantine, s)
                       /\ h = [header EXCEPT ![s].magic = "freed", ![s].pattern = TRUE]
    OBVIOUS
  <2>2. /\ pc[t] = "release" /\ Drain(q, h, m_config.quarantineBytes)
        /\ m_config.patternFill /\ truth' = truth
    BY <1>2, <2>1 DEF HoldBack, Quarantining
  <2>3. s \in Slots /\ s \notin Range(m_quarantine)
    BY <2>1, <2>2, SlotFacts, HeldFacts DEF Holding
  <2>4. q \in Seq(Slots) /\ IsInjective(q) /\ Range(q) = Range(m_quarantine) \union {s}
    BY <1>1, <2>1, <2>3, QueueLonger
  <2>5. h[s].pattern /\ \A r \in Range(m_quarantine) : h[r] = header[r]
    <3>1. Range(m_quarantine) \subseteq Slots /\ header[s] \in Header
      BY <1>1, <2>3 DEF Range
    <3> QED
      BY <1>1, <2>1, <2>3, <3>1 DEF Header
  <2>6. Disturbed(q, h) = Disturbed(m_quarantine, header)
    BY <2>3, <2>4, <2>5 DEF Disturbed
  <2>7. counts'.useAfterFrees + Cardinality(Disturbed(m_quarantine', header'))
           = counts.useAfterFrees + Cardinality(Disturbed(q, h))
    BY <1>1, <2>2, <2>4, DrainUse
  <2> QED
    BY <2>2, <2>6, <2>7 DEF UseInv
<1>3. ASSUME FlushQuarantine \/ EndRecording \/ \E t \in Threads : Settle(t) PROVE UseInv'
  <2>1. truth' = truth
    BY <1>3 DEF FlushQuarantine, EndRecording, Settle
  <2>2. Drain(m_quarantine, header, 0) \/ UNCHANGED <<m_quarantine, header, counts>>
    BY <1>3 DEF FlushQuarantine, EndRecording, Settle, UninstallIfIdle, BeginUninstall,
                KeepInstalled
  <2>3. CASE Drain(m_quarantine, header, 0)
    <3>1. counts'.useAfterFrees + Cardinality(Disturbed(m_quarantine', header'))
             = counts.useAfterFrees + Cardinality(Disturbed(m_quarantine, header))
      BY <1>1, <2>3, DrainUse
    <3> QED
      BY <2>1, <3>1 DEF UseInv
  <2>4. CASE UNCHANGED <<m_quarantine, header, counts>>
    BY <2>1, <2>4 DEF UseInv
  <2> QED
    BY <2>2, <2>3, <2>4
<1>4. ASSUME ProgramWrites PROVE UseInv'
  <2>1. m_quarantine' = m_quarantine /\ counts' = counts
    BY <1>4 DEF ProgramWrites, blockVars
  <2>2. Range(m_quarantine) \subseteq Slots /\ \A s \in Slots : header[s] \in Header
    BY <1>1 DEF Range
  <2>3. CASE \E p \in owned : Overrun(p) \/ Smash(p)
    <3>1. PICK r : \/ header' = [header EXCEPT ![r].guard = FALSE]
                   \/ header' = [header EXCEPT ![r].magic = "smashed"]
      BY <2>3 DEF Overrun, Smash
    <3>2. ASSUME NEW s \in Slots PROVE header'[s].pattern = header[s].pattern
      <4>1. header[s] \in Header
        BY <2>2
      <4>2. \/ header'[s] = header[s] \/ header'[s] = [header[s] EXCEPT !.guard = FALSE]
            \/ header'[s] = [header[s] EXCEPT !.magic = "smashed"]
        BY <1>1, <3>1
      <4> QED
        BY <4>1, <4>2 DEF Header
    <3>3. Disturbed(m_quarantine, header') = Disturbed(m_quarantine, header)
      BY <2>2, <3>2 DEF Disturbed
    <3>4. truth' = truth
      BY <2>3 DEF Overrun, Smash
    <3> QED
      BY <2>1, <3>3, <3>4 DEF UseInv
  <2>4. CASE \E i \in DOMAIN m_quarantine : DanglingWrite(m_quarantine[i])
    <3>1. PICK s \in Range(m_quarantine) : DanglingWrite(s)
      BY <2>4 DEF Range
    <3>2. /\ header[s].pattern /\ header' = [header EXCEPT ![s].pattern = FALSE]
          /\ truth' = [truth EXCEPT !.useAfterFrees = @ + 1]
      BY <3>1 DEF DanglingWrite
    <3>3. ~header'[s].pattern /\ \A r \in Slots \ {s} : header'[r] = header[r]
      BY <1>1, <2>2, <3>2 DEF Header
    <3>4. /\ Disturbed(m_quarantine, header') = Disturbed(m_quarantine, header) \union {s}
          /\ s \notin Disturbed(m_quarantine, header)
      BY <2>2, <3>2, <3>3 DEF Disturbed
    <3>5. IsFiniteSet(Disturbed(m_quarantine, header))
      <4>1. 0 \in 0..Len(m_quarantine)
        BY <1>1
      <4> QED
        BY <1>1, <4>1, DrainCounts
    <3>6. /\ Cardinality(Disturbed(m_quarantine, header'))
               = Cardinality(Disturbed(m_quarantine, header)) + 1
          /\ Cardinality(Disturbed(m_quarantine, header)) \in Nat
      BY <3>4, <3>5, FS_AddElement, FS_CardinalityType
    <3>7. /\ counts.useAfterFrees \in Nat
          /\ truth'.useAfterFrees = truth.useAfterFrees + 1
      BY <1>1, <3>2 DEF Counters, Mistakes
    <3> QED
      BY <2>1, <3>6, <3>7 DEF UseInv
  <2> QED
    BY <1>4, <2>3, <2>4 DEF ProgramWrites
<1>5. CASE ~Drains /\ ~ProgramWrites
  <2>1. /\ m_quarantine' = m_quarantine
        /\ \A s \in Range(m_quarantine) : header'[s] = header[s]
    BY <1>5, QueueKept DEF Drains
  <2>2. counts'.useAfterFrees = counts.useAfterFrees /\ truth'.useAfterFrees = truth.useAfterFrees
    BY <1>1, <1>5, CountsFrame, TruthFrame
  <2>3. Disturbed(m_quarantine', header') = Disturbed(m_quarantine, header)
    BY <2>1 DEF Disturbed
  <2> QED
    BY <2>2, <2>3 DEF UseInv
<1> QED
  BY <1>2, <1>3, <1>4, <1>5 DEF Drains

\* What the fault counters rest on.
FaultInv ==
  /\ HookInv /\ HeapInv /\ CountInv /\ m_sequence \in Nat
  /\ FaultFacts /\ MistakeInv /\ OverflowInv /\ UseInv

\* It holds before the program starts.
LEMMA FaultInvInit == Init => FaultInv
<1> SUFFICES ASSUME Init PROVE FaultInv
  OBVIOUS
<1>1. /\ m_list = {} /\ m_quarantine = <<>> /\ m_freedRecently = {}
      /\ counts = [allocations |-> 0, frees |-> 0, doubleFrees |-> 0,
            overflows |-> 0, useAfterFrees |-> 0,
            liveBytes |-> 0, peakBytes |-> 0, largestBlock |-> 0]
      /\ truth = [doubleFrees |-> 0, overflows |-> 0, useAfterFrees |-> 0]
      /\ pc = [t \in Threads |-> "idle"]
      /\ heap = [s \in Slots |-> NoChunk] /\ header = [s \in Slots |-> NoHeader]
  BY DEF Init
<1>2. HookInv /\ HeapInv /\ m_sequence \in Nat
  BY HookInvInit, HeapInvInit
<1>3. CountInv
  BY CountInvInit
<1>4. FaultFacts
  BY <1>1 DEF FaultFacts, NoHeader
<1>5. MistakeInv
  BY <1>1 DEF MistakeInv, Mistakes
<1>6. Pending = {} /\ Disturbed(m_quarantine, header) = {}
  BY <1>1 DEF Pending, Waiting, Disturbed, Range
<1>7. IsFiniteSet({}) /\ Cardinality({}) = 0 /\ 0 + 0 = 0
  BY FS_EmptySet
<1>8. OverflowInv
  BY <1>1, <1>6, <1>7 DEF OverflowInv
<1>9. UseInv
  BY <1>1, <1>6, <1>7 DEF UseInv
<1> QED
  BY <1>2, <1>3, <1>4, <1>5, <1>8, <1>9 DEF FaultInv

\* And every step keeps it.
LEMMA FaultInvNext ==
  ASSUME Discipline, OffsetsApart, FaultInv, [Next]_vars
  PROVE  FaultInv'
<1>1. /\ HookInv /\ HeapInv /\ CountInv /\ m_sequence \in Nat
      /\ FaultFacts /\ MistakeInv /\ OverflowInv /\ UseInv
  BY DEF FaultInv
<1>2. HookInv' /\ HeapInv' /\ m_sequence' \in Nat
  BY <1>1, HookInvNext, HeapInvNext, SequenceNext DEF Discipline, AllAssumes
<1>3. CountInv' /\ FaultFacts' /\ OverflowInv' /\ UseInv'
  BY <1>1, <1>2, CountInvNext, FaultFactsNext, OverflowNext, UseNext
<1>4. MistakeInv'
  BY <1>1, CountsFrame, TruthFrame DEF MistakeInv
<1> QED
  BY <1>2, <1>3, <1>4 DEF FaultInv

\* Under the discipline, and when the system places no chunk where a payload may
\* be, every mistake of the program is counted once and nothing else is:
\* FaultsCounted for any number of threads, blocks and mistakes.
THEOREM FaultsAreCounted ==
  ASSUME Discipline, OffsetsApart
  PROVE  Spec => []FaultsCounted
<1>1. FaultInv => FaultsCounted
  <2> SUFFICES ASSUME CountInv, MistakeInv, OverflowInv, UseInv, AllIdle PROVE FaultsCounted
    BY DEF FaultsCounted, FaultInv
  <2>1. Pending = {}
    BY DEF AllIdle, Pending, Waiting
  <2>2. counts.overflows = truth.overflows
    BY <2>1, FS_EmptySet DEF OverflowInv, CountInv, Counters
  <2>3. counts.useAfterFrees + Cardinality({s \in Range(m_quarantine) : ~header[s].pattern})
          = truth.useAfterFrees
    BY DEF UseInv, Disturbed
  <2> QED
    BY <2>2, <2>3 DEF FaultsCounted, MistakeInv
<1>2. FaultInv /\ [Next]_vars => FaultInv'
  BY FaultInvNext
<1> QED
  BY FaultInvInit, <1>1, <1>2, PTL DEF Spec
-----------------------------------------------------------------------------
(* The high-water mark. *)

Opened == [sequence : Nat, allocations : Nat, frees : Nat, doubleFrees : Nat,
           overflows : Nat, useAfterFrees : Nat, peakBase : Nat, opening : Mistakes]

Opening == {"install", "baseline", "reset"}

\* Where only Main may be.
ScopeLabels == Opening \union {"counts", "sample"}

\* One Scope at a time: its base is taken where the mark is reset, and the mark
\* only rises after that.
PeakInv ==
  /\ truth \in Mistakes /\ scopes \in Seq(Opened) /\ Len(scopes) <= 1
  /\ pc[Main] \in {"install", "baseline"} => Len(scopes) = 0
  /\ pc[Main] = "reset" => Len(scopes) = 1
  /\ pc[Main] # "reset" => \A i \in DOMAIN scopes : counts.peakBytes >= scopes[i].peakBase

\* Only a Scope's reset lowers the mark.
LEMMA PeakRises ==
  ASSUME HeapInv, CountInv, CountInv', [Next]_vars, ~ScopeReset
  PROVE  counts'.peakBytes >= counts.peakBytes
<1>1. counts \in Counters /\ counts.peakBytes \in Nat
  BY DEF CountInv, Counters
<1>2. ASSUME NEW t \in Threads, Link(t) PROVE counts'.peakBytes >= counts.peakBytes
  <2>1. PICK b : counts'.peakBytes = IF b > counts.peakBytes THEN b ELSE counts.peakBytes
    BY <1>1, <1>2 DEF Link, Counters
  <2>2. counts'.peakBytes \in Nat
    BY DEF CountInv, Counters
  <2> QED
    BY <1>1, <2>1, <2>2
<1>3. ASSUME NEW t \in Threads, Unlink(t) \/ CountDoubleFree(t) \/ Reports(t)
      PROVE  counts'.peakBytes = counts.peakBytes
  BY <1>1, <1>3 DEF Unlink, CountDoubleFree, Reports, ReportSmashed, InspectRedzones, Counters
<1>4. ASSUME Drains PROVE counts'.peakBytes = counts.peakBytes
  <2>1. (\E n : counts' = [counts EXCEPT !.useAfterFrees = n]) \/ counts' = counts
    BY <1>4 DEF Drains, HoldBack, Drain, FlushQuarantine, EndRecording, Settle, UninstallIfIdle,
                BeginUninstall, KeepInstalled
  <2> QED
    BY <1>1, <2>1 DEF Counters
<1>5. counts'.peakBytes = counts.peakBytes => counts'.peakBytes >= counts.peakBytes
  BY <1>1
<1>6. CASE UNCHANGED counts
  BY <1>5, <1>6
<1> QED
  BY <1>2, <1>3, <1>4, <1>5, <1>6
     DEF Next, Continue, ContinueScope, blockVars, vars, Reports, Drains,
         RawAllocate, AllocateFails, HookAllocate, RawFree, Lookup, PassThrough, ReleaseNow,
         FinishUninstall, LoadAllocate, LoadDeallocate, Reallocate, DoubleFree, ToggleBypass,
         FinishInstall, ScopeBaseline, ReadCounts, Sample, BeginRecording, ProgramWrites

\* Main opens a Scope, and reports on it, in its own steps only.
LEMMA MainSteps ==
  ASSUME pc \in [Threads -> Labels], [Next]_vars,
         ~BeginRecording, ~FinishInstall, ~ScopeBaseline, ~ScopeReset,
         ~FlushQuarantine, ~ReadCounts, ~Sample
  PROVE  pc'[Main] = pc[Main] \/ (pc[Main] \notin ScopeLabels /\ pc'[Main] \notin ScopeLabels)
<1> DEFINE Same == \/ pc'[Main] = pc[Main]
                   \/ pc[Main] \notin ScopeLabels /\ pc'[Main] \notin ScopeLabels
<1>1. ASSUME NEW t \in Threads, NEW l \in Labels \ ScopeLabels, pc[t] \notin ScopeLabels,
             pc' = [pc EXCEPT ![t] = l]
      PROVE  Same
  BY <1>1
<1>2. {"idle", "rawAllocate", "allocate", "link", "rawFree", "lookup", "unlink", "notOurs",
       "inspect", "release", "settle", "uninstall"} \subseteq Labels \ ScopeLabels
  BY DEF Labels, ScopeLabels, Opening
<1>3. ASSUME NEW t \in Threads, RawAllocate(t) \/ AllocateFails(t) \/ HookAllocate(t) \/ Link(t)
                                \/ RawFree(t) \/ CountDoubleFree(t) \/ PassThrough(t)
                                \/ ReportSmashed(t) \/ InspectRedzones(t) \/ Unlink(t)
                                \/ HoldBack(t) \/ ReleaseNow(t) \/ Settle(t) \/ DoubleFree(t)
                                \/ FinishUninstall(t) \/ LoadAllocate(t) \/ LoadDeallocate(t)
      PROVE  Same
  <2>1. PICK l \in {"idle", "rawAllocate", "allocate", "link", "rawFree", "lookup", "unlink",
                    "notOurs", "release", "settle", "uninstall"} : pc' = [pc EXCEPT ![t] = l]
    BY <1>3 DEF RawAllocate, AllocateFails, HookAllocate, Link, RawFree, CountDoubleFree,
                PassThrough, ReportSmashed, InspectRedzones, Unlink, HoldBack, ReleaseNow, Settle,
                UninstallIfIdle, BeginUninstall, KeepInstalled, FinishUninstall, LoadAllocate,
                DoubleFree, LoadDeallocate, Dispatch, Goto
  <2>2. pc[t] \notin ScopeLabels
    BY <1>3 DEF RawAllocate, AllocateFails, HookAllocate, Link, RawFree, CountDoubleFree,
                PassThrough, ReportSmashed, InspectRedzones, Unlink, HoldBack, ReleaseNow, Settle,
                FinishUninstall, LoadAllocate, DoubleFree, LoadDeallocate, MayStart, ScopeLabels, Opening
  <2> QED
    BY <1>1, <1>2, <2>1, <2>2
<1>4. ASSUME NEW t \in Threads, Lookup(t) PROVE Same
  <2>1. PICK l : l \in {"inspect", "notOurs"} /\ pc' = [pc EXCEPT ![t] = l]
    BY <1>4 DEF Lookup, Goto
  <2>2. l \in Labels \ ScopeLabels
    BY <1>2, <2>1
  <2>3. pc[t] \notin ScopeLabels
    BY <1>4 DEF Lookup, ScopeLabels, Opening
  <2> QED
    BY <1>1, <2>1, <2>2, <2>3
<1>5. ASSUME EndRecording PROVE Same
  <2>1. PICK l \in {"idle", "uninstall"} : pc' = [pc EXCEPT ![Main] = l]
    BY <1>5 DEF EndRecording, UninstallIfIdle, BeginUninstall, KeepInstalled, Goto
  <2>2. pc[Main] \notin ScopeLabels
    BY <1>5 DEF EndRecording, ScopeLabels, Opening
  <2> QED
    BY <1>1, <1>2, <2>1, <2>2, ThreadsAssumption
<1>6. ASSUME UNCHANGED pc PROVE Same
  BY <1>6
<1>7. Same
  <2> HIDE DEF Same
  <2>1. ASSUME NEW t \in Threads, Reallocate(t) \/ ToggleBypass(t) PROVE Same
    BY <1>6, <2>1 DEF Reallocate, ToggleBypass
  <2>2. ASSUME ProgramWrites \/ UNCHANGED vars PROVE Same
    BY <1>6, <2>2 DEF ProgramWrites, vars
  <2> QED
    BY <1>3, <1>4, <1>5, <2>1, <2>2 DEF Next, Continue, ContinueScope
<1> QED
  BY <1>7

\* It opens one in its first four.
LEMMA OpeningSteps ==
  ASSUME pc \in [Threads -> Labels], [Next]_vars,
         ~BeginRecording, ~FinishInstall, ~ScopeBaseline, ~ScopeReset
  PROVE  pc'[Main] = pc[Main] \/ (pc[Main] \notin Opening /\ pc'[Main] \notin Opening)
<1>1. CASE FlushQuarantine \/ ReadCounts \/ Sample
  BY <1>1, ThreadsAssumption DEF FlushQuarantine, ReadCounts, Sample, Goto, Opening
<1>2. CASE ~FlushQuarantine /\ ~ReadCounts /\ ~Sample
  BY <1>2, MainSteps DEF Opening, ScopeLabels
<1> QED
  BY <1>1, <1>2

\* A queue of one.
LEMMA OneOnly ==
  ASSUME NEW S, NEW q \in Seq(S), Len(q) = 1
  PROVE  /\ DOMAIN q = {1} /\ q[1] \in S
         /\ \A o \in S : LET r == [q EXCEPT ![1] = o]
                         IN r \in Seq(S) /\ Len(r) = 1 /\ r[1] = o
<1>1. DOMAIN q = {1} /\ q[1] \in S
  BY DOMAIN q = 1..1, 1 \in 1..1
<1>2. ASSUME NEW o \in S, NEW r, r = [q EXCEPT ![1] = o]
      PROVE  r \in Seq(S) /\ Len(r) = 1 /\ r[1] = o
  <2>1. \A f : r = [f EXCEPT ![1] = o] /\ f = [i \in DOMAIN f |-> f[i]] /\ DOMAIN f = {1}
                => r = [i \in {1} |-> o]
    OBVIOUS
  <2>2. q = [i \in DOMAIN q |-> q[i]]
    OBVIOUS
  <2>3. r = [i \in {1} |-> o]
    BY <1>1, <1>2, <2>1, <2>2
  <2>4. {1} = 1..1
    OBVIOUS
  <2>5. r = [i \in 1..1 |-> o]
    BY <2>3, <2>4
  <2> QED
    BY <2>5
<1> QED
  BY <1>1, <1>2

\* The open Scopes change in three steps.
LEMMA ScopesFrame ==
  ASSUME [Next]_vars, ~ScopeBaseline, ~ScopeReset, ~EndRecording
  PROVE  scopes' = scopes
BY DEF Next, Continue, ContinueScope, scopeVars, vars,
       RawAllocate, AllocateFails, HookAllocate, Link, RawFree, Lookup, CountDoubleFree,
       PassThrough, ReportSmashed, InspectRedzones, Unlink, HoldBack, ReleaseNow, Settle,
       FinishUninstall, LoadAllocate, LoadDeallocate, Reallocate, DoubleFree, ToggleBypass,
       FinishInstall, ReadCounts, Sample, BeginRecording, FlushQuarantine, ProgramWrites

\* A Scope opens: no other is open until its mark is taken.
LEMMA PeakOpens ==
  ASSUME MaxDepth <= 1, pc \in [Threads -> Labels], CountInv, m_sequence \in Nat, PeakInv,
         truth' \in Mistakes, BeginRecording \/ FinishInstall \/ ScopeBaseline
  PROVE  PeakInv'
<1>1. CASE BeginRecording \/ FinishInstall
  <2>1. scopes' = scopes /\ counts' = counts
    BY <1>1 DEF BeginRecording, FinishInstall, blockVars, scopeVars
  <2>2. Len(scopes) \in Nat /\ scopes \in Seq(Opened)
    BY DEF PeakInv
  <2>3. Len(scopes) = 0
    BY <1>1, <2>2, ProgramAssumption DEF BeginRecording, FinishInstall, PeakInv
  <2>4. DOMAIN scopes = {}
    BY <2>2, <2>3
  <2>5. pc'[Main] \in {"install", "baseline"}
    BY <1>1, ThreadsAssumption DEF BeginRecording, FinishInstall, Goto
  <2> QED
    BY <2>1, <2>2, <2>3, <2>4, <2>5 DEF PeakInv
<1>2. CASE ScopeBaseline
  <2>1. scopes \in Seq(Opened) /\ Len(scopes) = 0
    BY <1>2 DEF ScopeBaseline, PeakInv
  <2>2. truth \in Mistakes /\ counts \in Counters
    BY DEF PeakInv, CountInv
  <2>3. PICK o : o = [sequence |-> m_sequence, allocations |-> counts.allocations,
                      frees |-> counts.frees, doubleFrees |-> counts.doubleFrees,
                      overflows |-> counts.overflows, useAfterFrees |-> counts.useAfterFrees,
                      peakBase |-> 0, opening |-> truth]
    OBVIOUS
  <2>4. o \in Opened
    BY <2>2, <2>3 DEF Opened, Counters
  <2>5. scopes' = Append(scopes, o) /\ pc' = [pc EXCEPT ![Main] = "reset"]
    BY <1>2, <2>3 DEF ScopeBaseline, Goto
  <2>6. scopes' \in Seq(Opened) /\ Len(scopes') = 1
    BY <2>1, <2>4, <2>5
  <2>7. pc'[Main] = "reset"
    BY <2>5, ThreadsAssumption
  <2> QED
    BY <2>6, <2>7 DEF PeakInv
<1> QED
  BY <1>1, <1>2

\* The mark and the base are set together.
LEMMA PeakResets ==
  ASSUME pc \in [Threads -> Labels], CountInv, PeakInv, truth' \in Mistakes, ScopeReset
  PROVE  PeakInv'
<1>1. scopes \in Seq(Opened) /\ Len(scopes) = 1 /\ counts \in Counters
  BY DEF ScopeReset, PeakInv, CountInv
<1>2. PICK n : n = counts.liveBytes
  OBVIOUS
<1>3. n \in Nat
  BY <1>1, <1>2 DEF Counters
<1>4. counts'.peakBytes = n
  BY <1>1, <1>2 DEF ScopeReset, Reset, Counters
<1>5. scopes' = [scopes EXCEPT ![1].peakBase = n]
  BY <1>1, <1>2 DEF ScopeReset
<1>6. scopes[1] \in Opened /\ DOMAIN scopes = {1}
  BY <1>1, OneOnly
<1>7. PICK o : o = [scopes[1] EXCEPT !.peakBase = n]
  OBVIOUS
<1>8. o \in Opened /\ o.peakBase = n
  BY <1>3, <1>6, <1>7 DEF Opened
<1>9. scopes' = [scopes EXCEPT ![1] = o]
  BY <1>5, <1>7
<1>10. scopes' \in Seq(Opened) /\ Len(scopes') = 1 /\ scopes'[1] = o
  BY <1>1, <1>8, <1>9, OneOnly
<1>11. pc'[Main] = "idle"
  BY ThreadsAssumption DEF ScopeReset, Goto
<1>12. \A i \in DOMAIN scopes' : counts'.peakBytes >= scopes'[i].peakBase
  <2>1. DOMAIN scopes' = {1}
    BY <1>10, OneOnly
  <2> QED
    BY <1>3, <1>4, <1>8, <1>10, <2>1
<1> QED
  BY <1>10, <1>11, <1>12 DEF PeakInv

\* The Scope closes.
LEMMA PeakCloses ==
  ASSUME pc \in [Threads -> Labels], PeakInv, truth' \in Mistakes, EndRecording
  PROVE  PeakInv'
<1>1. scopes \in Seq(Opened) /\ Len(scopes) = 1 /\ scopes' = SubSeq(scopes, 1, Len(scopes) - 1)
  <2>1. scopes \in Seq(Opened) /\ scopes # <<>> /\ Len(scopes) <= 1
    BY DEF EndRecording, PeakInv
  <2>2. \A S : \A q \in Seq(S) : q # <<>> => Len(q) \in Nat /\ Len(q) # 0
    OBVIOUS
  <2>3. Len(scopes) \in Nat /\ Len(scopes) # 0
    BY <2>1, <2>2
  <2>4. \A n \in Nat : n # 0 /\ n <= 1 => n = 1
    OBVIOUS
  <2>5. Len(scopes) = 1
    BY <2>1, <2>3, <2>4
  <2> QED
    BY <2>1, <2>5 DEF EndRecording
<1>2. scopes' = <<>>
  BY <1>1
<1>3. scopes' \in Seq(Opened) /\ Len(scopes') = 0 /\ DOMAIN scopes' = {}
  BY <1>2
<1>4. pc'[Main] \in {"idle", "uninstall"}
  BY ThreadsAssumption
     DEF EndRecording, UninstallIfIdle, BeginUninstall, KeepInstalled, Goto
<1> QED
  BY <1>3, <1>4 DEF PeakInv

\* No Scope is open at first.
LEMMA PeakInvInit == Init => PeakInv
<1> SUFFICES ASSUME Init PROVE PeakInv
  OBVIOUS
<1>1. /\ truth = [doubleFrees |-> 0, overflows |-> 0, useAfterFrees |-> 0]
      /\ scopes = <<>> /\ pc[Main] = "idle"
  BY ThreadsAssumption DEF Init
<1> QED
  BY <1>1 DEF PeakInv, Mistakes

\* Only Main's own steps touch the base, and only its reset lowers the mark.
LEMMA PeakInvNext ==
  ASSUME Discipline, MaxDepth <= 1, HookInv, HeapInv, CountInv, CountInv', m_sequence \in Nat,
         PeakInv, [Next]_vars
  PROVE  PeakInv'
<1>1. truth' \in Mistakes /\ pc \in [Threads -> Labels]
  BY TruthFrame DEF PeakInv, HookInv, HookTypeOK
<1>2. CASE BeginRecording \/ FinishInstall \/ ScopeBaseline
  BY <1>1, <1>2, PeakOpens
<1>3. CASE ScopeReset
  BY <1>1, <1>3, PeakResets
<1>4. CASE EndRecording
  BY <1>1, <1>4, PeakCloses
<1>5. CASE ~BeginRecording /\ ~FinishInstall /\ ~ScopeBaseline /\ ~ScopeReset /\ ~EndRecording
  <2>1. scopes' = scopes
    BY <1>5, ScopesFrame
  <2>2. counts'.peakBytes >= counts.peakBytes
    BY <1>5, PeakRises
  <2>3. pc'[Main] = pc[Main] \/ (pc[Main] \notin Opening /\ pc'[Main] \notin Opening)
    BY <1>1, <1>5, OpeningSteps
  <2>4. counts.peakBytes \in Nat /\ counts'.peakBytes \in Nat
    BY DEF CountInv, Counters
  <2>5. ASSUME NEW i \in DOMAIN scopes PROVE scopes[i].peakBase \in Nat
    <3>1. scopes \in Seq(Opened)
      BY DEF PeakInv
    <3>2. \A S : \A q \in Seq(S) : \A k \in DOMAIN q : q[k] \in S
      OBVIOUS
    <3>3. scopes[i] \in Opened
      BY <3>1, <3>2
    <3> QED
      BY <3>3 DEF Opened
  <2> QED
    BY <1>1, <2>1, <2>2, <2>3, <2>4, <2>5 DEF PeakInv, Opening
<1> QED
  BY <1>2, <1>3, <1>4, <1>5

\* Under the discipline, and while Scopes are not nested, what a report subtracts
\* from the high-water mark never exceeds it: PeakAboveBase.  (Nested, it does.)
THEOREM PeakStaysAboveBase ==
  ASSUME Discipline, MaxDepth <= 1
  PROVE  Spec => []PeakAboveBase
<1> DEFINE I == HookInv /\ HeapInv /\ CountInv /\ m_sequence \in Nat /\ PeakInv
<1>1. Init => I
  BY HookInvInit, HeapInvInit, CountInvInit, PeakInvInit
<1>2. I /\ [Next]_vars => I'
  <2> SUFFICES ASSUME I, [Next]_vars PROVE I'
    OBVIOUS
  <2>1. HookInv' /\ HeapInv' /\ m_sequence' \in Nat
    BY HookInvNext, HeapInvNext, SequenceNext DEF Discipline, AllAssumes
  <2>2. CountInv'
    BY <2>1, CountInvNext
  <2> QED
    BY <2>1, <2>2, PeakInvNext
<1>3. I => PeakAboveBase
  BY DEF PeakInv, PeakAboveBase
<1> QED
  <2> HIDE DEF I
  <2> QED
    BY <1>1, <1>2, <1>3, PTL DEF Spec
-----------------------------------------------------------------------------
(* The types of all the rest. *)

\* What c counts is no less than what o does.
NotMore(o, c) ==
  /\ o.allocations <= c.allocations /\ o.frees <= c.frees
  /\ o.doubleFrees <= c.doubleFrees /\ o.overflows <= c.overflows
  /\ o.useAfterFrees <= c.useAfterFrees

\* Threads that are about to number a block.
Numbering == {t \in Threads : pc[t] \in {"allocate", "link"}}

\* Whether Main is about to open a Scope.
ToOpen == IF pc[Main] \in {"install", "baseline"} THEN 1 ELSE 0

Report == [allocations : Nat, frees : Nat, doubleFrees : Nat, overflows : Nat,
           useAfterFrees : Nat, peakBytes : Nat, largestBlock : Nat,
           leakedBlocks : Nat, leakedBytes : Nat]

\* Numbers stay within the bounds: every block there is has one, and a thread
\* about to number one has room for it.
InBounds ==
  /\ m_sequence \in Nat /\ m_liveBlocks < m_sequence
  /\ IsFiniteSet(Numbering) /\ m_sequence + Cardinality(Numbering) <= MaxAllocations + 1

\* Scopes are counted while they are open, and each has counted less than there
\* is now.
Nested ==
  /\ Len(scopes) + ToOpen <= MaxDepth
  /\ m_recording = Len(scopes) + (IF pc[Main] = "baseline" THEN 1 ELSE 0)
  /\ \A i \in DOMAIN scopes : NotMore(scopes[i], counts)

TypesInv ==
  /\ InBounds /\ Nested
  /\ pc[Main] = "counts" => scopes # <<>>
  /\ m_freedRecently \subseteq Slots \X Nat
  /\ badFree \in BOOLEAN /\ bypass \in [Threads -> BOOLEAN]
  /\ report \subseteq Report

\* Nothing is counted back.
LEMMA CountsRise ==
  ASSUME CountInv, HeapInv, [Next]_vars
  PROVE  NotMore(counts, counts')
<1> DEFINE Rise == NotMore(counts, counts')
<1>1. /\ counts \in Counters /\ m_quarantine \in Seq(Slots)
      /\ \A t \in Threads : pc[t] = "release" => ptr[t][1] \in Slots
  BY DEF CountInv, HeapInv, HeapTypes, PointerOK
<1>2. /\ counts.allocations \in Nat /\ counts.frees \in Nat /\ counts.doubleFrees \in Nat
      /\ counts.overflows \in Nat /\ counts.useAfterFrees \in Nat
  BY <1>1 DEF Counters
<1>3. ASSUME NEW q \in Seq(Slots), NEW h, NEW d, Drain(q, h, d) PROVE Rise
  <2>1. PICK n \in Nat : /\ n >= counts.useAfterFrees
                         /\ counts' = [counts EXCEPT !.useAfterFrees = n]
    BY <1>1, <1>3, DrainTypes
  <2> QED
    BY <1>1, <1>2, <2>1 DEF Counters, NotMore
<1>4. ASSUME NEW t \in Threads, HoldBack(t) PROVE Rise
  <2>1. PICK q, h : /\ q = Append(m_quarantine, ptr[t][1])
                    /\ Drain(q, h, m_config.quarantineBytes)
    BY <1>4 DEF HoldBack
  <2>2. q \in Seq(Slots)
    BY <1>1, <1>4, <2>1 DEF HoldBack
  <2> QED
    BY <1>3, <2>1, <2>2
<1>5. ASSUME UNCHANGED counts PROVE Rise
  BY <1>2, <1>5 DEF NotMore
<1>6. ASSUME FlushQuarantine \/ EndRecording \/ \E t \in Threads : Settle(t) PROVE Rise
  <2>1. Drain(m_quarantine, header, 0) \/ UNCHANGED counts
    BY <1>6 DEF FlushQuarantine, EndRecording, Settle, UninstallIfIdle, BeginUninstall,
                KeepInstalled
  <2> QED
    BY <1>1, <1>3, <1>5, <2>1
<1>7. ASSUME NEW t \in Threads, CountDoubleFree(t) \/ ReportSmashed(t) \/ InspectRedzones(t)
      PROVE  Rise
  <2>1. \/ counts' = counts \/ counts' = [counts EXCEPT !.doubleFrees = @ + 1]
        \/ counts' = [counts EXCEPT !.overflows = @ + 1]
    BY <1>7 DEF CountDoubleFree, ReportSmashed, InspectRedzones
  <2> QED
    BY <1>1, <1>2, <2>1 DEF Counters, NotMore
<1>8. ASSUME ScopeReset PROVE Rise
  BY <1>1, <1>2, <1>8 DEF ScopeReset, Reset, Counters, NotMore
<1>9. ASSUME NEW t \in Threads, Link(t) PROVE Rise
  <2>1. \E b, p, l : counts' = [counts EXCEPT !.allocations = @ + 1, !.liveBytes = b,
                                             !.peakBytes = p, !.largestBlock = l]
    BY <1>9 DEF Link
  <2> QED
    BY <1>1, <1>2, <2>1 DEF Counters, NotMore
<1>10. ASSUME NEW t \in Threads, Unlink(t) PROVE Rise
  <2>1. \E b : counts' = [counts EXCEPT !.frees = @ + 1, !.liveBytes = b]
    BY <1>10 DEF Unlink
  <2> QED
    BY <1>1, <1>2, <2>1 DEF Counters, NotMore
<1> HIDE DEF Rise
<1>11. Rise
  BY <1>4, <1>5, <1>6, <1>7, <1>8, <1>9, <1>10
     DEF Next, Continue, ContinueScope, blockVars, vars,
         RawAllocate, AllocateFails, HookAllocate, RawFree, Lookup, PassThrough, ReleaseNow,
         FinishUninstall, LoadAllocate, LoadDeallocate, Reallocate, DoubleFree, ToggleBypass,
         FinishInstall, ScopeBaseline, ReadCounts, Sample, BeginRecording, ProgramWrites
<1> QED
  BY <1>11 DEF Rise

\* Threads come to number a block, and do, in three steps only.
LEMMA NumberingKept ==
  ASSUME pc \in [Threads -> Labels], [Next]_vars,
         \A t \in Threads : ~LoadAllocate(t) /\ ~AllocateFails(t) /\ ~Link(t)
  PROVE  Numbering' = Numbering
<1> DEFINE At(l) == l \in {"allocate", "link"}
<1>1. ASSUME NEW t \in Threads, NEW l, At(l) <=> At(pc[t]), pc' = [pc EXCEPT ![t] = l]
      PROVE  Numbering' = Numbering
  <2>1. \A u \in Threads : pc'[u] = IF u = t THEN l ELSE pc[u]
    BY <1>1
  <2>2. \A u \in Threads : At(pc'[u]) <=> At(pc[u])
    BY <1>1, <2>1
  <2> QED
    BY <2>2 DEF Numbering
<1>2. ASSUME NEW t \in Threads, RawAllocate(t) \/ RawFree(t) \/ Lookup(t) \/ CountDoubleFree(t)
                                \/ PassThrough(t) \/ ReportSmashed(t) \/ InspectRedzones(t)
                                \/ Unlink(t) \/ HoldBack(t) \/ ReleaseNow(t) \/ Settle(t)
                                \/ FinishUninstall(t) \/ LoadDeallocate(t) \/ DoubleFree(t)
      PROVE  Numbering' = Numbering
  <2>1. /\ pc[t] \in {"rawAllocate", "rawFree", "lookup", "notOurs", "inspect", "unlink",
                      "release", "settle", "uninstall", "idle"}
        /\ \E l \in {"idle", "rawFree", "lookup", "inspect", "notOurs", "unlink", "release",
                     "settle", "uninstall"} : pc' = [pc EXCEPT ![t] = l]
    BY <1>2 DEF RawAllocate, RawFree, Lookup, CountDoubleFree, PassThrough, ReportSmashed,
                InspectRedzones, Unlink, HoldBack, ReleaseNow, Settle, UninstallIfIdle,
                BeginUninstall, KeepInstalled, FinishUninstall, LoadDeallocate, DoubleFree,
                MayStart, Dispatch, Goto
  <2> QED
    BY <1>1, <2>1
<1>3. ASSUME NEW t \in Threads, HookAllocate(t) PROVE Numbering' = Numbering
  BY <1>1, <1>3 DEF HookAllocate, Goto
<1>4. ASSUME ContinueScope \/ BeginRecording \/ EndRecording \/ FlushQuarantine
      PROVE  Numbering' = Numbering
  <2>1. /\ pc[Main] \in {"install", "baseline", "reset", "counts", "sample", "idle"}
        /\ \E l \in {"install", "baseline", "reset", "counts", "sample", "idle", "uninstall"} :
             pc' = [pc EXCEPT ![Main] = l]
    BY <1>4 DEF ContinueScope, FinishInstall, ScopeBaseline, ScopeReset, ReadCounts, Sample,
                BeginRecording, EndRecording, UninstallIfIdle, BeginUninstall, KeepInstalled,
                FlushQuarantine, Goto
  <2> QED
    BY <1>1, <2>1, ThreadsAssumption
<1>5. ASSUME UNCHANGED pc PROVE Numbering' = Numbering
  BY <1>5 DEF Numbering
<1>6. ASSUME ProgramWrites \/ UNCHANGED vars \/ \E t \in Threads : Reallocate(t) \/ ToggleBypass(t)
      PROVE  Numbering' = Numbering
  BY <1>5, <1>6 DEF ProgramWrites, vars, Reallocate, ToggleBypass
<1> QED
  BY <1>2, <1>3, <1>4, <1>6 DEF Next, Continue

\* A block is numbered in its turn.
LEMMA BoundsNext ==
  ASSUME HookInv, HeapInv, HeapInv', CountInv, InBounds, [Next]_vars
  PROVE  InBounds'
<1> DEFINE n == Cardinality(Numbering)
<1>1. /\ pc \in [Threads -> Labels] /\ MaxAllocations \in Nat
      /\ IsFiniteSet(Numbering) /\ n \in Nat /\ m_sequence + n <= MaxAllocations + 1
      /\ m_sequence \in Nat /\ m_liveBlocks < m_sequence
      /\ IsFiniteSet(m_list) /\ m_liveBlocks = Cardinality(m_list) /\ m_liveBlocks \in Nat
      /\ m_liveBlocks' = Cardinality(m_list') /\ IsFiniteSet(m_list')
  BY ProgramAssumption, FS_CardinalityType
     DEF HookInv, HookTypeOK, InBounds, HeapInv, Linked
<1>2. m_liveBlocks' \in Nat
  BY <1>1, FS_CardinalityType
<1> HIDE DEF n
<1>3. ASSUME NEW t \in Threads, LoadAllocate(t) PROVE InBounds'
  <2>1. UNCHANGED <<m_sequence, m_liveBlocks>> /\ pc[t] = "idle"
    BY <1>3 DEF LoadAllocate, blockVars, MayStart
  <2>2. CASE pc' = [pc EXCEPT ![t] = "rawAllocate"]
    <3>1. Numbering' = Numbering
      BY <1>1, <2>1, <2>2 DEF Numbering
    <3> QED
      BY <1>1, <2>1, <3>1 DEF InBounds
  <2>3. CASE pc' = [pc EXCEPT ![t] = "allocate"] /\ InBudget
    <3>1. Numbering' = Numbering \union {t} /\ t \notin Numbering
      BY <1>1, <2>1, <2>3 DEF Numbering
    <3>2. IsFiniteSet(Numbering') /\ Cardinality(Numbering') = n + 1
      BY <1>1, <3>1, FS_AddElement DEF n
    <3>3. m_sequence + n <= MaxAllocations
      BY <2>3 DEF InBudget, n, Numbering
    <3>4. m_sequence + (n + 1) <= MaxAllocations + 1
      BY <1>1, <3>3
    <3> QED
      BY <1>1, <2>1, <3>2, <3>4 DEF InBounds
  <2> QED
    BY <1>3, <2>2, <2>3 DEF LoadAllocate, Goto
<1>4. ASSUME NEW t \in Threads, pc[t] \in {"rawAllocate", "allocate", "link"},
             pc' = [pc EXCEPT ![t] = "idle"]
      PROVE  /\ IsFiniteSet(Numbering')
             /\ Cardinality(Numbering') = IF pc[t] = "rawAllocate" THEN n ELSE n - 1
  <2>1. Numbering' = Numbering \ {t} /\ (t \in Numbering <=> pc[t] # "rawAllocate")
    BY <1>1, <1>4 DEF Numbering
  <2> QED
    BY <1>1, <2>1, FS_RemoveElement DEF n
<1>5. ASSUME NEW t \in Threads, AllocateFails(t) PROVE InBounds'
  <2>1. /\ UNCHANGED <<m_sequence, m_liveBlocks>> /\ pc[t] \in {"rawAllocate", "allocate"}
        /\ pc' = [pc EXCEPT ![t] = "idle"]
    BY <1>5 DEF AllocateFails, blockVars, Goto
  <2>2. IsFiniteSet(Numbering') /\ (Cardinality(Numbering') = n \/ Cardinality(Numbering') = n - 1)
    BY <1>4, <2>1
  <2>3. m_sequence + Cardinality(Numbering') <= MaxAllocations + 1
    BY <1>1, <2>2
  <2> QED
    BY <1>1, <2>1, <2>2, <2>3 DEF InBounds
<1>6. ASSUME NEW t \in Threads, Link(t) PROVE InBounds'
  <2>1. /\ m_sequence' = m_sequence + 1 /\ m_liveBlocks' = m_liveBlocks + 1
        /\ pc[t] = "link" /\ pc' = [pc EXCEPT ![t] = "idle"]
    BY <1>6 DEF Link, Goto
  <2>2. IsFiniteSet(Numbering') /\ Cardinality(Numbering') = n - 1
    BY <1>4, <2>1
  <2>3. m_sequence + 1 + (n - 1) <= MaxAllocations + 1 /\ m_liveBlocks + 1 < m_sequence + 1
    BY <1>1
  <2> QED
    BY <1>1, <2>1, <2>2, <2>3 DEF InBounds
<1>7. ASSUME NEW t \in Threads, Unlink(t) PROVE InBounds'
  <2>1. m_sequence' = m_sequence /\ m_list' = m_list \ {ptr[t][1]}
    BY <1>7 DEF Unlink
  <2>2. Cardinality(m_list') <= Cardinality(m_list)
    BY <1>1, <2>1, FS_Subset
  <2>3. ~LoadAllocate(t) /\ ~AllocateFails(t) /\ ~Link(t)
    BY <1>7 DEF Unlink, LoadAllocate, MayStart, AllocateFails, Link
  <2>4. Numbering' = Numbering
    <3>1. pc[t] = "unlink" /\ pc' = [pc EXCEPT ![t] = "release"]
      BY <1>7 DEF Unlink, Goto
    <3> QED
      BY <1>1, <3>1 DEF Numbering
  <2>5. m_liveBlocks' < m_sequence
    BY <1>1, <1>2, <2>2
  <2> QED
    BY <1>1, <2>1, <2>4, <2>5 DEF InBounds, n
<1>8. CASE \A t \in Threads : ~LoadAllocate(t) /\ ~AllocateFails(t) /\ ~Link(t) /\ ~Unlink(t)
  <2>1. m_list' = m_list /\ m_sequence' = m_sequence /\ Numbering' = Numbering
    BY <1>1, <1>8, TalliesKept, NumberingKept
  <2> QED
    BY <1>1, <2>1 DEF InBounds, n
<1> QED
  BY <1>3, <1>5, <1>6, <1>7, <1>8

\* An entry of a queue of Scopes.
LEMMA NotMoreTwice ==
  ASSUME NEW o \in Opened, NEW c \in Counters, NEW e \in Counters, NotMore(o, c), NotMore(c, e)
  PROVE  NotMore(o, e)
BY DEF Opened, Counters, NotMore

\* A Scope is counted from the time it opens to the time it closes.
LEMMA NestedNext ==
  ASSUME MaxDepth <= 1, HookInv, HeapInv, CountInv, CountInv', PeakInv, PeakInv', Nested,
         [Next]_vars
  PROVE  Nested'
<1>1. /\ pc \in [Threads -> Labels] /\ Main \in Threads /\ scopes \in Seq(Opened)
      /\ counts \in Counters /\ counts' \in Counters /\ Len(scopes) \in Nat
      /\ scopes' \in Seq(Opened) /\ Len(scopes') \in Nat
      /\ MaxDepth \in Nat /\ \A i \in DOMAIN scopes : scopes[i] \in Opened
  BY ThreadsAssumption, ProgramAssumption
     DEF HookInv, HookTypeOK, PeakInv, CountInv
<1>2. ASSUME NEW o \in Opened, NotMore(o, counts) PROVE NotMore(o, counts')
  BY <1>1, <1>2, CountsRise, NotMoreTwice
<1>3. ASSUME scopes' = scopes
      PROVE  \A i \in DOMAIN scopes' : NotMore(scopes'[i], counts')
  BY <1>1, <1>2, <1>3 DEF Nested
<1>4. CASE BeginRecording
  <2>1. /\ scopes' = scopes /\ Len(scopes) < MaxDepth /\ pc[Main] = "idle"
        /\ \/ pc' = [pc EXCEPT ![Main] = "install"] /\ m_recording' = m_recording
           \/ pc' = [pc EXCEPT ![Main] = "baseline"] /\ m_recording' = m_recording + 1
    BY <1>4 DEF BeginRecording, Goto, scopeVars
  <2>2. m_recording = Len(scopes) + 0
    BY <2>1 DEF Nested
  <2>3. \/ pc'[Main] = "install" /\ m_recording' = Len(scopes) + 0
        \/ pc'[Main] = "baseline" /\ m_recording' = Len(scopes) + 1
    BY <1>1, <2>1, <2>2
  <2>4. ToOpen' = 1 /\ Len(scopes) + 1 <= MaxDepth
    BY <1>1, <2>1, <2>3 DEF ToOpen
  <2> QED
    BY <1>1, <1>3, <2>1, <2>3, <2>4 DEF Nested
<1>5. CASE FinishInstall
  <2>1. /\ scopes' = scopes /\ pc[Main] = "install" /\ m_recording' = m_recording + 1
        /\ pc'[Main] = "baseline"
    BY <1>1, <1>5 DEF FinishInstall, Goto, scopeVars
  <2>2. ToOpen = 1 /\ ToOpen' = 1
    BY <2>1 DEF ToOpen
  <2> QED
    BY <1>1, <1>3, <2>1, <2>2 DEF Nested
<1>6. CASE ScopeBaseline
  <2>1. /\ Len(scopes) = 0 /\ pc[Main] = "baseline" /\ pc'[Main] = "reset" /\ counts' = counts
        /\ m_recording' = m_recording
    BY <1>1, <1>6 DEF ScopeBaseline, Goto, PeakInv, blockVars, modeVars
  <2>2. PICK o : /\ o = [sequence |-> m_sequence, allocations |-> counts.allocations,
                         frees |-> counts.frees, doubleFrees |-> counts.doubleFrees,
                         overflows |-> counts.overflows, useAfterFrees |-> counts.useAfterFrees,
                         peakBase |-> 0, opening |-> truth]
                 /\ scopes' = Append(scopes, o)
    BY <1>6 DEF ScopeBaseline
  <2>3. NotMore(o, counts)
    BY <1>1, <2>2 DEF NotMore, Counters
  <2>4. scopes = <<>>
    BY <1>1, <2>1
  <2>5. scopes' = <<o>>
    BY <2>2, <2>4
  <2>6. Len(scopes') = 1 /\ \A i \in DOMAIN scopes' : scopes'[i] = o
    BY <2>5
  <2>7. ToOpen = 1 /\ ToOpen' = 0
    BY <2>1 DEF ToOpen
  <2> QED
    BY <1>1, <2>1, <2>3, <2>6, <2>7 DEF Nested
<1>7. CASE ScopeReset
  <2>1. /\ scopes' = [scopes EXCEPT ![Len(scopes)].peakBase = counts.liveBytes] /\ counts' = Reset
        /\ m_recording' = m_recording /\ pc[Main] = "reset" /\ pc'[Main] = "idle"
        /\ Len(scopes) = 1
    BY <1>1, <1>7 DEF ScopeReset, Goto, PeakInv, modeVars
  <2>2. scopes[1] \in Opened /\ DOMAIN scopes = {1} /\ 1 \in DOMAIN scopes
    BY <1>1, <2>1, OneOnly
  <2>3. counts.liveBytes \in Nat
    BY <1>1 DEF Counters
  <2>4. PICK o : o = [scopes[1] EXCEPT !.peakBase = counts.liveBytes]
    OBVIOUS
  <2>5. /\ o \in Opened /\ o.allocations = scopes[1].allocations /\ o.frees = scopes[1].frees
        /\ o.doubleFrees = scopes[1].doubleFrees /\ o.overflows = scopes[1].overflows
        /\ o.useAfterFrees = scopes[1].useAfterFrees
    BY <2>2, <2>3, <2>4 DEF Opened
  <2>6. scopes' = [scopes EXCEPT ![1] = o]
    BY <2>1, <2>4
  <2>7. Len(scopes') = 1 /\ scopes'[1] = o
    BY <1>1, <2>1, <2>5, <2>6, OneOnly
  <2>8. DOMAIN scopes' = {1}
    BY <1>1, <2>7, OneOnly
  <2>9. NotMore(o, counts)
    BY <2>2, <2>5 DEF Nested, NotMore
  <2>10. NotMore(o, counts')
    BY <1>2, <2>5, <2>9
  <2>11. ToOpen = 0 /\ ToOpen' = 0
    BY <2>1 DEF ToOpen
  <2> QED
    BY <1>1, <2>1, <2>7, <2>8, <2>10, <2>11 DEF Nested
<1>8. CASE EndRecording
  <2>1. /\ scopes' = SubSeq(scopes, 1, Len(scopes) - 1) /\ StopRecording /\ scopes # <<>>
        /\ pc[Main] = "idle"
    BY <1>8 DEF EndRecording
  <2>2. pc'[Main] \in {"idle", "uninstall"}
    BY <1>1, <1>8 DEF EndRecording, UninstallIfIdle, BeginUninstall, KeepInstalled, Goto
  <2>3. Len(scopes) # 0
    BY <1>1, <2>1
  <2>4. m_recording = Len(scopes) /\ Len(scopes) <= 1
    BY <1>1, <2>1 DEF Nested, PeakInv
  <2>5. m_recording = 1 /\ Len(scopes) = 1
    BY <1>1, <2>3, <2>4
  <2>6. m_recording' = 0 /\ scopes' = <<>>
    BY <1>1, <2>1, <2>5 DEF StopRecording
  <2>7. ToOpen' = 0 /\ Len(scopes') = 0 /\ DOMAIN scopes' = {}
    BY <2>2, <2>6 DEF ToOpen
  <2> QED
    BY <1>1, <2>2, <2>6, <2>7 DEF Nested
<1>9. CASE ~BeginRecording /\ ~FinishInstall /\ ~ScopeBaseline /\ ~ScopeReset /\ ~EndRecording
  <2>1. scopes' = scopes
    BY <1>9, ScopesFrame
  <2>2. pc'[Main] = pc[Main] \/ (pc[Main] \notin Opening /\ pc'[Main] \notin Opening)
    BY <1>1, <1>9, OpeningSteps
  <2>3. m_recording' = m_recording
    BY <1>9 DEF Next, Continue, ContinueScope, modeVars, vars,
         RawAllocate, AllocateFails, HookAllocate, Link, RawFree, Lookup, CountDoubleFree,
         PassThrough, ReportSmashed, InspectRedzones, Unlink, HoldBack, ReleaseNow, Settle,
         FinishUninstall, LoadAllocate, LoadDeallocate, Reallocate, DoubleFree, ToggleBypass,
         ReadCounts, Sample, FlushQuarantine, ProgramWrites
  <2>4. ToOpen' = ToOpen /\ (pc'[Main] = "baseline" <=> pc[Main] = "baseline")
    BY <2>2 DEF ToOpen, Opening
  <2> QED
    BY <1>1, <1>3, <2>1, <2>3, <2>4 DEF Nested
<1> QED
  BY <1>4, <1>5, <1>6, <1>7, <1>8, <1>9

\* What is subtracted is not more than what it is subtracted from.
LEMMA Difference ==
  ASSUME NEW a \in Nat, NEW b \in Nat, b <= a
  PROVE  Minus(a, b) \in Nat
BY DEF Minus

\* A report is made of numbers.
LEMMA ReportNext ==
  ASSUME HookInv, HeapInv, CountInv, PeakInv, TypesInv, [Next]_vars
  PROVE  report' \subseteq Report /\ (pc'[Main] = "counts" => scopes' # <<>>)
<1>1. /\ pc \in [Threads -> Labels] /\ Main \in Threads /\ scopes \in Seq(Opened)
      /\ counts \in Counters /\ Len(scopes) \in Nat /\ report \subseteq Report
      /\ header \in [Slots -> Header] /\ IsFiniteSet(m_list) /\ m_list \subseteq Slots
  BY ThreadsAssumption DEF HookInv, HookTypeOK, PeakInv, CountInv, TypesInv, HeapInv, HeapTypes, Linked
<1>2. CASE ReadCounts
  <2>1. pc[Main] = "counts" /\ pc'[Main] = "sample"
    BY <1>1, <1>2 DEF ReadCounts, Goto
  <2>2. scopes # <<>>
    BY <2>1 DEF TypesInv
  <2>3. \A q \in Seq(Opened) : q # <<>> => Len(q) \in DOMAIN q /\ q[Len(q)] \in Opened
    OBVIOUS
  <2>4. PICK n : n = Len(scopes) /\ n \in DOMAIN scopes /\ scopes[n] \in Opened
    BY <1>1, <2>2, <2>3
  <2>5. PICK o : o = scopes[n] /\ o \in Opened
    BY <2>4
  <2>6. NotMore(o, counts) /\ counts.peakBytes >= o.peakBase
    BY <2>1, <2>4, <2>5 DEF TypesInv, Nested, PeakInv
  <2>7. /\ o.allocations \in Nat /\ o.frees \in Nat /\ o.doubleFrees \in Nat /\ o.overflows \in Nat
        /\ o.useAfterFrees \in Nat /\ o.peakBase \in Nat
    BY <2>5 DEF Opened
  <2>8. /\ counts.allocations \in Nat /\ counts.frees \in Nat /\ counts.doubleFrees \in Nat
        /\ counts.overflows \in Nat /\ counts.useAfterFrees \in Nat /\ counts.peakBytes \in Nat
        /\ counts.largestBlock \in Nat
    BY <1>1 DEF Counters
  <2>9. /\ Minus(counts.allocations, o.allocations) \in Nat /\ Minus(counts.frees, o.frees) \in Nat
        /\ Minus(counts.doubleFrees, o.doubleFrees) \in Nat
        /\ Minus(counts.overflows, o.overflows) \in Nat
        /\ Minus(counts.useAfterFrees, o.useAfterFrees) \in Nat
        /\ Minus(counts.peakBytes, o.peakBase) \in Nat
    BY <2>6, <2>7, <2>8, Difference DEF NotMore
  <2>10. report' = {[allocations |-> Minus(counts.allocations, o.allocations),
                     frees |-> Minus(counts.frees, o.frees),
                     doubleFrees |-> Minus(counts.doubleFrees, o.doubleFrees),
                     overflows |-> Minus(counts.overflows, o.overflows),
                     useAfterFrees |-> Minus(counts.useAfterFrees, o.useAfterFrees),
                     peakBytes |-> Minus(counts.peakBytes, o.peakBase),
                     largestBlock |-> counts.largestBlock,
                     leakedBlocks |-> 0, leakedBytes |-> 0]}
    BY <1>2, <2>4, <2>5 DEF ReadCounts
  <2> QED
    BY <2>1, <2>8, <2>9, <2>10 DEF Report
<1>3. CASE Sample
  <2>1. PICK L : L = Leaked(scopes[Len(scopes)].sequence)
    OBVIOUS
  <2>2. L \subseteq m_list /\ IsFiniteSet(L)
    BY <1>1, <2>1, FS_Subset DEF Leaked
  <2>3. PICK c : c = Cardinality(L) /\ c \in Nat
    BY <2>2, FS_CardinalityType
  <2>4. PICK f : f = [s \in L |-> header[s].size]
    OBVIOUS
  <2>5. SumFunction(f) \in Nat
    <3>1. \A s \in L : f[s] \in Nat
      BY <1>1, <2>2, <2>4 DEF Header
    <3>2. SumFunctionOnSet(f, L) \in Nat
      BY <2>2, <3>1, SumType
    <3>3. DOMAIN f = L
      BY <2>4
    <3> QED
      BY <3>2, <3>3 DEF SumFunction
  <2>6. PICK b \in Nat : b = SumFunction(f)
    BY <2>5
  <2>7. report' = {[r EXCEPT !.leakedBlocks = c, !.leakedBytes = b] : r \in report}
    BY <1>3, <2>1, <2>3, <2>4, <2>6 DEF Sample
  <2>8. \A r \in report : [r EXCEPT !.leakedBlocks = c, !.leakedBytes = b] \in Report
    BY <1>1, <2>3 DEF Report
  <2>9. pc'[Main] = "idle"
    BY <1>1, <1>3 DEF Sample, Goto
  <2> QED
    BY <2>7, <2>8, <2>9
<1>4. CASE EndRecording \/ FlushQuarantine
  <2>1. report' = {}
    BY <1>4 DEF EndRecording, FlushQuarantine
  <2>2. EndRecording => pc'[Main] \in {"idle", "uninstall"}
    BY <1>1 DEF EndRecording, UninstallIfIdle, BeginUninstall, KeepInstalled, Goto
  <2>3. FlushQuarantine => scopes' = scopes /\ scopes # <<>>
    BY DEF FlushQuarantine
  <2> QED
    BY <1>4, <2>1, <2>2, <2>3
<1>5. CASE BeginRecording \/ FinishInstall \/ ScopeBaseline \/ ScopeReset
  <2>1. report' = report
    BY <1>5 DEF BeginRecording, FinishInstall, ScopeBaseline, ScopeReset, scopeVars
  <2>2. pc'[Main] \in {"install", "baseline", "reset", "idle"}
    BY <1>1, <1>5 DEF BeginRecording, FinishInstall, ScopeBaseline, ScopeReset, Goto
  <2> QED
    BY <1>1, <2>1, <2>2
<1>6. CASE /\ ~BeginRecording /\ ~FinishInstall /\ ~ScopeBaseline /\ ~ScopeReset
           /\ ~FlushQuarantine /\ ~ReadCounts /\ ~Sample /\ ~EndRecording
  <2>1. scopes' = scopes
    BY <1>6, ScopesFrame
  <2>2. pc'[Main] = pc[Main] \/ pc'[Main] # "counts"
    BY <1>1, <1>6, MainSteps DEF ScopeLabels
  <2>3. report' = report
    BY <1>6 DEF Next, Continue, ContinueScope, scopeVars, vars,
         RawAllocate, AllocateFails, HookAllocate, Link, RawFree, Lookup, CountDoubleFree,
         PassThrough, ReportSmashed, InspectRedzones, Unlink, HoldBack, ReleaseNow, Settle,
         FinishUninstall, LoadAllocate, LoadDeallocate, Reallocate, DoubleFree, ToggleBypass,
         ProgramWrites
  <2> QED
    BY <1>1, <2>1, <2>2, <2>3 DEF TypesInv
<1> QED
  BY <1>2, <1>3, <1>4, <1>5, <1>6

\* Only payloads of blocks are remembered.
LEMMA RememberedNext ==
  ASSUME HeapInv, m_freedRecently \subseteq Slots \X Nat, [Next]_vars
  PROVE  m_freedRecently' \subseteq Slots \X Nat
<1>1. ASSUME NEW t \in Threads, Unlink(t) PROVE m_freedRecently' \subseteq Slots \X Nat
  <2>1. m_freedRecently' \subseteq m_freedRecently \union {ptr[t]} /\ Block(ptr[t])
    BY <1>1 DEF Unlink, Remember, HeapInv, PointerOK
  <2>2. ptr[t] \in Slots \X Nat
    <3>1. HeapTypes /\ m_list \subseteq Slots
      BY DEF HeapInv, HeapTypes
    <3>2. ptr[t] = <<ptr[t][1], payloadOffset(m_config.redzone)>> /\ ptr[t][1] \in m_list
      BY <2>1, PayloadFacts DEF Block
    <3> QED
      BY <3>1, <3>2, ConfigFacts
  <2> QED
    BY <2>1, <2>2
<1>2. ASSUME NEW t \in Threads, Link(t) \/ FinishUninstall(t)
      PROVE  m_freedRecently' \subseteq m_freedRecently
  BY <1>2 DEF Link, FinishUninstall
<1>3. CASE \A t \in Threads : ~Unlink(t) /\ ~Link(t) /\ ~FinishUninstall(t)
  <2>1. m_freedRecently' = m_freedRecently
    BY <1>3 DEF Next, Continue, ContinueScope, blockVars, vars,
         RawAllocate, AllocateFails, HookAllocate, RawFree, Lookup, CountDoubleFree,
         PassThrough, ReportSmashed, InspectRedzones, HoldBack, ReleaseNow, Settle,
         LoadAllocate, LoadDeallocate, Reallocate, DoubleFree, ToggleBypass,
         FinishInstall, ScopeBaseline, ScopeReset, ReadCounts, Sample, BeginRecording,
         EndRecording, FlushQuarantine, ProgramWrites
  <2> QED
    BY <2>1
<1> QED
  BY <1>1, <1>2, <1>3

\* A thread is under a Bypass of its own or is not.
LEMMA BypassNext ==
  ASSUME bypass \in [Threads -> BOOLEAN], [Next]_vars
  PROVE  bypass' \in [Threads -> BOOLEAN]
<1>1. ASSUME NEW t \in Threads, ToggleBypass(t) PROVE bypass' \in [Threads -> BOOLEAN]
  <2>1. bypass' = [bypass EXCEPT ![t] = ~bypass[t]]
    BY <1>1 DEF ToggleBypass
  <2>2. PICK b : b = ~bypass[t]
    OBVIOUS
  <2>3. b \in BOOLEAN
    BY <2>2, Zenon
  <2>4. bypass' = [bypass EXCEPT ![t] = b]
    BY <2>1, <2>2
  <2> QED
    BY <2>3, <2>4
<1>2. CASE \A t \in Threads : ~ToggleBypass(t)
  <2>1. bypass' = bypass
    BY <1>2 DEF Next, Continue, ContinueScope, vars,
         RawAllocate, AllocateFails, HookAllocate, Link, RawFree, Lookup, CountDoubleFree,
         PassThrough, ReportSmashed, InspectRedzones, Unlink, HoldBack, ReleaseNow, Settle,
         FinishUninstall, LoadAllocate, LoadDeallocate, Reallocate, DoubleFree,
         FinishInstall, ScopeBaseline, ScopeReset, ReadCounts, Sample, BeginRecording,
         EndRecording, FlushQuarantine, ProgramWrites
  <2> QED
    BY <2>1
<1> QED
  BY <1>1, <1>2

\* The heap is sound or is not.
LEMMA BadFreeNext ==
  ASSUME badFree \in BOOLEAN, [Next]_vars
  PROVE  badFree' \in BOOLEAN
<1>1. ASSUME NEW q, NEW h, NEW d, Drain(q, h, d) PROVE badFree' \in BOOLEAN
  BY <1>1, Zenon DEF Drain
<1>2. ASSUME NEW t \in Threads, HoldBack(t) PROVE badFree' \in BOOLEAN
  BY <1>1, <1>2 DEF HoldBack
<1>3. ASSUME FlushQuarantine \/ EndRecording \/ \E t \in Threads : Settle(t)
      PROVE  badFree' \in BOOLEAN
  <2>1. Drain(m_quarantine, header, 0) \/ badFree' = badFree
    BY <1>3 DEF FlushQuarantine, EndRecording, Settle, UninstallIfIdle, BeginUninstall,
                KeepInstalled
  <2> QED
    BY <1>1, <2>1
<1>4. ASSUME NEW t \in Threads, RawFree(t) PROVE badFree' \in BOOLEAN
  BY <1>4, Zenon DEF RawFree
<1>5. ASSUME NEW t \in Threads, ReleaseNow(t) PROVE badFree' \in BOOLEAN
  BY <1>5, Zenon DEF ReleaseNow
<1>6. ASSUME NEW t \in Threads, Reallocate(t) PROVE badFree' \in BOOLEAN
  <2>1. badFree' = badFree \/ badFree' = TRUE
    BY <1>6, Zenon DEF Reallocate
  <2> QED
    BY <2>1, Zenon
<1>7. ASSUME UNCHANGED badFree PROVE badFree' \in BOOLEAN
  BY <1>7
<1> QED
  BY <1>2, <1>3, <1>4, <1>5, <1>6, <1>7
     DEF Next, Continue, ContinueScope, heapVars, vars,
         RawAllocate, AllocateFails, HookAllocate, Link, Lookup, CountDoubleFree,
         PassThrough, ReportSmashed, InspectRedzones, Unlink,
         FinishUninstall, LoadAllocate, LoadDeallocate, DoubleFree, ToggleBypass,
         FinishInstall, ScopeBaseline, ScopeReset, ReadCounts, Sample, BeginRecording,
         ProgramWrites

\* At first nothing is numbered, open or remembered.
LEMMA TypesInit == Init => TypesInv
<1> SUFFICES ASSUME Init PROVE TypesInv
  OBVIOUS
<1>1. /\ m_sequence = 1 /\ m_liveBlocks = 0 /\ scopes = <<>> /\ report = {}
      /\ m_freedRecently = {} /\ bypass = [t \in Threads |-> FALSE] /\ m_recording = 0
      /\ pc = [t \in Threads |-> "idle"] /\ Main \in Threads /\ badFree = FALSE
  BY ThreadsAssumption DEF Init
<1>2. Numbering = {} /\ IsFiniteSet({}) /\ Cardinality({}) = 0
  BY <1>1, FS_EmptySet DEF Numbering
<1>3. InBounds
  BY <1>1, <1>2, ProgramAssumption DEF InBounds
<1>4. Nested
  BY <1>1, ProgramAssumption DEF Nested, ToOpen
<1> QED
  BY <1>1, <1>3, <1>4 DEF TypesInv

\* All together.
LEMMA AllTyped ==
  ASSUME HookInv, HeapInv, CountInv, PeakInv, TypesInv
  PROVE  TypeOK
<1>1. /\ heap \in [Slots -> Nat \union {NoChunk}] /\ header \in [Slots -> Header]
      /\ owned \subseteq Slots \X Nat /\ dangling = {} /\ truth \in Mistakes
      /\ m_config \in Configs /\ m_list \subseteq Slots /\ m_quarantine \in Seq(Slots)
      /\ ptr \in [Threads -> Pointers]
  BY DEF HeapInv, HeapTypes, PeakInv
<1>2. /\ allocateSlot \in {"system", "hook"} /\ deallocateSlot \in {"system", "hook"}
      /\ m_mutex \in Threads \union {NoOne} /\ m_installed \in BOOLEAN
      /\ pc \in [Threads -> Labels]
  BY DEF HookInv, HookTypeOK
<1>3. m_live \subseteq Slots \X Nat
  <2>1. m_live \subseteq {Payload(s) : s \in m_list}
    BY DEF HeapInv, Linked
  <2> QED
    BY <1>1, <2>1, PayloadFacts, ConfigFacts DEF HeapInv
<1>4. m_sequence \in 1..(MaxAllocations + 1) /\ m_liveBlocks \in 0..MaxAllocations
  <2>1. /\ Cardinality(Numbering) \in Nat /\ MaxAllocations \in Nat /\ m_liveBlocks \in Nat
        /\ m_sequence \in Nat /\ m_liveBlocks < m_sequence
        /\ m_sequence + Cardinality(Numbering) <= MaxAllocations + 1
    BY ProgramAssumption, FS_CardinalityType DEF TypesInv, InBounds, HookInv, HookTypeOK
  <2> QED
    BY <2>1
<1>5. m_recording \in 0..MaxDepth /\ scopes \in Seq(Opened)
  <2>1. /\ scopes \in Seq(Opened) /\ Len(scopes) \in Nat /\ MaxDepth \in Nat
    BY ProgramAssumption DEF PeakInv
  <2>2. /\ Len(scopes) + ToOpen <= MaxDepth
        /\ m_recording = Len(scopes) + (IF pc[Main] = "baseline" THEN 1 ELSE 0)
    BY DEF TypesInv, Nested
  <2> QED
    BY <2>1, <2>2 DEF ToOpen
<1>6. counts \in Counters /\ m_freedRecently \subseteq Slots \X Nat
      /\ badFree \in BOOLEAN /\ bypass \in [Threads -> BOOLEAN] /\ report \subseteq Report
  BY DEF CountInv, TypesInv
<1> QED
  BY <1>1, <1>2, <1>3, <1>4, <1>5, <1>6 DEF TypeOK, Counters, Opened, Report

\* Under the discipline, and while Scopes are not nested, the tracker's state is
\* of its types: TypeOK for any number of threads, slots and sizes.  Numbers stay
\* in the bounds of the model, and no size_t of a report wraps around.
THEOREM TrackerTypes ==
  ASSUME Discipline, MaxDepth <= 1
  PROVE  Spec => []TypeOK
<1> DEFINE I == HookInv /\ HeapInv /\ CountInv /\ m_sequence \in Nat /\ PeakInv /\ TypesInv
<1>1. Init => I
  BY HookInvInit, HeapInvInit, CountInvInit, PeakInvInit, TypesInit
<1>2. I /\ [Next]_vars => I'
  <2> SUFFICES ASSUME I, [Next]_vars PROVE I'
    OBVIOUS
  <2>1. HookInv' /\ HeapInv' /\ m_sequence' \in Nat
    BY HookInvNext, HeapInvNext, SequenceNext DEF Discipline, AllAssumes
  <2>2. CountInv'
    BY <2>1, CountInvNext
  <2>3. PeakInv'
    BY <2>1, <2>2, PeakInvNext
  <2>4. InBounds'
    BY <2>1, BoundsNext DEF TypesInv
  <2>5. Nested'
    BY <2>2, <2>3, NestedNext DEF TypesInv
  <2>6. TypesInv'
    BY <2>4, <2>5, ReportNext, RememberedNext, BypassNext, BadFreeNext DEF TypesInv
  <2> QED
    BY <2>1, <2>2, <2>3, <2>6
<1>3. I => TypeOK
  BY AllTyped
<1> QED
  <2> HIDE DEF I
  <2> QED
    BY <1>1, <1>2, <1>3, PTL DEF Spec
==============================================================================

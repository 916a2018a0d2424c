---------------------------- MODULE TrackerProofs ----------------------------
(***************************************************************************)
(* The hook of Tracker stays in for as long as a tracked block is alive,   *)
(* when the program keeps the "joined" discipline, and is removed in the   *)
(* end whatever the program does; and what the hook does to the heap,      *)
(* under Discipline.  For any number of threads, slots, sizes and          *)
(* allocations, wherever the system allocator places its chunks.           *)
(***************************************************************************)
EXTENDS Tracker, SumFacts

-----------------------------------------------------------------------------
(* The hook. *)

\* The hook is out, nothing is recorded, every thread is outside.
LEMMA HookInvInit == Init => HookInv
<1> SUFFICES ASSUME Init PROVE HookInv
  OBVIOUS
<1>1. /\ m_mutex = NoOne /\ m_installed = FALSE /\ m_recording = 0
      /\ allocateSlot = "system" /\ deallocateSlot = "system"
      /\ m_liveBlocks = 0 /\ m_live = {}
      /\ pc = [t \in Threads |-> "idle"]
  BY DEF Init
<1>2. HookTypeOK
  BY <1>1 DEF HookTypeOK, Labels
<1>3. SlotsAgree
  BY <1>1 DEF SlotsAgree
<1>4. OutMeansEmpty
  BY <1>1 DEF OutMeansEmpty
<1>5. InsideMeansIn
  BY <1>1 DEF InsideMeansIn, InTracker
<1>6. OneWhileLingering
  BY <1>1 DEF OneWhileLingering, Lingering
<1> QED
  BY <1>2, <1>3, <1>4, <1>5, <1>6 DEF HookInv

hookVars == <<m_mutex, m_installed, m_recording, m_liveBlocks, m_live,
              allocateSlot, deallocateSlot>>

\* A thread that finds the hook in a slot finds it in, or on its way in.
LEMMA HookSeenMeansIn ==
  ASSUME HookInv, allocateSlot = "hook" \/ deallocateSlot = "hook"
  PROVE  m_installed \/ pc[Main] = "install"
<1>1. CASE m_mutex = NoOne
  BY <1>1 DEF HookInv, SlotsAgree
<1>2. CASE m_mutex # NoOne
  BY <1>2 DEF HookInv, HookTypeOK, SlotsAgree
<1> QED
  BY <1>1, <1>2

\* An operation of the program starts: alone if the hook is lingering, and in
\* the tracker only if it found the hook.
LEMMA StartKeepsHookInv ==
  ASSUME HookInv, NEW t \in Threads, pc[t] = "idle",
         NEW l \in Labels \ {"install", "uninstall"}, Goto(t, l),
         Lingering => Alone(t),
         l \in InTracker => allocateSlot = "hook" \/ deallocateSlot = "hook",
         UNCHANGED hookVars
  PROVE  HookInv'
<1> USE ThreadsAssumption DEF Goto, hookVars, HookInv, HookTypeOK
<1>1. HookTypeOK'
  OBVIOUS
<1>2. SlotsAgree'
  BY DEF SlotsAgree
<1>3. OutMeansEmpty'
  BY DEF OutMeansEmpty
<1>4. InsideMeansIn'
  BY HookSeenMeansIn DEF InsideMeansIn, InTracker
<1>5. OneWhileLingering'
  BY DEF OneWhileLingering, Lingering, Alone
<1> QED
  BY <1>1, <1>2, <1>3, <1>4, <1>5

\* Every step of every thread keeps the invariant.
LEMMA HookInvNext ==
  ASSUME "joined" \in Assumes, HookInv, [Next]_vars
  PROVE  HookInv'
<1> USE ThreadsAssumption, SizesAssumption
        DEF HookInv, HookTypeOK, Labels, SlotsAgree, OutMeansEmpty, InsideMeansIn, InTracker,
            OneWhileLingering, Lingering, Goto, Unlocked,
            heapVars, slotVars, modeVars, blockVars, scopeVars
<1>1. ASSUME NEW t \in Threads, RawAllocate(t) PROVE HookInv'
  BY <1>1 DEF RawAllocate
<1>2. ASSUME NEW t \in Threads, AllocateFails(t) PROVE HookInv'
  BY <1>2 DEF AllocateFails
<1>3. ASSUME NEW t \in Threads, HookAllocate(t) PROVE HookInv'
  BY <1>3 DEF HookAllocate
<1>4. ASSUME NEW t \in Threads, Link(t) PROVE HookInv'
  BY <1>4 DEF Link
<1>5. ASSUME NEW t \in Threads, RawFree(t) PROVE HookInv'
  BY <1>5 DEF RawFree
<1>6. ASSUME NEW t \in Threads, Lookup(t) PROVE HookInv'
  BY <1>6 DEF Lookup
<1>7. ASSUME NEW t \in Threads, CountDoubleFree(t) PROVE HookInv'
  BY <1>7 DEF CountDoubleFree
<1>8. ASSUME NEW t \in Threads, PassThrough(t) PROVE HookInv'
  BY <1>8 DEF PassThrough
<1>9. ASSUME NEW t \in Threads, ReportSmashed(t) PROVE HookInv'
  BY <1>9 DEF ReportSmashed
<1>10. ASSUME NEW t \in Threads, InspectRedzones(t) PROVE HookInv'
  BY <1>10 DEF InspectRedzones
<1>11. ASSUME NEW t \in Threads, Unlink(t) PROVE HookInv'
  BY <1>11 DEF Unlink, Minus
<1>12. ASSUME NEW t \in Threads, HoldBack(t) PROVE HookInv'
  BY <1>12 DEF HoldBack
<1>13. ASSUME NEW t \in Threads, ReleaseNow(t) PROVE HookInv'
  BY <1>13 DEF ReleaseNow
<1>14. ASSUME NEW t \in Threads, Settle(t) PROVE HookInv'
  BY <1>14 DEF Settle, UninstallIfIdle, BeginUninstall, KeepInstalled, CanUninstall
<1>15. ASSUME NEW t \in Threads, FinishUninstall(t) PROVE HookInv'
  BY <1>15 DEF FinishUninstall
<1>16. ASSUME NEW t \in Threads, LoadAllocate(t) PROVE HookInv'
  <2>1. /\ pc[t] = "idle" /\ (Lingering => Alone(t))
        /\ UNCHANGED hookVars
    BY <1>16 DEF LoadAllocate, MayStart, Alone, hookVars
  <2>2. CASE Goto(t, "rawAllocate")
    BY <2>1, <2>2, StartKeepsHookInv
  <2>3. CASE Goto(t, "allocate") /\ allocateSlot = "hook"
    BY <2>1, <2>3, StartKeepsHookInv
  <2> QED
    BY <1>16, <2>2, <2>3 DEF LoadAllocate
<1>17. ASSUME NEW t \in Threads, LoadDeallocate(t) PROVE HookInv'
  <2>1. /\ pc[t] = "idle" /\ (Lingering => Alone(t))
        /\ UNCHANGED hookVars
    BY <1>17 DEF LoadDeallocate, Dispatch, MayStart, Alone, hookVars
  <2>2. CASE Goto(t, "rawFree")
    BY <2>1, <2>2, StartKeepsHookInv
  <2>3. CASE Goto(t, "lookup") /\ deallocateSlot = "hook"
    BY <2>1, <2>3, StartKeepsHookInv
  <2> QED
    BY <1>17, <2>2, <2>3 DEF LoadDeallocate, Dispatch
<1>18. ASSUME NEW t \in Threads, DoubleFree(t) PROVE HookInv'
  <2>1. /\ pc[t] = "idle" /\ (Lingering => Alone(t))
        /\ UNCHANGED hookVars
    BY <1>18 DEF DoubleFree, Dispatch, MayStart, Alone, hookVars
  <2>2. CASE Goto(t, "rawFree")
    BY <2>1, <2>2, StartKeepsHookInv
  <2>3. CASE Goto(t, "lookup") /\ deallocateSlot = "hook"
    BY <2>1, <2>3, StartKeepsHookInv
  <2> QED
    BY <1>18, <2>2, <2>3 DEF DoubleFree, Dispatch
<1>19. ASSUME NEW t \in Threads, ToggleBypass(t) PROVE HookInv'
  BY <1>19 DEF ToggleBypass
<1>30. ASSUME NEW t \in Threads, Reallocate(t) PROVE HookInv'
  BY <1>30 DEF Reallocate
<1>20. ASSUME FinishInstall PROVE HookInv'
  <2>1. m_mutex = Main /\ ~m_installed /\ m_liveBlocks = 0 /\ m_recording = 0
    BY <1>20 DEF FinishInstall
  <2>2. allocateSlot = "hook"
    BY <1>20 DEF FinishInstall
  <2> QED
    BY <1>20, <2>1, <2>2 DEF FinishInstall
<1>21. ASSUME ScopeBaseline PROVE HookInv'
  BY <1>21 DEF ScopeBaseline
<1>22. ASSUME ScopeReset PROVE HookInv'
  BY <1>22 DEF ScopeReset
<1>23. ASSUME ReadCounts PROVE HookInv'
  BY <1>23 DEF ReadCounts
<1>24. ASSUME Sample PROVE HookInv'
  BY <1>24 DEF Sample
<1>25. ASSUME BeginRecording PROVE HookInv'
  BY <1>25 DEF BeginRecording
<1>26. ASSUME EndRecording PROVE HookInv'
  BY <1>26 DEF EndRecording, StopRecording, Joined, Alone, UninstallIfIdle, BeginUninstall, KeepInstalled, CanUninstall
<1>27. ASSUME FlushQuarantine PROVE HookInv'
  BY <1>27 DEF FlushQuarantine, Joined, Alone
<1>28. ASSUME ProgramWrites PROVE HookInv'
  BY <1>28 DEF ProgramWrites
<1>29. ASSUME UNCHANGED vars PROVE HookInv'
  BY <1>29 DEF vars
<1> QED
  BY <1>1, <1>2, <1>3, <1>4, <1>5, <1>6, <1>7, <1>8, <1>9, <1>10, <1>11, <1>12, <1>13, <1>14, <1>15,
     <1>16, <1>17, <1>18, <1>19, <1>20, <1>21, <1>22, <1>23, <1>24, <1>25, <1>26, <1>27, <1>28, <1>29, <1>30
     DEF Next, Continue, ContinueScope

\* The slots, m_installed, the live blocks and the threads on their way agree in
\* every behaviour of a program that joins its workers: HookInv, the inductive
\* invariant that the theorems on the Tracker rest on.
THEOREM HookAgrees ==
  ASSUME "joined" \in Assumes
  PROVE  Spec => []HookInv
BY HookInvInit, HookInvNext, PTL DEF Spec

\* The hook stays in while a tracked block is alive, so that the block's free
\* finds its header: InstalledWhileLive in every behaviour of a program that
\* joins its workers.
THEOREM HookStaysIn ==
  ASSUME "joined" \in Assumes
  PROVE  Spec => []InstalledWhileLive
<1>1. HookInv => InstalledWhileLive
  <2> SUFFICES ASSUME HookInv, m_liveBlocks > 0
               PROVE  m_installed /\ allocateSlot = "hook" /\ deallocateSlot = "hook"
    BY DEF InstalledWhileLive
  <2>1. m_installed /\ m_liveBlocks # 0
    BY DEF HookInv, HookTypeOK, OutMeansEmpty
  <2>2. m_mutex = NoOne
    BY <2>1 DEF HookInv, HookTypeOK, SlotsAgree
  <2> QED
    BY <2>1, <2>2 DEF HookInv, SlotsAgree
<1>2. QED
  BY HookInvInit, HookInvNext, <1>1, PTL DEF Spec

-----------------------------------------------------------------------------
\* No discipline is needed for the removal not to be lost.
LEMMA RemovalInit == Init => HookTypeOK /\ RemovalUnderWay
<1> SUFFICES ASSUME Init PROVE HookTypeOK /\ RemovalUnderWay
  OBVIOUS
<1>1. m_installed = FALSE
  BY DEF Init
<1> QED
  BY <1>1, HookInvInit DEF HookInv, RemovalUnderWay

\* An operation that starts was not the one removing the hook.
LEMMA StartKeepsRemoval ==
  ASSUME HookTypeOK, RemovalUnderWay, NEW t \in Threads, pc[t] = "idle",
         NEW l \in Labels, Goto(t, l), UNCHANGED hookVars
  PROVE  HookTypeOK' /\ RemovalUnderWay'
<1>1. HookTypeOK'
  BY DEF HookTypeOK, Goto, hookVars
<1>2. RemovalUnderWay'
  BY DEF HookTypeOK, RemovalUnderWay, Goto, hookVars
<1> QED
  BY <1>1, <1>2

\* Every other step keeps the removal under way, or completes it.
LEMMA RemovalNext ==
  ASSUME HookTypeOK, RemovalUnderWay, [Next]_vars
  PROVE  HookTypeOK' /\ RemovalUnderWay'
<1> USE ThreadsAssumption, SizesAssumption
        DEF HookTypeOK, Labels, RemovalUnderWay, Goto, Unlocked,
            heapVars, slotVars, modeVars, blockVars, scopeVars
<1>1. ASSUME NEW t \in Threads, RawAllocate(t) PROVE HookTypeOK' /\ RemovalUnderWay'
  BY <1>1 DEF RawAllocate
<1>2. ASSUME NEW t \in Threads, AllocateFails(t) PROVE HookTypeOK' /\ RemovalUnderWay'
  BY <1>2 DEF AllocateFails
<1>3. ASSUME NEW t \in Threads, HookAllocate(t) PROVE HookTypeOK' /\ RemovalUnderWay'
  BY <1>3 DEF HookAllocate
<1>4. ASSUME NEW t \in Threads, Link(t) PROVE HookTypeOK' /\ RemovalUnderWay'
  BY <1>4 DEF Link
<1>5. ASSUME NEW t \in Threads, RawFree(t) PROVE HookTypeOK' /\ RemovalUnderWay'
  BY <1>5 DEF RawFree
<1>6. ASSUME NEW t \in Threads, Lookup(t) PROVE HookTypeOK' /\ RemovalUnderWay'
  BY <1>6 DEF Lookup
<1>7. ASSUME NEW t \in Threads, CountDoubleFree(t) PROVE HookTypeOK' /\ RemovalUnderWay'
  BY <1>7 DEF CountDoubleFree
<1>8. ASSUME NEW t \in Threads, PassThrough(t) PROVE HookTypeOK' /\ RemovalUnderWay'
  BY <1>8 DEF PassThrough
<1>9. ASSUME NEW t \in Threads, ReportSmashed(t) PROVE HookTypeOK' /\ RemovalUnderWay'
  BY <1>9 DEF ReportSmashed
<1>10. ASSUME NEW t \in Threads, InspectRedzones(t) PROVE HookTypeOK' /\ RemovalUnderWay'
  BY <1>10 DEF InspectRedzones
<1>11. ASSUME NEW t \in Threads, Unlink(t) PROVE HookTypeOK' /\ RemovalUnderWay'
  BY <1>11 DEF Unlink, Minus
<1>12. ASSUME NEW t \in Threads, HoldBack(t) PROVE HookTypeOK' /\ RemovalUnderWay'
  BY <1>12 DEF HoldBack
<1>13. ASSUME NEW t \in Threads, ReleaseNow(t) PROVE HookTypeOK' /\ RemovalUnderWay'
  BY <1>13 DEF ReleaseNow
<1>14. ASSUME NEW t \in Threads, Settle(t) PROVE HookTypeOK' /\ RemovalUnderWay'
  BY <1>14 DEF Settle, UninstallIfIdle, BeginUninstall, KeepInstalled, CanUninstall
<1>15. ASSUME NEW t \in Threads, FinishUninstall(t) PROVE HookTypeOK' /\ RemovalUnderWay'
  BY <1>15 DEF FinishUninstall
<1>16. ASSUME NEW t \in Threads, LoadAllocate(t) PROVE HookTypeOK' /\ RemovalUnderWay'
  <2>1. pc[t] = "idle" /\ UNCHANGED hookVars
    BY <1>16 DEF LoadAllocate, MayStart, hookVars
  <2>2. Goto(t, "rawAllocate") \/ Goto(t, "allocate")
    BY <1>16 DEF LoadAllocate
  <2> QED
    BY <2>1, <2>2, StartKeepsRemoval
<1>17. ASSUME NEW t \in Threads, LoadDeallocate(t) PROVE HookTypeOK' /\ RemovalUnderWay'
  <2>1. pc[t] = "idle" /\ UNCHANGED hookVars
    BY <1>17 DEF LoadDeallocate, Dispatch, MayStart, hookVars
  <2>2. Goto(t, "rawFree") \/ Goto(t, "lookup")
    BY <1>17 DEF LoadDeallocate, Dispatch
  <2> QED
    BY <2>1, <2>2, StartKeepsRemoval
<1>18. ASSUME NEW t \in Threads, DoubleFree(t) PROVE HookTypeOK' /\ RemovalUnderWay'
  <2>1. pc[t] = "idle" /\ UNCHANGED hookVars
    BY <1>18 DEF DoubleFree, Dispatch, MayStart, hookVars
  <2>2. Goto(t, "rawFree") \/ Goto(t, "lookup")
    BY <1>18 DEF DoubleFree, Dispatch
  <2> QED
    BY <2>1, <2>2, StartKeepsRemoval
<1>19. ASSUME NEW t \in Threads, ToggleBypass(t) PROVE HookTypeOK' /\ RemovalUnderWay'
  BY <1>19 DEF ToggleBypass
<1>30. ASSUME NEW t \in Threads, Reallocate(t) PROVE HookTypeOK' /\ RemovalUnderWay'
  BY <1>30 DEF Reallocate
<1>20. ASSUME FinishInstall PROVE HookTypeOK' /\ RemovalUnderWay'
  BY <1>20 DEF FinishInstall
<1>21. ASSUME ScopeBaseline PROVE HookTypeOK' /\ RemovalUnderWay'
  BY <1>21 DEF ScopeBaseline
<1>22. ASSUME ScopeReset PROVE HookTypeOK' /\ RemovalUnderWay'
  BY <1>22 DEF ScopeReset
<1>23. ASSUME ReadCounts PROVE HookTypeOK' /\ RemovalUnderWay'
  BY <1>23 DEF ReadCounts
<1>24. ASSUME Sample PROVE HookTypeOK' /\ RemovalUnderWay'
  BY <1>24 DEF Sample
<1>25. ASSUME BeginRecording PROVE HookTypeOK' /\ RemovalUnderWay'
  BY <1>25 DEF BeginRecording
<1>26. ASSUME EndRecording PROVE HookTypeOK' /\ RemovalUnderWay'
  BY <1>26 DEF EndRecording, StopRecording, UninstallIfIdle, BeginUninstall, KeepInstalled, CanUninstall
<1>27. ASSUME FlushQuarantine PROVE HookTypeOK' /\ RemovalUnderWay'
  BY <1>27 DEF FlushQuarantine
<1>28. ASSUME ProgramWrites PROVE HookTypeOK' /\ RemovalUnderWay'
  BY <1>28 DEF ProgramWrites
<1>29. ASSUME UNCHANGED vars PROVE HookTypeOK' /\ RemovalUnderWay'
  BY <1>29 DEF vars
<1> QED
  BY <1>1, <1>2, <1>3, <1>4, <1>5, <1>6, <1>7, <1>8, <1>9, <1>10, <1>11,
     <1>12, <1>13, <1>14, <1>15, <1>16, <1>17, <1>18, <1>19, <1>20, <1>21,
     <1>22, <1>23, <1>24, <1>25, <1>26, <1>27, <1>28, <1>29, <1>30
     DEF Next, Continue, ContinueScope

\* Whatever the program does, when no thread is inside the library and there
\* is nothing left to record or to free, the hook has been removed.
THEOREM HookIsRemoved == Spec => []NotLingering
<1>1. RemovalUnderWay => NotLingering
  BY DEF RemovalUnderWay, NotLingering, AllIdle
<1>2. QED
  BY RemovalInit, RemovalNext, <1>1, PTL DEF Spec

-----------------------------------------------------------------------------
(* The heap.  First the inductive invariant. *)

\* The program joins its workers, frees only untracked memory under a Bypass,
\* opens its Scopes with one configuration while the hook is in, does not grow
\* a block whose header it overwrote, and frees nothing twice.  Without red
\* zones to check, blocks are laid out without them.
Discipline ==
  /\ AllAssumes \subseteq Assumes
  /\ "doublefree" \notin Faults
  /\ \A config \in Configs : config.checkRedzone \/ config.redzone = 0

\* Where the payload of a block starts.
Payload(s) == payloadOf(s, m_config.redzone)

\* A chunk of the system allocator, and a block of the tracker's.
Raw(p) == p[1] \in Slots /\ header[p[1]].magic = "none" /\ heap[p[1]] = p[2] /\ p = <<p[1], p[2]>>

Block(p) == p[1] \in m_list /\ p = Payload(p[1]) /\ p \in m_live

\* What a header says of its slot.
Layout ==
  \A s \in Slots :
    /\ header[s].magic = "none" => header[s] = NoHeader
    /\ header[s].magic # "none" => /\ heap[s] = 0
                                   /\ header[s].redzone = m_config.redzone
                                   /\ header[s].size \in Sizes
    /\ s \in m_list => header[s].magic \in {"live", "smashed"}
    /\ header[s].magic = "freed" <=> s \in Range(m_quarantine)

Linked ==
  /\ m_live \subseteq {Payload(s) : s \in m_list}
  /\ \A s \in m_list : header[s].magic = "live" => Payload(s) \in m_live
  /\ IsFiniteSet(m_list) /\ m_liveBlocks = Cardinality(m_list)

Held ==
  /\ IsInjective(m_quarantine)
  /\ ~m_installed => m_quarantine = <<>>
  /\ \A t \in Threads : pc[t] = "uninstall" => m_quarantine = <<>>

\* What a thread inside the library knows of the pointer it was given.
PointerOK(t) ==
  /\ pc[t] \in {"rawFree", "notOurs"} => Raw(ptr[t])
  /\ pc[t] = "lookup" => Raw(ptr[t]) \/ Block(ptr[t])
  /\ pc[t] \in {"inspect", "unlink"} => Block(ptr[t])
  /\ pc[t] = "unlink" => header[ptr[t][1]].magic = "live"
  /\ pc[t] \in {"link", "release"} =>
       /\ ptr[t][1] \in Slots \ m_list /\ ptr[t] = Payload(ptr[t][1])
       /\ header[ptr[t][1]].magic = "live"

Holding == {"rawFree", "notOurs", "lookup", "inspect", "unlink", "link", "release"}

\* A slot is one thread's at a time, or the program's.
Exclusive ==
  \A t \in Threads : pc[t] \in Holding =>
    /\ \A p \in owned : p[1] # ptr[t][1]
    /\ \A u \in Threads \ {t} : pc[u] \in Holding => ptr[u][1] # ptr[t][1]

\* Every block is in somebody's hands, unless its header was overwritten.
Placed ==
  \A s \in Slots :
    /\ s \in m_list /\ header[s].magic = "live" =>
         \/ Payload(s) \in owned
         \/ \E t \in Threads : pc[t] \in {"lookup", "inspect", "unlink"} /\ ptr[t] = Payload(s)
    /\ s \notin m_list /\ header[s].magic \in {"live", "smashed"} =>
         \E t \in Threads : pc[t] \in {"link", "release"} /\ ptr[t] = Payload(s)

HeapTypes ==
  /\ heap \in [Slots -> Nat \union {NoChunk}]
  /\ header \in [Slots -> Header]
  /\ owned \subseteq Slots \X Nat
  /\ m_config \in Configs
  /\ m_list \subseteq Slots
  /\ m_quarantine \in Seq(Slots)
  /\ ptr \in [Threads -> Pointers]
  /\ dangling = {}

HeapInv ==
  /\ HeapTypes /\ Layout /\ Linked /\ Held /\ Exclusive /\ Placed
  /\ \A p \in owned : Raw(p) \/ Block(p)
  /\ \A t \in Threads : PointerOK(t)
  /\ HeapSafe
-----------------------------------------------------------------------------
(* Slots, headers and pointers. *)

LEMMA PayloadFacts ==
  /\ \A s : Payload(s) = <<s, payloadOffset(m_config.redzone)>> /\ Payload(s)[1] = s
  /\ \A r \in Nat : payloadOffset(r) \in Nat
<1>1. ASSUME NEW r \in Nat PROVE payloadOffset(r) \in Nat
  <2> DEFINE n == HeaderSize + r + DefaultAlignment - 1
  <2>1. n \in Nat /\ DefaultAlignment \in Nat \ {0}
    BY LayoutAssumption
  <2>2. n \div DefaultAlignment \in Nat
    BY <2>1
  <2> HIDE DEF n
  <2>3. (n \div DefaultAlignment) * DefaultAlignment \in Nat
    BY <2>1, <2>2
  <2> QED
    BY <2>3 DEF payloadOffset, AlignUp, n
<1> QED
  BY <1>1 DEF Payload, payloadOf

\* A configuration's red zone is a natural number.
LEMMA ConfigFacts ==
  ASSUME HeapTypes
  PROVE  /\ m_config \in Config /\ m_config.redzone \in Nat /\ m_config.quarantineBytes \in Nat
         /\ payloadOffset(m_config.redzone) \in Nat
BY ConfigsAssumption, PayloadFacts DEF HeapTypes, Config

\* The pointers the program has or has given to a thread of the library.
LEMMA SlotFacts ==
  ASSUME HeapInv
  PROVE  /\ \A t \in Threads : pc[t] \in Holding => ptr[t][1] \in Slots
         /\ \A p \in owned : p[1] \in Slots
         /\ \A s \in Slots : header[s] \in Header /\ heap[s] \in Nat \union {NoChunk}
         /\ \A p \in owned : header[p[1]].magic # "freed"
         /\ \A t \in Threads : pc[t] \in Holding => header[ptr[t][1]].magic # "freed"
<1>1. \A s \in Slots : header[s] \in Header /\ heap[s] \in Nat \union {NoChunk}
  BY DEF HeapInv, HeapTypes
<1>2. \A p : Raw(p) => p[1] \in Slots /\ header[p[1]].magic = "none"
  BY DEF Raw
<1>3. \A p : Block(p) => p[1] \in Slots /\ header[p[1]].magic \in {"live", "smashed"}
  BY DEF Block, HeapInv, HeapTypes, Layout
<1>4. \A p \in owned : p[1] \in Slots /\ header[p[1]].magic # "freed"
  BY <1>2, <1>3 DEF HeapInv
<1>5. ASSUME NEW t \in Threads, pc[t] \in Holding
      PROVE  ptr[t][1] \in Slots /\ header[ptr[t][1]].magic # "freed"
  <2>1. PointerOK(t)
    BY DEF HeapInv
  <2> QED
    BY <1>2, <1>3, <1>5, <2>1 DEF PointerOK, Holding
<1> QED
  BY <1>1, <1>4, <1>5

\* A thread goes on with the pointer it has or gives it up, and the heap stays as it is.
LEMMA HeapKept ==
  ASSUME HeapInv, NEW t \in Threads,
         UNCHANGED <<heap, header, owned, dangling, badFree, m_config, m_list, m_live,
                     m_quarantine, m_liveBlocks>>,
         \A u \in Threads \ {t} : pc'[u] = pc[u] /\ ptr'[u] = ptr[u],
         ptr' \in [Threads -> Pointers], PointerOK(t)',
         pc'[t] \in Holding => pc[t] \in Holding /\ ptr'[t] = ptr[t],
         pc[t] \in {"lookup", "inspect", "unlink"} =>
           \/ pc'[t] \in {"lookup", "inspect", "unlink"} /\ ptr'[t] = ptr[t]
           \/ ~ (Block(ptr[t]) /\ header[ptr[t][1]].magic = "live"),
         pc[t] \in {"link", "release"} => pc'[t] = pc[t] /\ ptr'[t] = ptr[t],
         ~m_installed' \/ pc'[t] = "uninstall" => m_quarantine = <<>>
  PROVE  HeapInv'
<1>1. HeapTypes'
  BY DEF HeapInv, HeapTypes
<1>2. \A s : Payload(s)' = Payload(s)
  BY DEF Payload
<1>3. Layout'
  BY DEF HeapInv, Layout
<1>4. Linked'
  BY <1>2 DEF HeapInv, Linked
<1>5. Held'
  BY DEF HeapInv, Held
<1>6. Exclusive'
  BY DEF HeapInv, Exclusive
<1>7. \A p : (Raw(p)' <=> Raw(p)) /\ (Block(p)' <=> Block(p))
  BY <1>2 DEF Raw, Block
<1>8. Placed'
  <2>1. ASSUME NEW s \in Slots, s \in m_list, header[s].magic = "live"
        PROVE  \/ Payload(s) \in owned
               \/ \E u \in Threads : pc'[u] \in {"lookup", "inspect", "unlink"} /\ ptr'[u] = Payload(s)
    <3>1. CASE \E u \in Threads : pc[u] \in {"lookup", "inspect", "unlink"} /\ ptr[u] = Payload(s)
      <4>1. PICK u \in Threads : pc[u] \in {"lookup", "inspect", "unlink"} /\ ptr[u] = Payload(s)
        BY <3>1
      <4>2. Block(ptr[u]) /\ header[ptr[u][1]].magic = "live"
        BY <2>1, <4>1, PayloadFacts DEF Block, HeapInv, Linked
      <4> QED
        BY <4>1, <4>2
    <3> QED
      BY <2>1, <3>1 DEF HeapInv, Placed
  <2>2. ASSUME NEW s \in Slots, s \notin m_list, header[s].magic \in {"live", "smashed"}
        PROVE  \E u \in Threads : pc'[u] \in {"link", "release"} /\ ptr'[u] = Payload(s)
    <3>1. PICK u \in Threads : pc[u] \in {"link", "release"} /\ ptr[u] = Payload(s)
      BY <2>2 DEF HeapInv, Placed
    <3> QED
      BY <3>1
  <2> QED
    BY <1>2, <2>1, <2>2 DEF Placed
<1>9. \A u \in Threads : PointerOK(u)'
  <2>1. ASSUME NEW u \in Threads \ {t} PROVE PointerOK(u)'
    <3>1. PointerOK(u) /\ pc'[u] = pc[u] /\ ptr'[u] = ptr[u]
      BY DEF HeapInv
    <3> QED
      BY <1>2, <1>7, <3>1 DEF PointerOK
  <2> QED
    BY <2>1
<1>10. (\A p \in owned' : Raw(p)' \/ Block(p)') /\ HeapSafe'
  BY <1>7 DEF HeapInv, HeapSafe
<1> QED
  BY <1>1, <1>3, <1>4, <1>5, <1>6, <1>8, <1>9, <1>10 DEF HeapInv
\* A pointer is in the live set exactly when it is a block's.
LEMMA LiveMeansBlock ==
  ASSUME HeapInv, NEW p, Raw(p) \/ Block(p)
  PROVE  /\ p \in m_live <=> Block(p)
         /\ Raw(p) => ~Block(p) /\ ~Tracked(p)
         /\ Block(p) => headerOf(p) = header[p[1]] /\ Tracked(p)
<1>1. ASSUME p \in m_live PROVE Block(p)
  BY <1>1, PayloadFacts DEF HeapInv, Linked, Block
<1>2. ASSUME Block(p) PROVE headerOf(p) = header[p[1]] /\ Tracked(p) /\ ~Raw(p)
  <2>1. p[1] \in Slots /\ header[p[1]].magic # "none"
    BY <1>2 DEF HeapInv, HeapTypes, Layout, Block
  <2>2. header[p[1]].redzone = m_config.redzone /\ header[p[1]] # NoHeader
    BY <2>1 DEF HeapInv, Layout, NoHeader
  <2>3. p = Payload(p[1]) /\ p[2] = payloadOffset(m_config.redzone)
    BY <1>2, PayloadFacts DEF Block
  <2> QED
    BY <2>1, <2>2, <2>3 DEF headerOf, Tracked, Payload, Raw
<1>3. ASSUME Raw(p) PROVE ~Tracked(p)
  BY <1>3 DEF Raw, Tracked, HeapInv, Layout
<1> QED
  BY <1>1, <1>2, <1>3 DEF Block

\* The steps in which a thread finds out what it was given.
LEMMA LookupKeeps ==
  ASSUME HeapInv, NEW t \in Threads, pc \in [Threads -> Labels],
         Lookup(t) \/ PassThrough(t) \/ CountDoubleFree(t) \/ InspectRedzones(t)
  PROVE  HeapInv'
<1> USE DEF Goto, heapVars, slotVars, modeVars, blockVars
<1>0. ptr \in [Threads -> Pointers] /\ NoPointer \in Pointers /\ PointerOK(t)
  BY DEF HeapInv, HeapTypes, NoPointer, Pointers
<1>9. ~m_installed => m_quarantine = <<>>
  BY DEF HeapInv, Held
<1>1. CASE Lookup(t)
  <2>1. /\ pc[t] = "lookup" /\ UNCHANGED <<heapVars, modeVars, blockVars, ptr>>
        /\ pc' = [pc EXCEPT ![t] = IF ptr[t] \in m_live THEN "inspect" ELSE "notOurs"]
    BY <1>1 DEF Lookup
  <2>2. ptr[t] \in m_live <=> Block(ptr[t])
    BY <1>0, <2>1, LiveMeansBlock DEF PointerOK
  <2>3. PointerOK(t)'
    BY <1>0, <2>1, <2>2 DEF PointerOK, Raw, Block, Payload
  <2>9. pc'[t] \in Labels /\ \A u \in Threads \ {t} : pc'[u] = pc[u]
    BY <2>1 DEF Labels
  <2> QED
    BY <1>0, <1>9, <2>1, <2>2, <2>3, <2>9, HeapKept DEF Holding
<1>2. CASE PassThrough(t)
  <2>1. /\ pc[t] = "notOurs" /\ UNCHANGED <<heapVars, modeVars, blockVars, ptr>>
        /\ pc' = [pc EXCEPT ![t] = "rawFree"]
    BY <1>2 DEF PassThrough
  <2>2. PointerOK(t)'
    BY <1>0, <2>1 DEF PointerOK, Raw, Block, Payload
  <2>9. pc'[t] \in Labels /\ \A u \in Threads \ {t} : pc'[u] = pc[u]
    BY <2>1 DEF Labels
  <2> QED
    BY <1>0, <1>9, <2>1, <2>2, <2>9, HeapKept DEF Holding
<1>3. CASE CountDoubleFree(t)
  <2>1. /\ pc[t] = "notOurs"
        /\ UNCHANGED <<heapVars, modeVars, m_list, m_live, m_quarantine, m_liveBlocks>>
        /\ pc' = [pc EXCEPT ![t] = "idle"] /\ ptr' = [ptr EXCEPT ![t] = NoPointer]
    BY <1>3 DEF CountDoubleFree
  <2>2. PointerOK(t)'
    BY <2>1 DEF PointerOK
  <2>3. ptr' \in [Threads -> Pointers] /\ \A u \in Threads \ {t} : ptr'[u] = ptr[u]
    BY <1>0, <2>1
  <2>9. pc'[t] \in Labels /\ \A u \in Threads \ {t} : pc'[u] = pc[u]
    BY <2>1 DEF Labels
  <2> QED
    BY <1>9, <2>1, <2>2, <2>3, <2>9, HeapKept DEF Holding
<1>4. CASE InspectRedzones(t)
  <2>1. /\ pc[t] = "inspect" /\ headerOf(ptr[t]).magic = "live"
        /\ UNCHANGED <<heapVars, modeVars, m_list, m_live, m_quarantine, m_liveBlocks, ptr>>
        /\ pc' = [pc EXCEPT ![t] = "unlink"]
    BY <1>4 DEF InspectRedzones
  <2>2. Block(ptr[t]) /\ header[ptr[t][1]].magic = "live"
    BY <1>0, <2>1, LiveMeansBlock DEF PointerOK
  <2>3. PointerOK(t)'
    BY <1>0, <2>1, <2>2 DEF PointerOK, Raw, Block, Payload
  <2>9. pc'[t] \in Labels /\ \A u \in Threads \ {t} : pc'[u] = pc[u]
    BY <2>1 DEF Labels
  <2> QED
    BY <1>0, <1>9, <2>1, <2>2, <2>3, <2>9, HeapKept DEF Holding
<1> QED
  BY <1>1, <1>2, <1>3, <1>4

\* The steps of threads that hold no pointer before or after.
LEMMA EmptyHandedKeeps ==
  ASSUME HeapInv, NEW t \in Threads, pc \in [Threads -> Labels],
         UNCHANGED <<heap, header, owned, dangling, badFree, m_config, m_list, m_live,
                     m_quarantine, m_liveBlocks, ptr>>,
         pc' = pc \/ (pc[t] \notin Holding /\ \E l \in Labels \ Holding : pc' = [pc EXCEPT ![t] = l]),
         ~m_installed' \/ pc'[t] = "uninstall" => m_quarantine = <<>>
  PROVE  HeapInv'
<1>1. ptr \in [Threads -> Pointers] /\ PointerOK(t)
  BY DEF HeapInv, HeapTypes
<1>2. CASE pc' = pc
  <2>1. PointerOK(t)'
    BY <1>1, <1>2 DEF PointerOK, Raw, Block, Payload
  <2> QED
    BY <1>1, <1>2, <2>1, HeapKept
<1>3. CASE pc[t] \notin Holding /\ \E l \in Labels \ Holding : pc' = [pc EXCEPT ![t] = l]
  <2>1. pc'[t] \notin Holding /\ pc[t] \notin Holding /\ \A u \in Threads \ {t} : pc'[u] = pc[u]
    BY <1>3
  <2>2. PointerOK(t)'
    BY <2>1 DEF PointerOK, Holding
  <2> QED
    BY <1>1, <2>1, <2>2, HeapKept DEF Holding
<1> QED
  BY <1>2, <1>3
-----------------------------------------------------------------------------
(* Chunks of the system allocator. *)

\* Nobody has to do with a slot that holds no chunk.
LEMMA FreeSlot ==
  ASSUME HeapInv, NEW s \in Slots, heap[s] = NoChunk
  PROVE  /\ header[s].magic = "none" /\ header[s] = NoHeader
         /\ s \notin m_list /\ s \notin Range(m_quarantine)
         /\ \A p \in owned : p[1] # s
         /\ \A t \in Threads : pc[t] \in Holding => ptr[t][1] # s
<1>1. NoChunk # 0 /\ NoChunk \notin Nat
  BY DEF NoChunk
<1>2. header[s].magic = "none"
  BY <1>1 DEF HeapInv, Layout
<1>3. \A p : Raw(p) /\ p[1] = s => p[2] = NoChunk
  BY DEF Raw
<1>4. \A p : Block(p) => p[1] # s
  BY <1>2 DEF Block, HeapInv, HeapTypes, Layout
<1>5. \A p \in owned : p[2] \in Nat
  BY DEF HeapInv, HeapTypes
<1>6. \A p \in owned : p[1] # s
  BY <1>1, <1>3, <1>4, <1>5 DEF HeapInv
<1>7. ASSUME NEW t \in Threads, pc[t] \in Holding PROVE ptr[t][1] # s
  <2>1. PointerOK(t) /\ ptr[t][2] \in Nat
    BY DEF HeapInv, HeapTypes, Pointers
  <2> QED
    BY <1>1, <1>2, <1>3, <1>4, <1>7, <2>1 DEF PointerOK, Holding
<1> QED
  BY <1>2, <1>6, <1>7 DEF HeapInv, Layout

\* Two pointers the program owns are in different slots.
LEMMA OwnedApart ==
  ASSUME HeapInv, NEW p \in owned, NEW q \in owned, p[1] = q[1]
  PROVE  p = q
<1>1. (Raw(p) \/ Block(p)) /\ (Raw(q) \/ Block(q))
  BY DEF HeapInv
<1>2. Block(p) => header[p[1]].magic # "none"
  BY DEF Block, HeapInv, HeapTypes, Layout
<1>3. Block(q) => header[q[1]].magic # "none"
  BY DEF Block, HeapInv, HeapTypes, Layout
<1>4. CASE Raw(p) /\ Raw(q)
  BY <1>4 DEF Raw
<1>5. CASE Block(p) /\ Block(q)
  BY <1>5 DEF Block
<1> QED
  BY <1>1, <1>2, <1>3, <1>4, <1>5 DEF Raw

\* What a pointer is depends on its own slot.
LEMMA PointerKept ==
  ASSUME m_config' = m_config, NEW p,
         heap'[p[1]] = heap[p[1]], header'[p[1]].magic = header[p[1]].magic,
         p[1] \in m_list' <=> p[1] \in m_list, p \in m_live' <=> p \in m_live
  PROVE  (Raw(p)' <=> Raw(p)) /\ (Block(p)' <=> Block(p))
BY DEF Raw, Block, Payload

\* And so does what a thread knows.
LEMMA ThreadKept ==
  ASSUME HeapInv, m_config' = m_config, NEW u \in Threads, pc'[u] = pc[u], ptr'[u] = ptr[u],
         pc[u] \in Holding =>
           /\ heap'[ptr[u][1]] = heap[ptr[u][1]]
           /\ header'[ptr[u][1]].magic = header[ptr[u][1]].magic
           /\ ptr[u][1] \in m_list' <=> ptr[u][1] \in m_list
           /\ ptr[u] \in m_live' <=> ptr[u] \in m_live
  PROVE  PointerOK(u)'
<1>1. PointerOK(u)
  BY DEF HeapInv
<1>2. \A s : Payload(s)' = Payload(s)
  BY DEF Payload
<1>3. CASE pc[u] \notin Holding
  BY <1>3 DEF PointerOK, Holding
<1>4. CASE pc[u] \in Holding
  <2>1. (Raw(ptr[u])' <=> Raw(ptr[u])) /\ (Block(ptr[u])' <=> Block(ptr[u]))
    BY <1>4 DEF Raw, Block, Payload
  <2> QED
    BY <1>1, <1>2, <1>4, <2>1 DEF PointerOK
<1> QED
  BY <1>3, <1>4

\* Chunks come and go in slots of C, which hold no block.
LEMMA RawKept ==
  ASSUME HeapInv, NEW t \in Threads, NEW C \in SUBSET Slots,
         UNCHANGED <<header, dangling, m_config, m_list, m_live, m_quarantine, m_liveBlocks>>,
         HeapSafe',
         heap' \in [Slots -> Nat \union {NoChunk}], \A s \in Slots \ C : heap'[s] = heap[s],
         \A s \in C : /\ header[s].magic = "none"
                      /\ \A u \in Threads \ {t} : pc[u] \in Holding => ptr[u][1] # s,
         owned' \subseteq Slots \X Nat,
         \A p \in owned' : IF p[1] \in C THEN Raw(p)' ELSE p \in owned,
         \A p \in owned : p[1] \notin C => p \in owned',
         \A u \in Threads \ {t} : pc'[u] = pc[u] /\ ptr'[u] = ptr[u],
         ptr' \in [Threads -> Pointers],
         pc'[t] \notin Holding, pc[t] \in Holding => ptr[t][1] \in C,
         ~m_installed' \/ pc'[t] = "uninstall" => m_quarantine = <<>>
  PROVE  HeapInv'
<1>1. HeapTypes'
  BY DEF HeapInv, HeapTypes
<1>2. \A s : Payload(s)' = Payload(s)
  BY DEF Payload
<1>3. Layout'
  BY DEF HeapInv, Layout
<1>4. Linked'
  BY <1>2 DEF HeapInv, Linked
<1>5. Held'
  BY DEF HeapInv, Held
<1>6. Exclusive'
  BY DEF HeapInv, Exclusive
<1>7. Placed'
  <2>1. ASSUME NEW s \in Slots, s \in m_list, header[s].magic = "live"
        PROVE  \/ Payload(s) \in owned'
               \/ \E u \in Threads : pc'[u] \in {"lookup", "inspect", "unlink"} /\ ptr'[u] = Payload(s)
    <3>1. s \notin C /\ Payload(s)[1] = s
      BY <2>1, PayloadFacts
    <3>2. CASE Payload(s) \in owned
      BY <3>1, <3>2
    <3>3. CASE \E u \in Threads : pc[u] \in {"lookup", "inspect", "unlink"} /\ ptr[u] = Payload(s)
      BY <3>1, <3>3 DEF Holding
    <3> QED
      BY <2>1, <3>2, <3>3 DEF HeapInv, Placed
  <2>2. ASSUME NEW s \in Slots, s \notin m_list, header[s].magic \in {"live", "smashed"}
        PROVE  \E u \in Threads : pc'[u] \in {"link", "release"} /\ ptr'[u] = Payload(s)
    <3>1. PICK u \in Threads : pc[u] \in {"link", "release"} /\ ptr[u] = Payload(s)
      BY <2>2 DEF HeapInv, Placed
    <3>2. s \notin C /\ Payload(s)[1] = s
      BY <2>2, PayloadFacts
    <3> QED
      BY <3>1, <3>2 DEF Holding
  <2> QED
    BY <1>2, <2>1, <2>2 DEF Placed
<1>8. ASSUME NEW u \in Threads PROVE PointerOK(u)'
  <2>1. CASE u = t
    BY <2>1 DEF PointerOK, Holding
  <2>2. CASE u # t
    <3>1. pc[u] \in Holding => heap'[ptr[u][1]] = heap[ptr[u][1]]
      BY <2>2, SlotFacts
    <3> QED
      BY <2>2, <3>1, ThreadKept
  <2> QED
    BY <2>1, <2>2
<1>9. ASSUME NEW p \in owned' PROVE Raw(p)' \/ Block(p)'
  <2>1. CASE p[1] \in C
    BY <2>1
  <2>2. CASE p[1] \notin C
    <3>1. p \in owned /\ (Raw(p) \/ Block(p)) /\ p[1] \in Slots
      BY <2>2, SlotFacts DEF HeapInv
    <3>2. heap'[p[1]] = heap[p[1]]
      BY <2>2, <3>1
    <3> QED
      BY <3>1, <3>2, PointerKept
  <2> QED
    BY <2>1, <2>2
<1> QED
  BY <1>1, <1>3, <1>4, <1>5, <1>6, <1>7, <1>8, <1>9 DEF HeapInv, HeapSafe
\* The system allocator places a chunk.
LEMMA RawAllocateKeeps ==
  ASSUME HeapInv, NEW t \in Threads, pc \in [Threads -> Labels], RawAllocate(t)
  PROVE  HeapInv'
<1> USE DEF Goto, slotVars, modeVars, blockVars
<1>1. PICK s \in Slots, o \in SystemOffsets :
        /\ heap[s] = NoChunk
        /\ heap' = [heap EXCEPT ![s] = o]
        /\ owned' = owned \union {<<s, o>>}
        /\ dangling' = dangling \ {<<s, o>>}
  BY DEF RawAllocate
<1>2. /\ pc[t] = "rawAllocate" /\ pc' = [pc EXCEPT ![t] = "idle"]
      /\ UNCHANGED <<header, badFree, modeVars, blockVars, ptr>>
  BY DEF RawAllocate
<1>3. /\ heap \in [Slots -> Nat \union {NoChunk}] /\ dangling = {} /\ o \in Nat
      /\ ptr \in [Threads -> Pointers] /\ owned \subseteq Slots \X Nat
      /\ ~m_installed => m_quarantine = <<>>
  BY LayoutAssumption DEF HeapInv, HeapTypes, Held
<1>4. /\ heap' \in [Slots -> Nat \union {NoChunk}] /\ heap'[s] = o /\ dangling' = dangling
      /\ \A r \in Slots \ {s} : heap'[r] = heap[r]
  BY <1>1, <1>3
<1>5. /\ header[s].magic = "none" /\ \A p \in owned : p[1] # s
      /\ \A u \in Threads : pc[u] \in Holding => ptr[u][1] # s
  BY <1>1, FreeSlot
<1>6. Raw(<<s, o>>)'
  BY <1>2, <1>4, <1>5 DEF Raw
<1>7. \A p \in owned' : IF p[1] \in {s} THEN Raw(p)' ELSE p \in owned
  BY <1>1, <1>5, <1>6
<1>8. /\ pc'[t] = "idle" /\ \A u \in Threads \ {t} : pc'[u] = pc[u]
      /\ owned' \subseteq Slots \X Nat /\ {s} \in SUBSET Slots
      /\ pc'[t] \notin Holding /\ pc[t] \notin Holding
  BY <1>1, <1>2, <1>3 DEF Holding
<1>9. UNCHANGED <<header, dangling, m_config, m_list, m_live, m_quarantine, m_liveBlocks>>
  BY <1>2, <1>4
<1>10. HeapSafe' /\ (~m_installed' \/ pc'[t] = "uninstall" => m_quarantine = <<>>)
  BY <1>2, <1>3, <1>8 DEF HeapInv, HeapSafe
<1>11. /\ \A r \in {s} : /\ header[r].magic = "none"
                         /\ \A u \in Threads \ {t} : pc[u] \in Holding => ptr[u][1] # r
       /\ \A p \in owned : p[1] \notin {s} => p \in owned'
       /\ \A u \in Threads \ {t} : pc'[u] = pc[u] /\ ptr'[u] = ptr[u]
       /\ ptr' \in [Threads -> Pointers]
  BY <1>1, <1>2, <1>3, <1>5, <1>8
<1> QED
  BY <1>4, <1>7, <1>8, <1>9, <1>10, <1>11, RawKept

\* It is handed back a chunk of its own, and nobody else holds it.
LEMMA RawFreeKeeps ==
  ASSUME HeapInv, NEW t \in Threads, pc \in [Threads -> Labels], RawFree(t)
  PROVE  HeapInv'
<1> USE DEF Goto, slotVars, modeVars, blockVars
<1> DEFINE s == ptr[t][1]
<1>1. /\ pc[t] = "rawFree" /\ pc' = [pc EXCEPT ![t] = "idle"]
      /\ ptr' = [ptr EXCEPT ![t] = NoPointer]
      /\ UNCHANGED <<owned, dangling, modeVars, blockVars>>
      /\ heap' = IF heap[s] = ptr[t][2] THEN [heap EXCEPT ![s] = NoChunk] ELSE heap
      /\ header' = IF heap[s] = ptr[t][2] THEN [header EXCEPT ![s] = NoHeader] ELSE header
      /\ badFree' = (badFree \/ ~(heap[s] = ptr[t][2]))
  BY DEF RawFree
<1>2. /\ s \in Slots /\ header[s].magic = "none" /\ heap[s] = ptr[t][2] /\ header[s] = NoHeader
  <2>1. Raw(ptr[t])
    BY <1>1 DEF HeapInv, PointerOK
  <2> QED
    BY <2>1 DEF Raw, HeapInv, Layout
<1>3. /\ heap \in [Slots -> Nat \union {NoChunk}] /\ header \in [Slots -> Header]
      /\ ptr \in [Threads -> Pointers] /\ NoPointer \in Pointers /\ owned \subseteq Slots \X Nat
      /\ ~m_installed => m_quarantine = <<>>
  BY DEF HeapInv, HeapTypes, Held, NoPointer, Pointers
<1>4. header' = header
  <2>1. header' = [header EXCEPT ![s] = NoHeader]
    BY <1>1, <1>2
  <2> HIDE DEF s
  <2> QED
    BY <1>2, <1>3, <2>1
<1>5. /\ heap' \in [Slots -> Nat \union {NoChunk}] /\ HeapSafe'
      /\ \A r \in Slots \ {s} : heap'[r] = heap[r]
  <2>1. heap' = [heap EXCEPT ![s] = NoChunk]
    BY <1>1, <1>2
  <2>2. HeapSafe'
    BY <1>1, <1>2 DEF HeapInv, HeapSafe
  <2> HIDE DEF s
  <2> QED
    BY <1>2, <1>3, <2>1, <2>2
<1>6. /\ \A p \in owned : p[1] # s
      /\ \A u \in Threads \ {t} : pc[u] \in Holding => ptr[u][1] # s
  BY <1>1 DEF HeapInv, Exclusive, Holding
<1>7. /\ pc'[t] = "idle" /\ \A u \in Threads \ {t} : pc'[u] = pc[u] /\ ptr'[u] = ptr[u]
      /\ ptr' \in [Threads -> Pointers] /\ {s} \in SUBSET Slots
      /\ pc'[t] \notin Holding
  BY <1>1, <1>2, <1>3 DEF Holding
<1> HIDE DEF s
<1>8. /\ \A p \in owned' : IF p[1] \in {s} THEN Raw(p)' ELSE p \in owned
      /\ pc[t] \in Holding => ptr[t][1] \in {s}
      /\ owned' \subseteq Slots \X Nat
  BY <1>1, <1>3, <1>6 DEF s
<1>9. UNCHANGED <<header, dangling, m_config, m_list, m_live, m_quarantine, m_liveBlocks>>
  BY <1>1, <1>4
<1>10. ~m_installed' \/ pc'[t] = "uninstall" => m_quarantine = <<>>
  BY <1>1, <1>3, <1>7
<1>11. /\ \A r \in {s} : /\ header[r].magic = "none"
                         /\ \A u \in Threads \ {t} : pc[u] \in Holding => ptr[u][1] # r
       /\ \A p \in owned : p[1] \notin {s} => p \in owned'
       /\ \A r \in Slots \ {s} : heap'[r] = heap[r]
  BY <1>1, <1>2, <1>5, <1>6
<1> QED
  BY <1>5, <1>7, <1>8, <1>9, <1>10, <1>11, RawKept

\* realloc by the system moves a chunk of its own: a block would be grown by hand.
LEMMA ReallocateKeeps ==
  ASSUME Discipline, HookInv, HeapInv, NEW t \in Threads, Reallocate(t)
  PROVE  HeapInv'
<1> USE DEF slotVars, modeVars, blockVars
<1>1. PICK p \in owned :
        /\ MayReallocate(p) /\ ~trackedSize(p)
        /\ IF heap[p[1]] = p[2]
           THEN \E s \in Slots, o \in SystemOffsets :
                  /\ s = p[1] \/ heap[s] = NoChunk
                  /\ heap' = [heap EXCEPT ![p[1]] = NoChunk, ![s] = o]
                  /\ header' = [header EXCEPT ![p[1]] = NoHeader]
                  /\ owned' = (owned \ {p}) \union {<<s, o>>}
                  /\ dangling' = dangling \ {<<s, o>>}
                  /\ UNCHANGED badFree
           ELSE /\ badFree' = TRUE
                /\ UNCHANGED <<heap, header, owned, dangling>>
  BY DEF Reallocate
<1>2. pc[t] = "idle" /\ UNCHANGED <<modeVars, blockVars, pc, ptr>>
  BY DEF Reallocate, MayStart
<1>3. Raw(p)
  <2>1. SUFFICES ASSUME Block(p) PROVE FALSE
    BY DEF HeapInv
  <2>2. Tracked(p) /\ headerOf(p) = header[p[1]] /\ p \in m_live
    BY <2>1, LiveMeansBlock
  <2>3. headerOf(p).magic = "live"
    BY <1>1, <2>2 DEF Discipline, AllAssumes, MayReallocate
  <2>4. m_installed
    BY <2>2 DEF HookInv, OutMeansEmpty, HookTypeOK
  <2> QED
    BY <1>1, <2>2, <2>3, <2>4 DEF trackedSize
<1>4. PICK s \in Slots, o \in SystemOffsets :
        /\ s = p[1] \/ heap[s] = NoChunk
        /\ heap' = [heap EXCEPT ![p[1]] = NoChunk, ![s] = o]
        /\ header' = [header EXCEPT ![p[1]] = NoHeader]
        /\ owned' = (owned \ {p}) \union {<<s, o>>}
        /\ dangling' = dangling \ {<<s, o>>}
        /\ UNCHANGED badFree
  BY <1>1, <1>3 DEF Raw
<1>5. /\ heap \in [Slots -> Nat \union {NoChunk}] /\ header \in [Slots -> Header] /\ dangling = {}
      /\ o \in Nat /\ ptr \in [Threads -> Pointers] /\ owned \subseteq Slots \X Nat
      /\ ~m_installed => m_quarantine = <<>>
      /\ p[1] \in Slots /\ header[p[1]].magic = "none" /\ header[p[1]] = NoHeader
  BY <1>3, LayoutAssumption DEF HeapInv, HeapTypes, Held, Raw, Layout
<1>6. header' = header /\ dangling' = dangling
  BY <1>4, <1>5
<1> DEFINE C == {p[1], s}
<1>7. /\ heap' \in [Slots -> Nat \union {NoChunk}] /\ heap'[s] = o
      /\ \A r \in Slots \ C : heap'[r] = heap[r]
  BY <1>4, <1>5
<1>8. /\ header[s].magic = "none"
      /\ \A q \in owned \ {p} : q[1] \notin C
      /\ \A u \in Threads : pc[u] \in Holding => ptr[u][1] \notin C
  <2>1. /\ \A q \in owned \ {p} : q[1] # p[1]
        /\ \A u \in Threads : pc[u] \in Holding => ptr[u][1] # p[1]
    BY OwnedApart DEF HeapInv, Exclusive
  <2>2. CASE s = p[1]
    BY <1>5, <2>1, <2>2
  <2>3. CASE heap[s] = NoChunk
    BY <2>1, <2>3, FreeSlot
  <2> QED
    BY <1>4, <2>2, <2>3
<1>9. Raw(<<s, o>>)'
  BY <1>6, <1>7, <1>8 DEF Raw
<1>10. /\ \A q \in owned' : IF q[1] \in C THEN Raw(q)' ELSE q \in owned
       /\ \A q \in owned : q[1] \notin C => q \in owned'
       /\ owned' \subseteq Slots \X Nat /\ C \in SUBSET Slots
  BY <1>4, <1>5, <1>8, <1>9
<1>11. pc'[t] \notin Holding /\ pc[t] \notin Holding /\ pc'[t] # "uninstall"
  BY <1>2 DEF Holding
<1>12. \A r \in C : header[r].magic = "none"
  BY <1>5, <1>8
<1>13. UNCHANGED <<header, dangling, m_config, m_list, m_live, m_quarantine, m_liveBlocks>>
  BY <1>2, <1>6
<1>14. HeapSafe' /\ (~m_installed' \/ pc'[t] = "uninstall" => m_quarantine = <<>>)
  BY <1>2, <1>4, <1>5, <1>11 DEF HeapInv, HeapSafe
<1>15. /\ \A r \in C : /\ header[r].magic = "none"
                       /\ \A u \in Threads \ {t} : pc[u] \in Holding => ptr[u][1] # r
       /\ \A u \in Threads \ {t} : pc'[u] = pc[u] /\ ptr'[u] = ptr[u]
       /\ ptr' \in [Threads -> Pointers]
  BY <1>2, <1>5, <1>8, <1>12
<1> HIDE DEF C
<1> QED
  BY <1>7, <1>10, <1>11, <1>13, <1>14, <1>15, RawKept
-----------------------------------------------------------------------------
(* Steps that touch some slots. *)

\* What the invariant says of one slot.
SlotInv(s) ==
  /\ header[s].magic = "none" => header[s] = NoHeader
  /\ header[s].magic # "none" => /\ heap[s] = 0
                                 /\ header[s].redzone = m_config.redzone
                                 /\ header[s].size \in Sizes
  /\ s \in m_list => header[s].magic \in {"live", "smashed"}
  /\ header[s].magic = "freed" <=> s \in Range(m_quarantine)
  /\ \A p \in m_live : p[1] = s => s \in m_list /\ p = Payload(s)
  /\ s \in m_list /\ header[s].magic = "live" => Payload(s) \in m_live
  /\ \A p \in owned : p[1] = s => Raw(p) \/ Block(p)
  /\ s \in m_list /\ header[s].magic = "live" =>
         \/ Payload(s) \in owned
         \/ \E t \in Threads : pc[t] \in {"lookup", "inspect", "unlink"} /\ ptr[t] = Payload(s)
  /\ s \notin m_list /\ header[s].magic \in {"live", "smashed"} =>
         \E t \in Threads : pc[t] \in {"link", "release"} /\ ptr[t] = Payload(s)

\* It holds of every slot, and nothing more is said of slots.
LEMMA SlotInvHolds ==
  ASSUME HeapInv, NEW s \in Slots
  PROVE  SlotInv(s)
<1>1. \A p \in m_live : p[1] = s => s \in m_list /\ p = Payload(s)
  BY PayloadFacts DEF HeapInv, Linked
<1> QED
  BY <1>1 DEF HeapInv, SlotInv, Layout, Linked, Placed

\* What happens happens in the slots of C, and thread t is the only one to have
\* to do with them.
Untouched(t, C) ==
  /\ \A s \in Slots \ C : /\ heap'[s] = heap[s] /\ header'[s] = header[s]
                          /\ s \in m_list' <=> s \in m_list
                          /\ s \in Range(m_quarantine') <=> s \in Range(m_quarantine)
  /\ \A p : p[1] \notin C => /\ p \in m_live' <=> p \in m_live
                             /\ p \in owned' <=> p \in owned
  /\ \A u \in Threads \ {t} : /\ pc'[u] = pc[u] /\ ptr'[u] = ptr[u]
                              /\ pc[u] \in Holding => ptr[u][1] \notin C
  /\ pc[t] \in Holding => ptr[t][1] \in C
  /\ pc'[t] \in Holding => ptr'[t][1] \in C /\ \A p \in owned' : p[1] # ptr'[t][1]

\* One thread changes the slots of C, which no other thread has to do with.
LEMMA SlotsKept ==
  ASSUME HeapInv, NEW t \in Threads, NEW C \in SUBSET Slots, m_config' = m_config,
         HeapTypes', HeapSafe', Held',
         IsFiniteSet(m_list'), m_liveBlocks' = Cardinality(m_list'),
         Untouched(t, C), PointerOK(t)', \A s \in C : SlotInv(s)'
  PROVE  HeapInv'
<1> USE DEF Untouched
<1>1. /\ \A s : Payload(s)' = Payload(s)
      /\ \A s : Payload(s)[1] = s
  BY PayloadFacts DEF Payload
<1>2. \A p : p[1] \in Slots \ C => (Raw(p)' <=> Raw(p)) /\ (Block(p)' <=> Block(p))
  BY PointerKept
<1>3. ASSUME NEW s \in Slots PROVE SlotInv(s)'
  <2>1. CASE s \in C
    BY <2>1
  <2>2. CASE s \notin C
    <3>1. SlotInv(s)
      BY SlotInvHolds
    <3>2. \A u \in Threads : pc[u] \in Holding /\ ptr[u][1] = s => pc'[u] = pc[u] /\ ptr'[u] = ptr[u]
      BY <2>2
    <3>3. /\ \A p \in m_live' : p[1] = s => s \in m_list' /\ p = Payload(s)'
          /\ s \in m_list' /\ header'[s].magic = "live" => Payload(s)' \in m_live'
      BY <1>1, <2>2, <3>1 DEF SlotInv
    <3>4. \A p \in owned' : p[1] = s => Raw(p)' \/ Block(p)'
      BY <1>2, <2>2, <3>1 DEF SlotInv
    <3>5. s \in m_list' /\ header'[s].magic = "live" =>
             \/ Payload(s)' \in owned'
             \/ \E u \in Threads : pc'[u] \in {"lookup", "inspect", "unlink"} /\ ptr'[u] = Payload(s)'
      <4>1. SUFFICES ASSUME s \in m_list, header[s].magic = "live", Payload(s) \notin owned
                     PROVE  \E u \in Threads : pc'[u] \in {"lookup", "inspect", "unlink"} /\ ptr'[u] = Payload(s)
        BY <1>1, <2>2
      <4>2. PICK u \in Threads : pc[u] \in {"lookup", "inspect", "unlink"} /\ ptr[u] = Payload(s)
        BY <3>1, <4>1 DEF SlotInv
      <4> QED
        BY <1>1, <3>2, <4>2 DEF Holding
    <3>6. s \notin m_list' /\ header'[s].magic \in {"live", "smashed"} =>
             \E u \in Threads : pc'[u] \in {"link", "release"} /\ ptr'[u] = Payload(s)'
      <4>1. SUFFICES ASSUME s \notin m_list, header[s].magic \in {"live", "smashed"}
                     PROVE  \E u \in Threads : pc'[u] \in {"link", "release"} /\ ptr'[u] = Payload(s)
        BY <1>1, <2>2
      <4>2. PICK u \in Threads : pc[u] \in {"link", "release"} /\ ptr[u] = Payload(s)
        BY <3>1, <4>1 DEF SlotInv
      <4> QED
        BY <1>1, <3>2, <4>2 DEF Holding
    <3>7. /\ header'[s].magic = "none" => header'[s] = NoHeader
          /\ header'[s].magic # "none" => /\ heap'[s] = 0
                                          /\ header'[s].redzone = m_config'.redzone
                                          /\ header'[s].size \in Sizes
          /\ s \in m_list' => header'[s].magic \in {"live", "smashed"}
          /\ header'[s].magic = "freed" <=> s \in Range(m_quarantine')
      BY <2>2, <3>1 DEF SlotInv
    <3> QED
      BY <3>3, <3>4, <3>5, <3>6, <3>7 DEF SlotInv
  <2> QED
    BY <2>1, <2>2
<1>4. Layout'
  BY <1>3 DEF Layout, SlotInv
<1>5. Placed'
  BY <1>3 DEF Placed, SlotInv
<1>6. \A p \in owned' : Raw(p)' \/ Block(p)'
  BY <1>3 DEF SlotInv, HeapTypes
<1>7. Linked'
  <2>1. ASSUME NEW p \in m_live' PROVE p[1] \in m_list' /\ p = Payload(p[1])'
    <3>1. p[1] \in Slots
      BY <1>1 DEF HeapInv, HeapTypes, Linked
    <3> QED
      BY <1>3, <3>1 DEF SlotInv
  <2>2. m_live' \subseteq {Payload(s)' : s \in m_list'}
    BY <2>1
  <2>3. \A s \in m_list' : header'[s].magic = "live" => Payload(s)' \in m_live'
    BY <1>3 DEF SlotInv, HeapTypes
  <2> QED
    BY <2>2, <2>3 DEF Linked
<1>8. ASSUME NEW u \in Threads PROVE PointerOK(u)'
  <2>1. CASE u # t
    <3>1. pc[u] \in Holding =>
            /\ heap'[ptr[u][1]] = heap[ptr[u][1]]
            /\ header'[ptr[u][1]] = header[ptr[u][1]]
            /\ ptr[u][1] \in m_list' <=> ptr[u][1] \in m_list
            /\ ptr[u] \in m_live' <=> ptr[u] \in m_live
      BY <2>1, SlotFacts
    <3> QED
      BY <2>1, <3>1, ThreadKept
  <2> QED
    BY <2>1
<1>9. Exclusive'
  <2>1. ASSUME NEW u \in Threads, pc'[u] \in Holding, NEW p \in owned' PROVE p[1] # ptr'[u][1]
    <3>1. CASE u = t
      BY <2>1, <3>1
    <3>2. CASE u # t
      BY <2>1, <3>2 DEF HeapInv, Exclusive
    <3> QED
      BY <3>1, <3>2
  <2>2. ASSUME NEW u \in Threads, pc'[u] \in Holding, NEW v \in Threads \ {u}, pc'[v] \in Holding
        PROVE  ptr'[v][1] # ptr'[u][1]
    <3>1. CASE u # t /\ v # t
      BY <2>2, <3>1 DEF HeapInv, Exclusive
    <3> QED
      BY <2>2, <3>1
  <2> QED
    BY <2>1, <2>2 DEF Exclusive
<1> QED
  BY <1>4, <1>5, <1>6, <1>7, <1>8, <1>9 DEF HeapInv
\* A free that finds the system allocator's own function is of a chunk of its own.
LEMMA LoadDeallocateKeeps ==
  ASSUME Discipline, HookInv, HeapInv, NEW t \in Threads, LoadDeallocate(t)
  PROVE  HeapInv'
<1> USE DEF slotVars, modeVars, blockVars, Goto
<1>1. PICK p \in owned :
        /\ MayFree(t, p)
        /\ ptr' = [ptr EXCEPT ![t] = p]
        /\ IF bypass[t] \/ deallocateSlot = "system"
           THEN pc' = [pc EXCEPT ![t] = "rawFree"]
           ELSE pc' = [pc EXCEPT ![t] = "lookup"]
        /\ owned' = owned \ {p}
        /\ dangling' = dangling
  BY DEF LoadDeallocate, Dispatch, Discipline
<1>2. pc[t] = "idle" /\ UNCHANGED <<heap, header, badFree, modeVars, blockVars>>
  BY DEF LoadDeallocate, MayStart
<1>3. /\ HeapTypes /\ Layout /\ Linked /\ Held /\ HeapSafe /\ pc \in [Threads -> Labels]
      /\ ptr \in [Threads -> Pointers] /\ owned \subseteq Slots \X Nat /\ p \in Pointers
  BY DEF HeapInv, HeapTypes, HookInv, HookTypeOK, Pointers
<1>4. ASSUME bypass[t] \/ deallocateSlot = "system" PROVE Raw(p)
  <2>1. SUFFICES ASSUME Block(p) PROVE FALSE
    BY DEF HeapInv
  <2>2. Tracked(p) /\ m_live # {}
    BY <2>1, LiveMeansBlock
  <2>3. m_installed /\ deallocateSlot = "system"
    BY <1>1, <1>4, <2>2 DEF Discipline, AllAssumes, MayFree, HookInv, OutMeansEmpty
  <2> QED
    BY <2>3 DEF HookInv, SlotsAgree, HookTypeOK
<1>5. /\ pc'[t] \in {"rawFree", "lookup"} /\ ptr'[t] = p
      /\ pc'[t] = "rawFree" => Raw(p)
      /\ ptr' \in [Threads -> Pointers]
      /\ \A u \in Threads \ {t} : pc'[u] = pc[u] /\ ptr'[u] = ptr[u]
  BY <1>1, <1>3, <1>4
<1>6. (Raw(p)' <=> Raw(p)) /\ (Block(p)' <=> Block(p)) /\ (Raw(p) \/ Block(p)) /\ p[1] \in Slots
  BY <1>2, <1>3, PointerKept, SlotFacts DEF HeapInv
<1>7. PointerOK(t)'
  BY <1>5, <1>6 DEF PointerOK
<1> DEFINE s == p[1]
<1>8. \A q \in owned' : q[1] # s
  BY <1>1, OwnedApart
<1>9. SlotInv(s)'
  <2>1. SlotInv(s)
    BY <1>6, SlotInvHolds
  <2>2. s \in m_list => pc'[t] = "lookup" /\ ptr'[t] = Payload(s)
    BY <1>3, <1>5, <1>6 DEF Layout, Raw, Block
  <2>3. \A r : Payload(r)' = Payload(r)
    BY <1>2 DEF Payload
  <2>4. s \notin m_list /\ header[s].magic \in {"live", "smashed"} => FALSE
    BY <1>6 DEF Raw, Block
  <2> HIDE DEF s
  <2> QED
    BY <1>2, <1>8, <2>1, <2>2, <2>3, <2>4 DEF SlotInv
<1>10. /\ HeapTypes' /\ Held' /\ HeapSafe' /\ m_config' = m_config
       /\ IsFiniteSet(m_list') /\ m_liveBlocks' = Cardinality(m_list')
  <2>1. HeapTypes' /\ HeapSafe'
    BY <1>1, <1>2, <1>3, <1>5 DEF HeapTypes, HeapSafe
  <2>2. Held'
    BY <1>2, <1>3, <1>5 DEF Held
  <2> QED
    BY <1>2, <1>3, <2>1, <2>2 DEF Linked
<1>11. \A u \in Threads : pc[u] \in Holding => ptr[u][1] # s
  BY <1>3 DEF HeapInv, Exclusive
<1>12. pc[t] \notin Holding /\ {s} \in SUBSET Slots /\ \A q : q[1] # s => (q \in owned' <=> q \in owned)
  BY <1>1, <1>2, <1>6 DEF Holding
<1> HIDE DEF s
<1>13. \A u \in Threads \ {t} : pc[u] \in Holding => ptr[u][1] \notin {s}
  BY <1>11
<1>14. ptr'[t][1] \in {s} /\ \A q \in owned' : q[1] # ptr'[t][1]
  BY <1>5, <1>8 DEF s
<1>15. /\ \A r \in Slots \ {s} : /\ heap'[r] = heap[r] /\ header'[r] = header[r]
                                 /\ r \in m_list' <=> r \in m_list
                                 /\ r \in Range(m_quarantine') <=> r \in Range(m_quarantine)
       /\ \A q : q[1] \notin {s} => /\ q \in m_live' <=> q \in m_live
                                    /\ q \in owned' <=> q \in owned
  BY <1>2, <1>12
<1>16. Untouched(t, {s}) /\ {s} \in SUBSET Slots
  BY <1>5, <1>7, <1>9, <1>10, <1>12, <1>13, <1>14, <1>15 DEF Untouched
<1> QED
  BY <1>5, <1>7, <1>9, <1>10, <1>12, <1>13, <1>14, <1>15, <1>16, SlotsKept
\* A new block is in a free slot, its header as yet only its thread's.
LEMMA HookAllocateKeeps ==
  ASSUME Discipline, HookInv, HeapInv, NEW t \in Threads, HookAllocate(t)
  PROVE  HeapInv'
<1> USE DEF slotVars, modeVars, blockVars, Goto
<1> DEFINE redzone == IF m_config.checkRedzone THEN m_config.redzone ELSE 0
           fresh(size) == [NoHeader EXCEPT !.magic = "live", !.size = size,
                                           !.redzone = redzone, !.pattern = FALSE]
<1>1. PICK s \in Slots, size \in Sizes :
        /\ heap[s] = NoChunk
        /\ heap' = [heap EXCEPT ![s] = 0]
        /\ header' = [header EXCEPT ![s] = fresh(size)]
        /\ ptr' = [ptr EXCEPT ![t] = payloadOf(s, redzone)]
  BY DEF HookAllocate
<1>2. /\ pc[t] = "allocate" /\ pc' = [pc EXCEPT ![t] = "link"]
      /\ UNCHANGED <<owned, dangling, badFree, modeVars, blockVars>>
  BY DEF HookAllocate
<1>3. /\ HeapTypes /\ Layout /\ Linked /\ Held /\ HeapSafe /\ pc \in [Threads -> Labels]
      /\ ptr \in [Threads -> Pointers] /\ owned \subseteq Slots \X Nat
      /\ heap \in [Slots -> Nat \union {NoChunk}] /\ header \in [Slots -> Header]
  BY DEF HeapInv, HeapTypes, HookInv, HookTypeOK
<1>4. redzone = m_config.redzone /\ redzone \in Nat /\ payloadOffset(m_config.redzone) \in Nat
  BY <1>3, ConfigFacts, ConfigsAssumption DEF Discipline, HeapTypes, Config
<1>5. /\ fresh(size) \in Header /\ fresh(size).magic = "live" /\ fresh(size).size = size
      /\ fresh(size).redzone = m_config.redzone
  BY <1>4, SizesAssumption DEF NoHeader, Header
<1> HIDE DEF fresh, redzone
<1>6. payloadOf(s, redzone) = Payload(s) /\ Payload(s) \in Pointers /\ Payload(s)[1] = s
  BY <1>4, PayloadFacts DEF Payload, Pointers, payloadOf
<1>7. /\ pc'[t] = "link" /\ ptr'[t] = Payload(s) /\ ptr' \in [Threads -> Pointers]
      /\ \A u \in Threads \ {t} : pc'[u] = pc[u] /\ ptr'[u] = ptr[u]
  BY <1>1, <1>2, <1>3, <1>6
<1>8. /\ heap' \in [Slots -> Nat \union {NoChunk}] /\ header' \in [Slots -> Header]
      /\ heap'[s] = 0 /\ header'[s] = fresh(size)
      /\ \A r \in Slots \ {s} : heap'[r] = heap[r] /\ header'[r] = header[r]
  BY <1>1, <1>3, <1>5
<1>9. /\ s \notin m_list /\ s \notin Range(m_quarantine)
      /\ \A p \in owned : p[1] # s
      /\ \A u \in Threads : pc[u] \in Holding => ptr[u][1] # s
      /\ \A p \in m_live : p[1] # s
  BY <1>1, FreeSlot, PayloadFacts DEF HeapInv, Linked
<1>10. \A r : Payload(r)' = Payload(r)
  BY <1>2 DEF Payload
<1>11. PointerOK(t)'
  BY <1>2, <1>5, <1>6, <1>7, <1>8, <1>9, <1>10 DEF PointerOK
<1>12. SlotInv(s)'
  <2>1. \E u \in Threads : pc'[u] \in {"link", "release"} /\ ptr'[u] = Payload(s)'
    BY <1>7, <1>10
  <2> QED
    BY <1>2, <1>5, <1>8, <1>9, <2>1 DEF SlotInv
<1>13. HeapTypes' /\ HeapSafe' /\ Held'
  <2>1. Held'
    BY <1>2, <1>3, <1>7 DEF Held
  <2> QED
    BY <1>2, <1>3, <1>7, <1>8, <2>1 DEF HeapTypes, HeapSafe
<1>14. m_config' = m_config /\ IsFiniteSet(m_list') /\ m_liveBlocks' = Cardinality(m_list')
  BY <1>2, <1>3 DEF Linked
<1>15. /\ \A r \in Slots \ {s} : /\ heap'[r] = heap[r] /\ header'[r] = header[r]
                                 /\ r \in m_list' <=> r \in m_list
                                 /\ r \in Range(m_quarantine') <=> r \in Range(m_quarantine)
       /\ \A q : q[1] \notin {s} => /\ q \in m_live' <=> q \in m_live
                                    /\ q \in owned' <=> q \in owned
  BY <1>2, <1>8
<1>16. /\ \A u \in Threads \ {t} : pc[u] \in Holding => ptr[u][1] \notin {s}
       /\ pc[t] \notin Holding /\ ptr'[t][1] \in {s} /\ \A q \in owned' : q[1] # ptr'[t][1]
  BY <1>2, <1>6, <1>7, <1>9 DEF Holding
<1>17. Untouched(t, {s}) /\ {s} \in SUBSET Slots
  BY <1>7, <1>11, <1>12, <1>13, <1>14, <1>15, <1>16 DEF Untouched
<1> QED
  BY <1>7, <1>11, <1>12, <1>13, <1>14, <1>15, <1>16, <1>17, SlotsKept
\* The block is linked, and the program's.
LEMMA LinkKeeps ==
  ASSUME Discipline, HookInv, HeapInv, m_sequence \in Nat, NEW t \in Threads, Link(t)
  PROVE  HeapInv'
<1> USE DEF slotVars, modeVars, Goto
<1>0. PICK p, s : p = ptr[t] /\ s = ptr[t][1]
  OBVIOUS
<1>1. /\ pc[t] = "link" /\ pc' = [pc EXCEPT ![t] = "idle"]
      /\ header' = [header EXCEPT ![s].sequence = m_sequence]
      /\ m_list' = m_list \union {s} /\ m_live' = m_live \union {p}
      /\ owned' = owned \union {p} /\ dangling' = dangling \ {p}
      /\ m_liveBlocks' = m_liveBlocks + 1
      /\ ptr' = [ptr EXCEPT ![t] = NoPointer]
      /\ UNCHANGED <<heap, badFree, modeVars, m_quarantine>>
  BY <1>0 DEF Link
<1>2. /\ HeapTypes /\ Layout /\ Linked /\ Held /\ HeapSafe /\ pc \in [Threads -> Labels]
      /\ ptr \in [Threads -> Pointers] /\ owned \subseteq Slots \X Nat
      /\ header \in [Slots -> Header] /\ dangling = {}
      /\ NoPointer \in Pointers /\ m_list \subseteq Slots
  BY DEF HeapInv, HeapTypes, HookInv, HookTypeOK, NoPointer, Pointers
<1>3. s \in Slots \ m_list /\ p = Payload(s) /\ header[s].magic = "live" /\ p \in Slots \X Nat
  <2>1. s \in Slots \ m_list /\ p = Payload(s) /\ header[s].magic = "live"
    BY <1>0, <1>1 DEF HeapInv, PointerOK
  <2> QED
    BY <1>2, <2>1, ConfigFacts, PayloadFacts
<1>4. /\ \A q \in owned : q[1] # s
      /\ \A u \in Threads \ {t} : pc[u] \in Holding => ptr[u][1] # s
      /\ pc[t] \in Holding /\ pc'[t] = "idle"
  BY <1>0, <1>1, <1>2 DEF HeapInv, Exclusive, Holding
<1>5. /\ ptr' \in [Threads -> Pointers]
      /\ \A u \in Threads \ {t} : pc'[u] = pc[u] /\ ptr'[u] = ptr[u]
  BY <1>1, <1>2
<1>6. /\ header' \in [Slots -> Header] /\ header'[s].magic = "live"
      /\ header'[s].redzone = header[s].redzone /\ header'[s].size = header[s].size
      /\ \A r \in Slots \ {s} : header'[r] = header[r]
  BY <1>1, <1>2, <1>3 DEF Header
<1>7. /\ owned' \subseteq Slots \X Nat /\ dangling' = {} /\ m_list' \subseteq Slots
      /\ IsFiniteSet(m_list') /\ m_liveBlocks' = Cardinality(m_list')
  <2>1. IsFiniteSet(m_list') /\ Cardinality(m_list') = Cardinality(m_list) + 1
    BY <1>1, <1>2, <1>3, FS_AddElement DEF Linked
  <2> QED
    BY <1>1, <1>2, <1>3, <2>1 DEF Linked
<1>8. /\ HeapTypes' /\ HeapSafe' /\ m_config' = m_config
  BY <1>1, <1>2, <1>5, <1>6, <1>7 DEF HeapTypes, HeapSafe
<1>9. Held'
  BY <1>1, <1>2, <1>4, <1>5 DEF Held
<1>10. PointerOK(t)'
  BY <1>4 DEF PointerOK
<1>11. /\ \A r : Payload(r)' = Payload(r)
       /\ p[1] = s /\ Payload(s) = p
  BY <1>3, <1>8, PayloadFacts DEF Payload
<1>12. SlotInv(s)'
  <2>1. SlotInv(s)
    BY <1>3, SlotInvHolds
  <2>2. \A q \in m_live' : q[1] = s => s \in m_list' /\ q = Payload(s)'
    BY <1>1, <1>3, <1>11, <2>1 DEF SlotInv
  <2>3. Block(p)' /\ \A q \in owned' : q[1] = s => q = p
    BY <1>1, <1>4, <1>11 DEF Block
  <2>4. p \in owned' /\ p \in m_live' /\ s \in m_list'
    BY <1>1
  <2>5. header'[s].magic # "none" => /\ heap'[s] = 0
                                     /\ header'[s].redzone = m_config'.redzone
                                     /\ header'[s].size \in Sizes
    BY <1>1, <1>3, <1>6, <1>8, <2>1 DEF SlotInv
  <2>6. header'[s].magic = "freed" <=> s \in Range(m_quarantine')
    BY <1>1, <1>3, <1>6, <2>1 DEF SlotInv
  <2> QED
    BY <1>6, <1>11, <2>2, <2>3, <2>4, <2>5, <2>6 DEF SlotInv
<1>13. /\ \A r \in Slots \ {s} : /\ heap'[r] = heap[r] /\ header'[r] = header[r]
                                 /\ r \in m_list' <=> r \in m_list
                                 /\ r \in Range(m_quarantine') <=> r \in Range(m_quarantine)
       /\ \A q : q[1] \notin {s} => /\ q \in m_live' <=> q \in m_live
                                    /\ q \in owned' <=> q \in owned
  BY <1>1, <1>6, <1>11
<1>14. /\ \A u \in Threads \ {t} : pc[u] \in Holding => ptr[u][1] \notin {s}
       /\ pc'[t] \notin Holding /\ ptr[t][1] \in {s} /\ {s} \in SUBSET Slots
  BY <1>0, <1>3, <1>4 DEF Holding
<1>15. Untouched(t, {s}) /\ {s} \in SUBSET Slots
  BY <1>5, <1>7, <1>8, <1>9, <1>10, <1>12, <1>13, <1>14 DEF Untouched
<1> QED
  BY <1>5, <1>7, <1>8, <1>9, <1>10, <1>12, <1>13, <1>14, <1>15, SlotsKept
\* What a thread that holds a pointer has for itself.
LEMMA HolderFacts ==
  ASSUME HeapInv, NEW t \in Threads, pc[t] \in Holding
  PROVE  /\ ptr[t][1] \in Slots
         /\ \A q \in owned : q[1] # ptr[t][1]
         /\ \A u \in Threads \ {t} : pc[u] \in Holding => ptr[u][1] \notin {ptr[t][1]}
BY SlotFacts DEF HeapInv, Exclusive

\* The block is taken out of the list, and nobody finds it any more.
LEMMA UnlinkKeeps ==
  ASSUME Discipline, HookInv, HeapInv, NEW t \in Threads, Unlink(t)
  PROVE  HeapInv'
<1> USE DEF slotVars, modeVars, heapVars, Goto
<1>0. PICK p, s : p = ptr[t] /\ s = ptr[t][1]
  OBVIOUS
<1>1. /\ pc[t] = "unlink" /\ pc' = [pc EXCEPT ![t] = "release"]
      /\ m_list' = m_list \ {s} /\ m_live' = m_live \ {p}
      /\ m_liveBlocks' = Minus(m_liveBlocks, 1)
      /\ UNCHANGED <<heap, header, owned, dangling, badFree, modeVars, m_quarantine, ptr>>
  BY <1>0 DEF Unlink
<1>2. /\ HeapTypes /\ Layout /\ Linked /\ Held /\ HeapSafe /\ pc \in [Threads -> Labels]
  BY DEF HeapInv, HookInv, HookTypeOK
<1>3. s \in m_list /\ s \in Slots /\ p = Payload(s) /\ header[s].magic = "live" /\ p[1] = s
  BY <1>0, <1>1, <1>2 DEF HeapInv, PointerOK, Block, HeapTypes
<1>4. /\ \A q \in owned : q[1] # s
      /\ \A u \in Threads \ {t} : pc[u] \in Holding => ptr[u][1] \notin {s}
      /\ pc[t] \in Holding /\ pc'[t] = "release"
  BY <1>0, <1>1, <1>2, HolderFacts DEF Holding
<1>5. \A u \in Threads \ {t} : pc'[u] = pc[u] /\ ptr'[u] = ptr[u]
  BY <1>1
<1>6. IsFiniteSet(m_list') /\ m_liveBlocks' = Cardinality(m_list')
  <2>1. /\ IsFiniteSet(m_list') /\ Cardinality(m_list') = Cardinality(m_list) - 1
        /\ Cardinality(m_list) \in Nat /\ Cardinality(m_list') \in Nat
    BY <1>1, <1>2, <1>3, FS_RemoveElement, FS_CardinalityType DEF Linked
  <2> QED
    BY <1>1, <1>2, <2>1 DEF Linked, Minus
<1>7. HeapTypes' /\ HeapSafe' /\ m_config' = m_config
  BY <1>1, <1>2 DEF HeapTypes, HeapSafe
<1>8. Held'
  BY <1>1, <1>2, <1>4, <1>5 DEF Held
<1>9. \A r : Payload(r)' = Payload(r)
  BY <1>1 DEF Payload
<1>10. PointerOK(t)'
  BY <1>0, <1>1, <1>3, <1>4, <1>9 DEF PointerOK
<1>11. SlotInv(s)'
  <2>1. SlotInv(s)
    BY <1>3, SlotInvHolds
  <2>2. \A q \in m_live' : q[1] # s
    BY <1>1, <1>3, <2>1 DEF SlotInv
  <2>3. \E u \in Threads : pc'[u] \in {"link", "release"} /\ ptr'[u] = Payload(s)'
    BY <1>0, <1>1, <1>3, <1>4, <1>9
  <2>4. s \notin m_list'
    BY <1>1
  <2> QED
    BY <1>1, <1>4, <2>1, <2>2, <2>3, <2>4 DEF SlotInv
<1>12. /\ \A r \in Slots \ {s} : /\ heap'[r] = heap[r] /\ header'[r] = header[r]
                                 /\ r \in m_list' <=> r \in m_list
                                 /\ r \in Range(m_quarantine') <=> r \in Range(m_quarantine)
       /\ \A q : q[1] \notin {s} => /\ q \in m_live' <=> q \in m_live
                                    /\ q \in owned' <=> q \in owned
  BY <1>1, <1>3
<1>13. /\ ptr'[t][1] \in {s} /\ ptr[t][1] \in {s} /\ {s} \in SUBSET Slots
       /\ \A q \in owned' : q[1] # ptr'[t][1]
  BY <1>0, <1>1, <1>3, <1>4
<1>14. Untouched(t, {s}) /\ {s} \in SUBSET Slots
  BY <1>4, <1>5, <1>6, <1>7, <1>8, <1>10, <1>11, <1>12, <1>13 DEF Untouched
<1> QED
  BY <1>4, <1>5, <1>6, <1>7, <1>8, <1>10, <1>11, <1>12, <1>13, <1>14, SlotsKept

\* A block whose header was overwritten leaves the live set and stays in the list.
LEMMA ReportSmashedKeeps ==
  ASSUME Discipline, HookInv, HeapInv, NEW t \in Threads, ReportSmashed(t)
  PROVE  HeapInv'
<1> USE DEF slotVars, modeVars, heapVars, Goto
<1>0. PICK p, s : p = ptr[t] /\ s = ptr[t][1]
  OBVIOUS
<1>1. /\ pc[t] = "inspect" /\ pc' = [pc EXCEPT ![t] = "idle"]
      /\ headerOf(p).magic # "live"
      /\ m_live' = m_live \ {p} /\ ptr' = [ptr EXCEPT ![t] = NoPointer]
      /\ UNCHANGED <<heap, header, owned, dangling, badFree, modeVars, m_list, m_quarantine,
                     m_liveBlocks>>
  BY <1>0 DEF ReportSmashed
<1>2. /\ HeapTypes /\ Layout /\ Linked /\ Held /\ HeapSafe /\ pc \in [Threads -> Labels]
      /\ ptr \in [Threads -> Pointers] /\ NoPointer \in Pointers
  BY DEF HeapInv, HeapTypes, HookInv, HookTypeOK, NoPointer, Pointers
<1>3. s \in m_list /\ s \in Slots /\ p = Payload(s) /\ header[s].magic # "live" /\ p[1] = s
  <2>1. Block(p)
    BY <1>0, <1>1 DEF HeapInv, PointerOK
  <2> QED
    BY <1>0, <1>1, <1>2, <2>1, LiveMeansBlock DEF Block, HeapTypes
<1>4. /\ \A q \in owned : q[1] # s
      /\ \A u \in Threads \ {t} : pc[u] \in Holding => ptr[u][1] \notin {s}
      /\ pc[t] \in Holding /\ pc'[t] = "idle"
  BY <1>0, <1>1, <1>2, HolderFacts DEF Holding
<1>5. /\ \A u \in Threads \ {t} : pc'[u] = pc[u] /\ ptr'[u] = ptr[u]
      /\ ptr' \in [Threads -> Pointers]
  BY <1>1, <1>2
<1>6. IsFiniteSet(m_list') /\ m_liveBlocks' = Cardinality(m_list')
  BY <1>1, <1>2 DEF Linked
<1>7. HeapTypes' /\ HeapSafe' /\ m_config' = m_config
  BY <1>1, <1>2, <1>5 DEF HeapTypes, HeapSafe
<1>8. Held'
  BY <1>1, <1>2, <1>4, <1>5 DEF Held
<1>9. PointerOK(t)'
  BY <1>4 DEF PointerOK
<1>10. SlotInv(s)'
  <2>1. SlotInv(s)
    BY <1>3, SlotInvHolds
  <2>2. \A q \in m_live' : q[1] # s
    BY <1>1, <1>3, <2>1 DEF SlotInv
  <2> QED
    BY <1>1, <1>3, <1>4, <2>1, <2>2 DEF SlotInv
<1>11. /\ \A r \in Slots \ {s} : /\ heap'[r] = heap[r] /\ header'[r] = header[r]
                                 /\ r \in m_list' <=> r \in m_list
                                 /\ r \in Range(m_quarantine') <=> r \in Range(m_quarantine)
       /\ \A q : q[1] \notin {s} => /\ q \in m_live' <=> q \in m_live
                                    /\ q \in owned' <=> q \in owned
  BY <1>1, <1>3
<1>12. pc'[t] \notin Holding /\ ptr[t][1] \in {s} /\ {s} \in SUBSET Slots
  BY <1>0, <1>3, <1>4 DEF Holding
<1>13. Untouched(t, {s}) /\ {s} \in SUBSET Slots
  BY <1>4, <1>5, <1>6, <1>7, <1>8, <1>9, <1>10, <1>11, <1>12 DEF Untouched
<1> QED
  BY <1>4, <1>5, <1>6, <1>7, <1>8, <1>9, <1>10, <1>11, <1>12, <1>13, SlotsKept

\* A released block's chunk goes back whole.
LEMMA ReleaseNowKeeps ==
  ASSUME Discipline, HookInv, HeapInv, NEW t \in Threads, ReleaseNow(t)
  PROVE  HeapInv'
<1> USE DEF slotVars, modeVars, blockVars, Goto
<1>0. PICK p, s : p = ptr[t] /\ s = ptr[t][1]
  OBVIOUS
<1>1. /\ pc[t] = "release" /\ pc' = [pc EXCEPT ![t] = "settle"]
      /\ heap' = [heap EXCEPT ![s] = NoChunk] /\ header' = [header EXCEPT ![s] = NoHeader]
      /\ badFree' = (badFree \/ heap[s] # 0)
      /\ ptr' = [ptr EXCEPT ![t] = NoPointer]
      /\ UNCHANGED <<owned, dangling, modeVars, blockVars>>
  BY <1>0 DEF ReleaseNow
<1>2. /\ HeapTypes /\ Layout /\ Linked /\ Held /\ HeapSafe /\ pc \in [Threads -> Labels]
      /\ ptr \in [Threads -> Pointers] /\ NoPointer \in Pointers
      /\ heap \in [Slots -> Nat \union {NoChunk}] /\ header \in [Slots -> Header]
      /\ NoHeader \in Header
  BY DEF HeapInv, HeapTypes, HookInv, HookTypeOK, NoPointer, Pointers, NoHeader, Header
<1>3. s \in Slots \ m_list /\ p = Payload(s) /\ header[s].magic = "live"
  BY <1>0, <1>1 DEF HeapInv, PointerOK
<1>4. /\ \A q \in owned : q[1] # s
      /\ \A u \in Threads \ {t} : pc[u] \in Holding => ptr[u][1] \notin {s}
      /\ pc[t] \in Holding /\ pc'[t] = "settle"
  BY <1>0, <1>1, <1>2, HolderFacts DEF Holding
<1>5. /\ \A u \in Threads \ {t} : pc'[u] = pc[u] /\ ptr'[u] = ptr[u]
      /\ ptr' \in [Threads -> Pointers]
  BY <1>1, <1>2
<1>6. /\ heap' \in [Slots -> Nat \union {NoChunk}] /\ header' \in [Slots -> Header]
      /\ header'[s] = NoHeader
      /\ \A r \in Slots \ {s} : heap'[r] = heap[r] /\ header'[r] = header[r]
  BY <1>1, <1>2, <1>3
<1>7. HeapSafe'
  <2>1. heap[s] = 0
    BY <1>2, <1>3 DEF Layout
  <2> QED
    BY <1>1, <1>2, <2>1 DEF HeapSafe
<1>8. /\ HeapTypes' /\ m_config' = m_config
      /\ IsFiniteSet(m_list') /\ m_liveBlocks' = Cardinality(m_list')
  BY <1>1, <1>2, <1>5, <1>6 DEF HeapTypes, Linked
<1>9. Held'
  BY <1>1, <1>2, <1>4, <1>5 DEF Held
<1>10. PointerOK(t)'
  BY <1>4 DEF PointerOK
<1>11. SlotInv(s)'
  <2>1. SlotInv(s)
    BY <1>3, SlotInvHolds
  <2>2. \A q \in m_live' : q[1] # s
    BY <1>1, <1>3, <2>1 DEF SlotInv
  <2>3. s \notin Range(m_quarantine') /\ s \notin m_list' /\ NoHeader.magic = "none"
    BY <1>1, <1>3, <2>1 DEF SlotInv, NoHeader
  <2> QED
    BY <1>1, <1>4, <1>6, <2>1, <2>2, <2>3 DEF SlotInv
<1>12. /\ \A r \in Slots \ {s} : /\ heap'[r] = heap[r] /\ header'[r] = header[r]
                                 /\ r \in m_list' <=> r \in m_list
                                 /\ r \in Range(m_quarantine') <=> r \in Range(m_quarantine)
       /\ \A q : q[1] \notin {s} => /\ q \in m_live' <=> q \in m_live
                                    /\ q \in owned' <=> q \in owned
  BY <1>1, <1>6
<1>13. pc'[t] \notin Holding /\ ptr[t][1] \in {s} /\ {s} \in SUBSET Slots
  BY <1>0, <1>3, <1>4 DEF Holding
<1>14. Untouched(t, {s}) /\ {s} \in SUBSET Slots
  BY <1>4, <1>5, <1>7, <1>8, <1>9, <1>10, <1>11, <1>12, <1>13 DEF Untouched
<1> QED
  BY <1>4, <1>5, <1>7, <1>8, <1>9, <1>10, <1>11, <1>12, <1>13, <1>14, SlotsKept
\* The program writes into a block that no thread of the library has in hand.
LEMMA WriteKeeps ==
  ASSUME HeapInv, NEW t \in Threads, pc[t] = "idle", NEW s \in Slots,
         \A u \in Threads : pc[u] \in Holding => ptr[u][1] # s,
         UNCHANGED <<heap, owned, dangling, badFree, modeVars, blockVars, pc, ptr>>,
         header' \in [Slots -> Header], \A r \in Slots \ {s} : header'[r] = header[r],
         header[s].magic # "none",
         header'[s].redzone = header[s].redzone, header'[s].size = header[s].size,
         \/ header'[s].magic = header[s].magic
         \/ s \in m_list /\ header'[s].magic = "smashed"
  PROVE  HeapInv'
<1> USE DEF modeVars, blockVars
<1>1. HeapTypes /\ Layout /\ Linked /\ Held /\ HeapSafe
  BY DEF HeapInv
<1>2. /\ HeapTypes' /\ HeapSafe' /\ Held' /\ m_config' = m_config
      /\ IsFiniteSet(m_list') /\ m_liveBlocks' = Cardinality(m_list')
  <2>1. Held'
    BY <1>1 DEF Held
  <2> QED
    BY <1>1, <2>1 DEF HeapTypes, HeapSafe, Linked
<1>3. PointerOK(t)'
  BY DEF PointerOK
<1>4. \A r : Payload(r)' = Payload(r)
  BY DEF Payload
<1>5. SlotInv(s)'
  <2>1. SlotInv(s)
    BY SlotInvHolds
  <2>2. /\ header'[s].magic = "none" => header'[s] = NoHeader
        /\ header'[s].magic # "none" => /\ heap'[s] = 0
                                        /\ header'[s].redzone = m_config'.redzone
                                        /\ header'[s].size \in Sizes
        /\ s \in m_list' => header'[s].magic \in {"live", "smashed"}
    BY <2>1 DEF SlotInv
  <2>3. header'[s].magic = "freed" <=> s \in Range(m_quarantine')
    BY <2>1 DEF SlotInv
  <2>4. /\ \A q \in m_live' : q[1] = s => s \in m_list' /\ q = Payload(s)'
        /\ s \in m_list' /\ header'[s].magic = "live" => Payload(s)' \in m_live'
    BY <1>4, <2>1 DEF SlotInv
  <2>5. \A q \in owned' : q[1] = s => Raw(q)' \/ Block(q)'
    BY <1>4, <2>1 DEF SlotInv, Raw, Block
  <2>6. s \in m_list' /\ header'[s].magic = "live" =>
           \/ Payload(s)' \in owned'
           \/ \E u \in Threads : pc'[u] \in {"lookup", "inspect", "unlink"} /\ ptr'[u] = Payload(s)'
    BY <1>4, <2>1 DEF SlotInv
  <2>7. s \notin m_list' /\ header'[s].magic \in {"live", "smashed"} =>
           \E u \in Threads : pc'[u] \in {"link", "release"} /\ ptr'[u] = Payload(s)'
    BY <1>4, <2>1 DEF SlotInv
  <2> QED
    BY <2>2, <2>3, <2>4, <2>5, <2>6, <2>7 DEF SlotInv
<1>6. /\ \A r \in Slots \ {s} : /\ heap'[r] = heap[r] /\ header'[r] = header[r]
                                /\ r \in m_list' <=> r \in m_list
                                /\ r \in Range(m_quarantine') <=> r \in Range(m_quarantine)
      /\ \A q : q[1] \notin {s} => /\ q \in m_live' <=> q \in m_live
                                   /\ q \in owned' <=> q \in owned
  OBVIOUS
<1>7. /\ pc[t] \notin Holding /\ pc'[t] \notin Holding /\ {s} \in SUBSET Slots
      /\ \A u \in Threads \ {t} : /\ pc'[u] = pc[u] /\ ptr'[u] = ptr[u]
                                  /\ pc[u] \in Holding => ptr[u][1] \notin {s}
  BY DEF Holding
<1>8. Untouched(t, {s}) /\ {s} \in SUBSET Slots
  BY <1>2, <1>3, <1>5, <1>6, <1>7 DEF Untouched
<1> QED
  BY <1>2, <1>3, <1>5, <1>6, <1>7, <1>8, SlotsKept

\* The mistakes of the program damage its own blocks, and those held back.
LEMMA ProgramWritesKeeps ==
  ASSUME HeapInv, ProgramWrites
  PROVE  HeapInv'
<1>1. PICK t \in Threads : pc[t] = "idle"
  BY DEF ProgramWrites
<1>2. UNCHANGED <<heap, owned, dangling, badFree, modeVars, blockVars, pc, ptr>>
  BY DEF ProgramWrites
<1>3. /\ header \in [Slots -> Header] /\ m_quarantine \in Seq(Slots)
      /\ owned \subseteq Slots \X Nat
  BY DEF HeapInv, HeapTypes
<1>4. ASSUME NEW p \in owned, Overrun(p) \/ Smash(p) PROVE HeapInv'
  <2>1. PICK s : s = p[1]
    OBVIOUS
  <2>2. s \in Slots /\ Tracked(p) /\ \A u \in Threads : pc[u] \in Holding => ptr[u][1] # s
    BY <1>4, <2>1, SlotFacts DEF HeapInv, Exclusive, Overrun, Smash
  <2>3. s \in m_list /\ header[s].magic # "none"
    BY <2>1, <2>2, LiveMeansBlock DEF HeapInv, Block, Layout, HeapTypes
  <2>4. CASE header' = [header EXCEPT ![s].guard = FALSE]
    <3>1. /\ header' \in [Slots -> Header] /\ \A r \in Slots \ {s} : header'[r] = header[r]
          /\ header'[s].redzone = header[s].redzone /\ header'[s].size = header[s].size
          /\ header'[s].magic = header[s].magic
      BY <1>3, <2>2, <2>4 DEF Header
    <3> QED
      BY <1>1, <1>2, <2>2, <2>3, <3>1, WriteKeeps
  <2>5. CASE header' = [header EXCEPT ![s].magic = "smashed"]
    <3>1. /\ header' \in [Slots -> Header] /\ \A r \in Slots \ {s} : header'[r] = header[r]
          /\ header'[s].redzone = header[s].redzone /\ header'[s].size = header[s].size
          /\ header'[s].magic = "smashed"
      BY <1>3, <2>2, <2>5 DEF Header
    <3> QED
      BY <1>1, <1>2, <2>2, <2>3, <3>1, WriteKeeps
  <2> QED
    BY <1>4, <2>1, <2>4, <2>5 DEF Overrun, Smash
<1>5. ASSUME NEW i \in DOMAIN m_quarantine, DanglingWrite(m_quarantine[i]) PROVE HeapInv'
  <2>1. PICK s : s = m_quarantine[i]
    OBVIOUS
  <2>2. s \in Slots /\ s \in Range(m_quarantine)
    BY <1>3, <2>1 DEF Range
  <2>3. header[s].magic = "freed" /\ \A u \in Threads : pc[u] \in Holding => ptr[u][1] # s
    BY <2>2, SlotFacts DEF HeapInv, Layout
  <2>4. header' = [header EXCEPT ![s].pattern = FALSE]
    BY <1>5, <2>1 DEF DanglingWrite
  <2>5. /\ header' \in [Slots -> Header] /\ \A r \in Slots \ {s} : header'[r] = header[r]
        /\ header'[s].redzone = header[s].redzone /\ header'[s].size = header[s].size
        /\ header'[s].magic = header[s].magic
    BY <1>3, <2>2, <2>4 DEF Header
  <2> QED
    BY <1>1, <1>2, <2>2, <2>3, <2>5, WriteKeeps
<1> QED
  BY <1>4, <1>5 DEF ProgramWrites
-----------------------------------------------------------------------------
(* The quarantine. *)

\* What a queue holds from its j-th block on is a sum over positions of the queue.
LEMMA BytesFrom ==
  ASSUME NEW S, NEW q \in Seq(S), NEW h, \A i \in DOMAIN q : h[q[i]].size \in Nat,
         NEW j \in 1..Len(q) + 1
  PROVE  BytesOf(SubSeq(q, j, Len(q)), h) =
           SumFunctionOnSet([i \in DOMAIN q |-> h[q[i]].size], j..Len(q))
<1> DEFINE r == SubSeq(q, j, Len(q))
           f == [i \in DOMAIN r |-> h[r[i]].size]
           g == [i \in DOMAIN q |-> h[q[i]].size]
           b == [i \in DOMAIN r |-> i + j - 1]
<1>1. /\ Len(q) \in Nat /\ DOMAIN q = 1..Len(q) /\ j \in Nat
      /\ DOMAIN r = 1..(Len(q) - j + 1) /\ Len(q) - j + 1 \in Nat
      /\ \A i \in DOMAIN r : r[i] = q[i + j - 1] /\ i + j - 1 \in DOMAIN q
  OBVIOUS
<1> HIDE DEF r
<1>2. IsFiniteSet(DOMAIN r)
  BY <1>1, FS_Interval
<1>3. \A i \in DOMAIN r : f[i] \in Int /\ g[b[i]] = f[i]
  BY <1>1
<1>4. \A x, y \in DOMAIN r : b[x] = b[y] => x = y
  BY <1>1
<1>5. {b[i] : i \in DOMAIN r} = j..Len(q)
  <2>1. ASSUME NEW m \in j..Len(q) PROVE \E i \in DOMAIN r : b[i] = m
    <3>1. m - j + 1 \in DOMAIN r /\ b[m - j + 1] = m
      BY <1>1
    <3> QED
      BY <3>1
  <2> QED
    BY <1>1, <2>1
<1>6. SumFunctionOnSet(g, {b[i] : i \in DOMAIN r}) = SumFunctionOnSet(f, DOMAIN r)
  <2> HIDE DEF f, g, b
  <2> QED
    BY <1>2, <1>3, <1>4, SumImage
<1>7. BytesOf(r, h) = SumFunctionOnSet(f, DOMAIN r)
  BY DEF BytesOf, SumFunction
<1> QED
  BY <1>5, <1>6, <1>7 DEF r

\* The queue is drained from its head until what is left is not more than d.
LEMMA DrainCountFacts ==
  ASSUME NEW S, NEW q \in Seq(S), NEW h, \A i \in DOMAIN q : h[q[i]].size \in Nat,
         NEW d \in Nat, NEW k, k = DrainCount(q, h, d)
  PROVE  /\ k \in 0..Len(q)
         /\ BytesOf(SubSeq(q, k + 1, Len(q)), h) <= d
         /\ d = 0 /\ (\A i \in DOMAIN q : h[q[i]].size # 0) => k = Len(q)
<1>0. PICK n : n = Len(q)
  OBVIOUS
<1> DEFINE g == [i \in DOMAIN q |-> h[q[i]].size]
           K == {j \in 1..n : BytesOf(SubSeq(q, j, n), h) > d}
<1>1. n \in Nat /\ DOMAIN q = 1..n /\ IsFiniteSet(1..n) /\ Cardinality(1..n) = n
  <2>1. n \in Nat /\ DOMAIN q = 1..n
    BY <1>0
  <2>3. \A a \in Int : IsFiniteSet(a..n) /\ Cardinality(a..n) = IF a > n THEN 0 ELSE n - a + 1
    BY <2>1, FS_Interval
  <2>2. IsFiniteSet(1..n) /\ Cardinality(1..n) = n
    BY <2>1, <2>3
  <2> QED
    BY <2>1, <2>2
<1>2. \A i \in 1..n : g[i] \in Nat /\ g[i] = h[q[i]].size
  BY <1>1
<1>3. \A j \in 1..n + 1 : BytesOf(SubSeq(q, j, n), h) = SumFunctionOnSet(g, j..n)
  BY <1>0, BytesFrom
<1>4. k = Cardinality(K) /\ K \subseteq 1..n
  BY <1>0 DEF DrainCount
<1> HIDE DEF g
<1>5. IsFiniteSet(K) /\ k \in 0..n
  <2> HIDE DEF K
  <2>1. IsFiniteSet(K) /\ Cardinality(K) <= Cardinality(1..n)
    BY <1>1, <1>4, FS_Subset
  <2> QED
    BY <1>1, <1>4, <2>1, FS_CardinalityType
<1>6. \A j \in 1..n + 1 : SumFunctionOnSet(g, j..n) \in Nat
  <2>1. ASSUME NEW j \in 1..n + 1 PROVE SumFunctionOnSet(g, j..n) \in Nat
    <3>1. IsFiniteSet(j..n)
      BY <1>1, FS_Interval
    <3>2. \A i \in j..n : g[i] \in Nat
      BY <1>1, <1>2
    <3> QED
      BY <3>1, <3>2, SumType
  <2> QED
    BY <2>1
<1>7. BytesOf(SubSeq(q, k + 1, n), h) <= d
  <2>1. SUFFICES ASSUME ~(SumFunctionOnSet(g, (k + 1)..n) <= d) PROVE FALSE
    BY <1>1, <1>3, <1>5
  <2>2. SumFunctionOnSet(g, (k + 1)..n) \in Nat
    BY <1>1, <1>5, <1>6
  <2>3. k # n
    <3>1. SUFFICES ASSUME k = n PROVE FALSE
      OBVIOUS
    <3>2. (k + 1)..n = {}
      BY <1>1, <3>1
    <3>3. SumFunctionOnSet(g, (k + 1)..n) = 0
      BY <3>2, SumEmpty, Zenon
    <3> QED
      BY <2>1, <3>3
  <2>4. ASSUME NEW j \in 1..k + 1 PROVE j \in K
    <3>1. IsFiniteSet(j..n)
      BY <1>1, FS_Interval
    <3>5. (k + 1)..n \subseteq j..n /\ \A i \in j..n : g[i] \in Nat
      BY <1>1, <1>2, <1>5
    <3>2. SumFunctionOnSet(g, (k + 1)..n) <= SumFunctionOnSet(g, j..n)
      BY <3>1, <3>5, SumMonotone
    <3>3. j \in 1..n /\ j \in 1..n + 1
      BY <1>1, <1>5, <2>3
    <3>4. SumFunctionOnSet(g, j..n) > d
      BY <1>6, <2>1, <2>2, <3>2, <3>3
    <3> QED
      BY <1>3, <3>3, <3>4
  <2>5. 1..k + 1 \subseteq K
    BY <2>4
  <2>6. Cardinality(1..k + 1) = k + 1
    BY <1>1, <1>5, FS_Interval
  <2> HIDE DEF K
  <2>7. k + 1 <= k
    BY <1>4, <1>5, <2>5, <2>6, FS_Subset
  <2> QED
    BY <1>1, <1>5, <2>7
<1>8. ASSUME d = 0, \A i \in DOMAIN q : h[q[i]].size # 0 PROVE k = n
  <2>1. ASSUME NEW j \in 1..n PROVE j \in K
    <3>1. IsFiniteSet(j..n)
      BY <1>1, FS_Interval
    <3>4. j \in j..n /\ \A i \in j..n : g[i] \in Nat
      BY <1>1, <1>2
    <3>2. g[j] <= SumFunctionOnSet(g, j..n) /\ g[j] \in Nat /\ g[j] # 0
      BY <1>1, <1>2, <1>8, <3>1, <3>4, SumMonotone
    <3>3. SumFunctionOnSet(g, j..n) > d
      BY <1>1, <1>6, <1>8, <3>2
    <3> QED
      BY <1>1, <1>3, <3>3
  <2>2. K = 1..n
    BY <2>1
  <2> QED
    BY <1>1, <1>4, <2>2
<1> QED
  BY <1>0, <1>5, <1>7, <1>8
\* An image under an injection has as many members as its source.
LEMMA CountImage ==
  ASSUME NEW b, NEW I, IsFiniteSet(I), \A x, y \in I : b[x] = b[y] => x = y,
         NEW T, \A x : x \in T <=> \E i \in I : x = b[i]
  PROVE  Cardinality(T) = Cardinality(I)
<1>1. T = {b[x] : x \in I}
  OBVIOUS
<1> QED
  BY <1>1, ImageCount

\* 1..n has n members.
LEMMA CountUpTo ==
  ASSUME NEW n \in Nat
  PROVE  IsFiniteSet(1..n) /\ Cardinality(1..n) = n
<1>1. \A a \in Int : IsFiniteSet(a..n) /\ Cardinality(a..n) = IF a > n THEN 0 ELSE n - a + 1
  BY FS_Interval
<1> QED
  BY <1>1

\* The first k blocks of a queue.
First(q, k) == {q[i] : i \in 1..k}

\* What is drained and what stays are the two halves of the queue.
LEMMA QueueHalves ==
  ASSUME NEW S, NEW q \in Seq(S), NEW k \in Nat, k <= Len(q), IsInjective(q)
  PROVE  /\ SubSeq(q, k + 1, Len(q)) \in Seq(S)
         /\ First(q, k) \subseteq Range(q) /\ Range(q) \subseteq S
         /\ Range(SubSeq(q, k + 1, Len(q))) = Range(q) \ First(q, k)
         /\ IsInjective(SubSeq(q, k + 1, Len(q)))
         /\ Cardinality(First(q, k)) = k
         /\ k = Len(q) => SubSeq(q, k + 1, Len(q)) = <<>>
<1>0. PICK r, gone : r = SubSeq(q, k + 1, Len(q)) /\ gone = First(q, k)
  OBVIOUS
<1>1. /\ Len(q) \in Nat /\ k \in Nat /\ DOMAIN q = 1..Len(q) /\ k <= Len(q)
      /\ r \in Seq(S) /\ DOMAIN r = 1..(Len(q) - k)
      /\ \A i \in DOMAIN r : r[i] = q[i + k] /\ i + k \in DOMAIN q
      /\ \A i \in 1..k : i \in DOMAIN q
  BY <1>0
<1>7. \A x : x \in gone <=> \E i \in 1..k : x = q[i]
  BY <1>0 DEF First
<1>2. gone \subseteq Range(q) /\ Range(q) \subseteq S
  <2>1. \A x : x \in Range(q) <=> \E i \in DOMAIN q : x = q[i]
    BY DEF Range
  <2> QED
    BY <1>1, <1>7, <2>1
<1>8. \A i, j \in DOMAIN q : q[i] = q[j] => i = j
  BY DEF IsInjective
<1>3. IsInjective(r)
  BY <1>1, <1>8 DEF IsInjective
<1>4. Range(r) = Range(q) \ gone
  <2>1. ASSUME NEW x \in Range(r) PROVE x \in Range(q) /\ x \notin gone
    <3>1. PICK i \in DOMAIN r : x = r[i]
      BY <2>1 DEF Range
    <3>2. x = q[i + k] /\ i + k \in DOMAIN q /\ i + k > k
      BY <1>1, <3>1
    <3>3. ASSUME x \in gone PROVE FALSE
      <4>1. PICK j \in 1..k : x = q[j]
        BY <1>7, <3>3
      <4>2. j = i + k
        BY <1>1, <1>8, <3>2, <4>1
      <4> QED
        BY <1>1, <3>2, <4>2
    <3> QED
      BY <3>2, <3>3 DEF Range
  <2>2. ASSUME NEW x \in Range(q), x \notin gone PROVE x \in Range(r)
    <3>1. PICK i \in DOMAIN q : x = q[i]
      BY <2>2 DEF Range
    <3>2. i \notin 1..k
      BY <1>7, <2>2, <3>1
    <3>3. i - k \in DOMAIN r /\ r[i - k] = x
      BY <1>1, <3>1, <3>2
    <3> QED
      BY <3>3 DEF Range
  <2> QED
    BY <2>1, <2>2
<1>5. Cardinality(gone) = k
  <2>1. PICK I : I = 1..k
    OBVIOUS
  <2>2. IsFiniteSet(I) /\ Cardinality(I) = k
    BY <2>1, CountUpTo
  <2>3. \A x, y \in I : q[x] = q[y] => x = y
    BY <1>1, <1>8, <2>1
  <2> QED
    BY <1>7, <2>1, <2>2, <2>3, CountImage
<1>6. k = Len(q) => r = <<>>
  BY <1>1
<1> QED
  BY <1>0, <1>1, <1>2, <1>3, <1>4, <1>5, <1>6

\* So a drain leaves the last blocks of the queue, and no more than d bytes.
LEMMA QueueDrained ==
  ASSUME NEW S, NEW q \in Seq(S), IsInjective(q), NEW h, NEW d \in Nat,
         \A i \in DOMAIN q : h[q[i]].size \in Nat \ {0},
         NEW k, k = DrainCount(q, h, d)
  PROVE  /\ SubSeq(q, k + 1, Len(q)) \in Seq(S)
         /\ First(q, k) \subseteq Range(q) /\ Range(q) \subseteq S
         /\ Range(SubSeq(q, k + 1, Len(q))) = Range(q) \ First(q, k)
         /\ IsInjective(SubSeq(q, k + 1, Len(q)))
         /\ Cardinality(First(q, k)) = k
         /\ d = 0 => SubSeq(q, k + 1, Len(q)) = <<>>
         /\ BytesOf(SubSeq(q, k + 1, Len(q)), h) <= d
<1>1. (\A i \in DOMAIN q : h[q[i]].size \in Nat) /\ \A i \in DOMAIN q : h[q[i]].size # 0
  OBVIOUS
<1>2. /\ k \in 0..Len(q)
      /\ BytesOf(SubSeq(q, k + 1, Len(q)), h) <= d
      /\ d = 0 /\ (\A i \in DOMAIN q : h[q[i]].size # 0) => k = Len(q)
  BY <1>1, DrainCountFacts
<1>3. k \in Nat /\ k <= Len(q)
  BY <1>2
<1>4. /\ SubSeq(q, k + 1, Len(q)) \in Seq(S)
      /\ First(q, k) \subseteq Range(q) /\ Range(q) \subseteq S
      /\ Range(SubSeq(q, k + 1, Len(q))) = Range(q) \ First(q, k)
      /\ IsInjective(SubSeq(q, k + 1, Len(q)))
      /\ Cardinality(First(q, k)) = k
      /\ k = Len(q) => SubSeq(q, k + 1, Len(q)) = <<>>
  BY <1>3, QueueHalves
<1> QED
  BY <1>1, <1>2, <1>4

\* Blocks leave the quarantine whole, and what stays is not too much.
LEMMA DrainKeeps ==
  ASSUME HeapInv, NEW t \in Threads, NEW q \in Seq(Slots), NEW h \in [Slots -> Header],
         NEW d \in Nat, Drain(q, h, d),
         NEW C, C = Range(q),
         IsInjective(q),
         \A s \in Slots \ C : h[s] = header[s] /\ s \notin Range(m_quarantine),
         \A s \in C : /\ h[s].magic = "freed" /\ h[s].redzone = m_config.redzone
                      /\ h[s].size \in Sizes /\ heap[s] = 0 /\ s \notin m_list,
         UNCHANGED <<owned, dangling, m_config, m_list, m_live, m_liveBlocks>>,
         ptr' \in [Threads -> Pointers],
         \A u \in Threads \ {t} : /\ pc'[u] = pc[u] /\ ptr'[u] = ptr[u]
                                  /\ pc[u] \in Holding => ptr[u][1] \notin C
                                  /\ pc[u] # "uninstall",
         \A p \in owned : p[1] \notin C,
         pc[t] \in Holding => ptr[t][1] \in C, pc'[t] \notin Holding,
         ~m_installed' \/ pc'[t] = "uninstall" => d = 0
  PROVE  /\ HeapInv' /\ BytesOf(m_quarantine', header') <= d
         /\ d = 0 => m_quarantine' = <<>>
<1>0. PICK k, gone : k = DrainCount(q, h, d) /\ gone = {q[i] : i \in 1..k}
  OBVIOUS
<1>3. gone = First(q, k)
  BY <1>0 DEF First
<1>1. /\ m_quarantine' = SubSeq(q, k + 1, Len(q))
      /\ heap' = [s \in Slots |-> IF s \in gone THEN NoChunk ELSE heap[s]]
      /\ header' = [s \in Slots |-> IF s \in gone THEN NoHeader ELSE h[s]]
      /\ badFree' = (badFree \/ Cardinality(gone) # k \/ \E s \in gone : heap[s] # 0)
  BY <1>0 DEF Drain
<1>2. \A i \in DOMAIN q : q[i] \in Slots /\ q[i] \in C /\ h[q[i]].size \in Nat \ {0}
  <2>1. \A i \in DOMAIN q : q[i] \in Slots /\ q[i] \in C
    BY DEF Range
  <2> QED
    BY <2>1, SizesAssumption
<1>4. PICK r : r = SubSeq(q, k + 1, Len(q))
  OBVIOUS
<1>5. /\ r \in Seq(Slots) /\ gone \subseteq C /\ C \subseteq Slots
      /\ Range(r) = C \ gone
      /\ IsInjective(r)
      /\ Cardinality(gone) = k
      /\ d = 0 => r = <<>>
      /\ BytesOf(r, h) <= d
  <2>1. \A i \in DOMAIN q : h[q[i]].size \in Nat \ {0}
    BY <1>2
  <2>2. /\ SubSeq(q, k + 1, Len(q)) \in Seq(Slots)
        /\ First(q, k) \subseteq Range(q) /\ Range(q) \subseteq Slots
        /\ Range(SubSeq(q, k + 1, Len(q))) = Range(q) \ First(q, k)
        /\ IsInjective(SubSeq(q, k + 1, Len(q)))
        /\ Cardinality(First(q, k)) = k
        /\ d = 0 => SubSeq(q, k + 1, Len(q)) = <<>>
        /\ BytesOf(SubSeq(q, k + 1, Len(q)), h) <= d
    BY <1>0, <2>1, QueueDrained
  <2> QED
    BY <1>3, <1>4, <2>2
<1>6. /\ HeapTypes /\ Layout /\ Linked /\ Held /\ HeapSafe
      /\ heap \in [Slots -> Nat \union {NoChunk}] /\ NoHeader \in Header
  BY DEF HeapInv, HeapTypes, NoHeader, Header
<1>7. /\ heap' \in [Slots -> Nat \union {NoChunk}] /\ header' \in [Slots -> Header]
      /\ \A s \in Slots \ C : heap'[s] = heap[s] /\ header'[s] = header[s]
      /\ \A s \in gone : heap'[s] = NoChunk /\ header'[s] = NoHeader
      /\ \A s \in C \ gone : heap'[s] = 0 /\ header'[s] = h[s]
  BY <1>1, <1>5, <1>6
<1>8. HeapSafe'
  <2>1. ~(\E s \in gone : heap[s] # 0)
    BY <1>5
  <2> QED
    BY <1>1, <1>5, <1>6, <2>1 DEF HeapSafe
<1>9. /\ HeapTypes' /\ m_config' = m_config
      /\ IsFiniteSet(m_list') /\ m_liveBlocks' = Cardinality(m_list')
  BY <1>1, <1>4, <1>5, <1>6, <1>7 DEF HeapTypes, Linked
<1>10. Held'
  <2>1. ASSUME ~m_installed' \/ \E u \in Threads : pc'[u] = "uninstall" PROVE m_quarantine' = <<>>
    BY <1>1, <1>4, <1>5, <2>1
  <2> QED
    BY <1>1, <1>4, <1>5, <2>1 DEF Held
<1>11. PointerOK(t)'
  BY DEF PointerOK, Holding
<1>12. ASSUME NEW s \in C PROVE SlotInv(s)'
  <2>1. s \in Slots /\ SlotInv(s)
    BY <1>5, SlotInvHolds
  <2>2. (\A p \in m_live' : p[1] # s) /\ (\A p \in owned' : p[1] # s) /\ s \notin m_list'
    BY <2>1 DEF SlotInv
  <2>3. NoHeader.magic = "none" /\ (s \in Range(m_quarantine') <=> s \notin gone)
    BY <1>1, <1>4, <1>5 DEF NoHeader
  <2>4. CASE s \in gone
    BY <1>7, <2>2, <2>3, <2>4 DEF SlotInv
  <2>5. CASE s \notin gone
    <3>1. header'[s] = h[s] /\ header'[s].magic = "freed" /\ heap'[s] = 0
      BY <1>7, <2>5
    <3> QED
      BY <2>2, <2>3, <2>5, <3>1 DEF SlotInv
  <2> QED
    BY <2>4, <2>5
<1>13. \A s \in Slots \ C : /\ heap'[s] = heap[s] /\ header'[s] = header[s]
                            /\ s \in m_list' <=> s \in m_list
                            /\ s \in Range(m_quarantine') <=> s \in Range(m_quarantine)
  <2>1. ASSUME NEW s \in Slots \ C
        PROVE  s \notin Range(m_quarantine') /\ s \notin Range(m_quarantine)
    BY <1>1, <1>4, <1>5
  <2>2. m_list' = m_list
    OBVIOUS
  <2> QED
    BY <1>7, <2>1, <2>2
<1>14. HeapInv'
  <2>1. /\ C \in SUBSET Slots
        /\ \A p : p[1] \notin C => /\ p \in m_live' <=> p \in m_live
                                   /\ p \in owned' <=> p \in owned
    BY <1>5
  <2>2. \A u \in Threads \ {t} : /\ pc'[u] = pc[u] /\ ptr'[u] = ptr[u]
                                 /\ pc[u] \in Holding => ptr[u][1] \notin C
    OBVIOUS
  <2>3. \A s \in C : SlotInv(s)'
    BY <1>12
  <2>4. /\ pc[t] \in Holding => ptr[t][1] \in C
        /\ pc'[t] \in Holding => ptr'[t][1] \in C /\ \A p \in owned' : p[1] # ptr'[t][1]
    OBVIOUS
  <2>5. Untouched(t, C)
    BY <1>13, <2>1, <2>2, <2>4 DEF Untouched
  <2> QED
    BY <1>8, <1>9, <1>10, <1>11, <2>1, <2>3, <2>5, SlotsKept
<1>15. BytesOf(m_quarantine', header') = BytesOf(r, h)
  <2>1. ASSUME NEW i \in DOMAIN r PROVE header'[r[i]].size = h[r[i]].size
    <3>1. r[i] \in C \ gone
      BY <1>5 DEF Range
    <3> QED
      BY <1>7, <3>1
  <2>2. [i \in DOMAIN r |-> header'[r[i]].size] = [i \in DOMAIN r |-> h[r[i]].size]
    BY <2>1
  <2>3. BytesOf(r, header') = BytesOf(r, h)
    BY <2>2 DEF BytesOf
  <2> QED
    BY <1>1, <1>4, <2>3
<1> QED
  BY <1>1, <1>4, <1>5, <1>14, <1>15
\* While m_mutex is free nobody is removing the hook, and a thread inside the
\* tracker finds it in.
LEMMA UnlockedFacts ==
  ASSUME HookInv, Unlocked
  PROVE  /\ \A u \in Threads : pc[u] # "uninstall" /\ pc[u] # "install"
         /\ \A u \in Threads : pc[u] \in InTracker => m_installed
<1>1. m_mutex = NoOne /\ SlotsAgree /\ InsideMeansIn /\ pc \in [Threads -> Labels]
  BY DEF HookInv, HookTypeOK, Unlocked
<1>2. \A u \in Threads : pc[u] # "uninstall" /\ pc[u] # "install"
  BY <1>1, ThreadsAssumption DEF SlotsAgree
<1> QED
  BY <1>1, <1>2, ThreadsAssumption DEF InsideMeansIn

\* What is held back is nobody's.
LEMMA HeldFacts ==
  ASSUME HeapInv, NEW s \in Range(m_quarantine)
  PROVE  /\ s \in Slots /\ header[s].magic = "freed" /\ header[s].redzone = m_config.redzone
         /\ header[s].size \in Sizes /\ heap[s] = 0 /\ s \notin m_list
         /\ \A p \in owned : p[1] # s
         /\ \A u \in Threads : pc[u] \in Holding => ptr[u][1] # s
<1>1. s \in Slots
  BY DEF HeapInv, HeapTypes, Range
<1>2. SlotInv(s) /\ header[s].magic = "freed"
  BY <1>1, SlotInvHolds DEF SlotInv
<1> QED
  BY <1>1, <1>2, SlotFacts DEF SlotInv

\* The whole quarantine is drained.
LEMMA FlushKeeps ==
  ASSUME HookInv, HeapInv, NEW t \in Threads, Unlocked, pc[t] \notin Holding,
         Drain(m_quarantine, header, 0), NEW l \in Labels \ Holding, Goto(t, l),
         UNCHANGED <<owned, dangling, m_config, m_list, m_live, m_liveBlocks, ptr>>
  PROVE  HeapInv' /\ m_quarantine' = <<>>
<1>1. /\ m_quarantine \in Seq(Slots) /\ header \in [Slots -> Header] /\ IsInjective(m_quarantine)
      /\ ptr \in [Threads -> Pointers] /\ pc \in [Threads -> Labels]
  BY DEF HeapInv, HeapTypes, Held, HookInv, HookTypeOK
<1>2. PICK C : C = Range(m_quarantine)
  OBVIOUS
<1>3. \A s \in Slots \ C : header[s] = header[s] /\ s \notin Range(m_quarantine)
  BY <1>2
<1>4. \A s \in C : /\ header[s].magic = "freed" /\ header[s].redzone = m_config.redzone
                   /\ header[s].size \in Sizes /\ heap[s] = 0 /\ s \notin m_list
  BY <1>2, HeldFacts
<1>5. /\ \A p \in owned : p[1] \notin C
      /\ \A u \in Threads : pc[u] \in Holding => ptr[u][1] \notin C
  BY <1>2, HeldFacts
<1>6. \A u \in Threads \ {t} : /\ pc'[u] = pc[u] /\ ptr'[u] = ptr[u]
                               /\ pc[u] \in Holding => ptr[u][1] \notin C
                               /\ pc[u] # "uninstall"
  BY <1>1, <1>5, UnlockedFacts DEF Goto
<1>7. pc'[t] \notin Holding /\ ptr' \in [Threads -> Pointers]
  BY <1>1 DEF Goto
<1>8. PICK d \in Nat : d = 0
  OBVIOUS
<1>9. Drain(m_quarantine, header, d)
  BY <1>8
<1>10. HeapInv' /\ (d = 0 => m_quarantine' = <<>>)
  BY <1>1, <1>2, <1>3, <1>4, <1>5, <1>6, <1>7, <1>8, <1>9, DrainKeeps
<1> QED
  BY <1>8, <1>10

\* A block joins the end of a queue it is not in.
LEMMA QueueLonger ==
  ASSUME NEW S, NEW q \in Seq(S), IsInjective(q), NEW s \in S, s \notin Range(q)
  PROVE  /\ Append(q, s) \in Seq(S) /\ IsInjective(Append(q, s))
         /\ Range(Append(q, s)) = Range(q) \union {s}
<1>0. PICK r : r = Append(q, s)
  OBVIOUS
<1>1. /\ r \in Seq(S) /\ Len(r) = Len(q) + 1 /\ DOMAIN r = 1..Len(r)
      /\ DOMAIN q = 1..Len(q) /\ Len(q) \in Nat
      /\ r[Len(r)] = s /\ \A i \in DOMAIN q : r[i] = q[i]
  BY <1>0
<1>2. \A x : x \in Range(q) <=> \E i \in DOMAIN q : x = q[i]
  BY DEF Range
<1>3. \A x : x \in Range(r) <=> \E i \in DOMAIN r : x = r[i]
  BY DEF Range
<1>4. Range(r) = Range(q) \union {s}
  <2>1. ASSUME NEW x \in Range(r) PROVE x \in Range(q) \union {s}
    BY <1>1, <1>2, <1>3
  <2>2. ASSUME NEW x \in Range(q) PROVE x \in Range(r)
    BY <1>1, <1>2, <1>3
  <2>3. s \in Range(r)
    BY <1>1, <1>3
  <2> QED
    BY <2>1, <2>2, <2>3
<1>5. \A i, j \in DOMAIN q : q[i] = q[j] => i = j
  BY DEF IsInjective
<1>6. \A i \in DOMAIN q : q[i] # s
  BY <1>2
<1>7. ASSUME NEW i \in DOMAIN r, NEW j \in DOMAIN r, r[i] = r[j] PROVE i = j
  BY <1>1, <1>5, <1>6, <1>7
<1> QED
  BY <1>0, <1>1, <1>4, <1>7 DEF IsInjective

\* A block is marked freed and held back, and older ones make room for it.
LEMMA HoldBackKeeps ==
  ASSUME Discipline, HookInv, HeapInv, NEW t \in Threads, HoldBack(t)
  PROVE  HeapInv' /\ BytesOf(m_quarantine', header') <= m_config.quarantineBytes
<1> USE DEF slotVars, modeVars, Goto
<1>0. PICK p, s, h, q, C :
        /\ p = ptr[t] /\ s = ptr[t][1]
        /\ h = [header EXCEPT ![s].magic = "freed", ![s].pattern = TRUE]
        /\ q = Append(m_quarantine, s) /\ C = Range(q)
  OBVIOUS
<1>1. /\ pc[t] = "release" /\ Unlocked /\ pc' = [pc EXCEPT ![t] = "settle"]
      /\ Drain(q, h, m_config.quarantineBytes)
      /\ ptr' = [ptr EXCEPT ![t] = NoPointer]
      /\ UNCHANGED <<owned, dangling, modeVars, m_list, m_live, m_liveBlocks>>
  BY <1>0 DEF HoldBack
<1>2. /\ HeapTypes /\ Layout /\ Linked /\ Held /\ HeapSafe /\ pc \in [Threads -> Labels]
      /\ ptr \in [Threads -> Pointers] /\ NoPointer \in Pointers
      /\ header \in [Slots -> Header] /\ m_config.quarantineBytes \in Nat
      /\ m_quarantine \in Seq(Slots) /\ IsInjective(m_quarantine)
  BY ConfigFacts DEF HeapInv, HeapTypes, Held, HookInv, HookTypeOK, NoPointer, Pointers
<1>3. s \in Slots \ m_list /\ header[s].magic = "live"
  BY <1>0, <1>1 DEF HeapInv, PointerOK
<1>4. /\ \A r \in owned : r[1] # s
      /\ \A u \in Threads \ {t} : pc[u] \in Holding => ptr[u][1] # s
      /\ pc[t] \in Holding /\ pc'[t] = "settle"
  BY <1>0, <1>1, <1>2, HolderFacts DEF Holding
<1>5. SlotInv(s) /\ s \notin Range(m_quarantine)
  BY <1>3, SlotInvHolds DEF SlotInv
<1>6. /\ h \in [Slots -> Header] /\ \A r \in Slots \ {s} : h[r] = header[r]
      /\ h[s].magic = "freed" /\ h[s].size = header[s].size /\ h[s].redzone = header[s].redzone
  <2>1. header[s] \in Header
    BY <1>2, <1>3
  <2>2. h = [header EXCEPT ![s] = [header[s] EXCEPT !.magic = "freed", !.pattern = TRUE]]
    BY <1>0, <1>2, <1>3
  <2>3. [header[s] EXCEPT !.magic = "freed", !.pattern = TRUE] \in Header
    BY <2>1 DEF Header
  <2> QED
    BY <1>2, <1>3, <2>1, <2>2, <2>3 DEF Header
<1>7. q \in Seq(Slots) /\ IsInjective(q) /\ C = Range(m_quarantine) \union {s}
  BY <1>0, <1>2, <1>3, <1>5, QueueLonger
<1>8. \A r \in Slots \ C : h[r] = header[r] /\ r \notin Range(m_quarantine)
  BY <1>6, <1>7
<1>9. /\ \A r \in C : /\ h[r].magic = "freed" /\ h[r].redzone = m_config.redzone
                      /\ h[r].size \in Sizes /\ heap[r] = 0 /\ r \notin m_list
      /\ \A r \in owned : r[1] \notin C
      /\ \A u \in Threads \ {t} : pc[u] \in Holding => ptr[u][1] \notin C
  <2>1. ASSUME NEW r \in Range(m_quarantine)
        PROVE  /\ h[r].magic = "freed" /\ h[r].redzone = m_config.redzone
               /\ h[r].size \in Sizes /\ heap[r] = 0 /\ r \notin m_list
    BY <1>5, <1>6, HeldFacts
  <2>2. /\ h[s].magic = "freed" /\ h[s].redzone = m_config.redzone
        /\ h[s].size \in Sizes /\ heap[s] = 0 /\ s \notin m_list
    BY <1>3, <1>5, <1>6 DEF SlotInv
  <2>3. /\ \A r \in owned : r[1] \notin Range(m_quarantine)
        /\ \A u \in Threads : pc[u] \in Holding => ptr[u][1] \notin Range(m_quarantine)
    BY HeldFacts
  <2> QED
    BY <1>4, <1>7, <2>1, <2>2, <2>3
<1>10. /\ \A u \in Threads \ {t} : /\ pc'[u] = pc[u] /\ ptr'[u] = ptr[u]
                                   /\ pc[u] \in Holding => ptr[u][1] \notin C
                                   /\ pc[u] # "uninstall"
       /\ ptr' \in [Threads -> Pointers] /\ pc'[t] \notin Holding /\ ptr[t][1] \in C
       /\ m_installed' /\ pc'[t] # "uninstall"
  <2>1. m_installed /\ \A u \in Threads : pc[u] # "uninstall"
    BY <1>1, UnlockedFacts DEF InTracker
  <2>2. ptr[t][1] \in C /\ pc'[t] \notin Holding
    BY <1>0, <1>4, <1>7 DEF Holding
  <2> QED
    BY <1>1, <1>2, <1>4, <1>9, <2>1, <2>2
<1>11. /\ UNCHANGED <<owned, dangling, m_config, m_list, m_live, m_liveBlocks>>
       /\ ~m_installed' \/ pc'[t] = "uninstall" => m_config.quarantineBytes = 0
  BY <1>1, <1>10
<1>12. PICK d \in Nat : d = m_config.quarantineBytes
  BY <1>2
<1>13. C = Range(q) /\ Drain(q, h, d) /\ (~m_installed' \/ pc'[t] = "uninstall" => d = 0)
  BY <1>0, <1>1, <1>11, <1>12
<1>14. HeapInv' /\ BytesOf(m_quarantine', header') <= d
  BY <1>4, <1>6, <1>7, <1>8, <1>9, <1>10, <1>11, <1>13, DrainKeeps
<1> QED
  BY <1>12, <1>14
\* The hook is about to be removed, or stays for now.
LEMMA UninstallKeeps ==
  ASSUME HookInv, HeapInv, NEW t \in Threads, Unlocked, pc[t] \in {"settle", "idle"},
         UninstallIfIdle(t),
         UNCHANGED <<owned, dangling, m_config, m_installed, m_list, m_live, m_liveBlocks, ptr>>
  PROVE  /\ HeapInv'
         /\ m_quarantine' = <<>> \/ UNCHANGED <<m_quarantine, header>>
<1>1. pc \in [Threads -> Labels] /\ pc[t] \notin Holding /\ "uninstall" \in Labels \ Holding
      /\ "idle" \in Labels \ Holding /\ (~m_installed => m_quarantine = <<>>)
  BY DEF HookInv, HookTypeOK, Holding, Labels, HeapInv, Held
<1>2. CASE BeginUninstall(t)
  BY <1>1, <1>2, FlushKeeps DEF BeginUninstall
<1>3. CASE KeepInstalled(t)
  <2>1. /\ pc' = [pc EXCEPT ![t] = "idle"]
        /\ UNCHANGED <<heap, header, badFree, m_quarantine>>
    BY <1>3 DEF KeepInstalled, Goto
  <2>2. ~m_installed' \/ pc'[t] = "uninstall" => m_quarantine = <<>>
    BY <1>1, <2>1
  <2>3. UNCHANGED <<heap, header, owned, dangling, badFree, m_config, m_list, m_live,
                    m_quarantine, m_liveBlocks, ptr>>
    BY <2>1
  <2>4. HeapInv'
    BY <1>1, <2>1, <2>2, <2>3, EmptyHandedKeeps
  <2> QED
    BY <2>1, <2>4
<1> QED
  BY <1>2, <1>3 DEF UninstallIfIdle

\* Without live blocks there is no block at all, once the hook is out.
LEMMA NothingLive ==
  ASSUME HeapInv, m_liveBlocks = 0
  PROVE  m_list = {} /\ m_live = {}
<1>1. IsFiniteSet(m_list) /\ Cardinality(m_list) = 0
  BY DEF HeapInv, Linked
<1>2. m_list = {}
  BY <1>1, FS_EmptySet
<1> QED
  BY <1>2 DEF HeapInv, Linked

\* The steps of install() and of a Scope, and the starts of operations.
LEMMA StartKeeps ==
  ASSUME HookInv, HeapInv, NEW t \in Threads,
         LoadAllocate(t) \/ AllocateFails(t) \/ FinishUninstall(t) \/ ToggleBypass(t)
  PROVE  HeapInv'
<1> USE DEF heapVars, slotVars, modeVars, blockVars, scopeVars, Goto
<1>1. /\ pc \in [Threads -> Labels] /\ (~m_installed => m_quarantine = <<>>)
      /\ {"idle", "rawAllocate", "allocate", "install", "baseline"} \subseteq Labels \ Holding
      /\ dangling = {}
  BY DEF HookInv, HookTypeOK, Holding, Labels, HeapInv, HeapTypes, Held
<1>2. CASE LoadAllocate(t)
  <2>1. /\ UNCHANGED <<heap, header, owned, dangling, badFree, m_config, m_list, m_live,
                       m_quarantine, m_liveBlocks, ptr>>
        /\ m_installed' = m_installed /\ pc[t] \notin Holding
        /\ \E l \in {"rawAllocate", "allocate"} : pc' = [pc EXCEPT ![t] = l]
    BY <1>2 DEF LoadAllocate, MayStart, Holding
  <2>2. PICK l \in {"rawAllocate", "allocate"} : pc' = [pc EXCEPT ![t] = l]
    BY <2>1
  <2>3. l \in Labels \ Holding /\ pc'[t] # "uninstall"
    BY <1>1, <2>2
  <2>4. ~m_installed' \/ pc'[t] = "uninstall" => m_quarantine = <<>>
    BY <1>1, <2>1, <2>3
  <2> QED
    BY <1>1, <2>1, <2>2, <2>3, <2>4, EmptyHandedKeeps
<1>3. CASE AllocateFails(t)
  <2>1. /\ UNCHANGED <<heap, header, owned, dangling, badFree, m_config, m_list, m_live,
                       m_quarantine, m_liveBlocks, ptr>>
        /\ m_installed' = m_installed /\ pc[t] \notin Holding
        /\ pc' = [pc EXCEPT ![t] = "idle"]
    BY <1>3 DEF AllocateFails, Holding
  <2>2. "idle" \in Labels \ Holding /\ pc'[t] # "uninstall"
    BY <1>1, <2>1
  <2>4. ~m_installed' \/ pc'[t] = "uninstall" => m_quarantine = <<>>
    BY <1>1, <2>1, <2>2
  <2> QED
    BY <1>1, <2>1, <2>2, <2>4, EmptyHandedKeeps
<1>4. CASE FinishUninstall(t)
  <2>1. pc[t] = "uninstall" /\ m_quarantine = <<>> /\ m_live = {}
    BY <1>4, NothingLive DEF FinishUninstall, HeapInv, Held, HookInv, SlotsAgree
  <2>2. /\ UNCHANGED <<heap, header, owned, dangling, badFree, m_config, m_list, m_live,
                       m_quarantine, m_liveBlocks, ptr>>
        /\ pc[t] \notin Holding /\ pc' = [pc EXCEPT ![t] = "idle"]
    BY <1>1, <1>4, <2>1 DEF FinishUninstall, Holding
  <2> QED
    BY <1>1, <2>1, <2>2, EmptyHandedKeeps
<1>5. CASE ToggleBypass(t)
  <2>1. /\ UNCHANGED <<heap, header, owned, dangling, badFree, m_config, m_list, m_live,
                       m_quarantine, m_liveBlocks, ptr>>
        /\ m_installed' = m_installed /\ pc' = pc /\ pc[t] = "idle"
    BY <1>5 DEF ToggleBypass
  <2>2. ~m_installed' \/ pc'[t] = "uninstall" => m_quarantine = <<>>
    BY <1>1, <2>1
  <2> QED
    BY <1>1, <2>1, <2>2, EmptyHandedKeeps
<1> QED
  BY <1>2, <1>3, <1>4, <1>5

\* The steps of a Scope that leave the heap alone.
LEMMA ScopeKeeps ==
  ASSUME HookInv, HeapInv,
         FinishInstall \/ ScopeBaseline \/ ScopeReset \/ ReadCounts \/ Sample
           \/ (BeginRecording /\ m_config' = m_config) \/ UNCHANGED vars
  PROVE  HeapInv'
<1> USE DEF heapVars, slotVars, modeVars, blockVars, scopeVars, Goto
<1>1. /\ pc \in [Threads -> Labels] /\ (~m_installed => m_quarantine = <<>>)
      /\ {"idle", "install", "baseline", "reset", "sample"} \subseteq Labels \ Holding
      /\ Main \in Threads
  BY ThreadsAssumption DEF HookInv, HookTypeOK, Holding, Labels, HeapInv, Held
<1>2. /\ UNCHANGED <<heap, header, owned, dangling, badFree, m_config, m_list, m_live,
                     m_quarantine, m_liveBlocks, ptr>>
      /\ m_installed' = m_installed \/ m_installed'
  BY DEF FinishInstall, ScopeBaseline, ScopeReset, ReadCounts, Sample, BeginRecording, vars
<1>3. \/ pc' = pc
      \/ /\ pc[Main] \in {"install", "baseline", "reset", "counts", "sample", "idle"}
         /\ \E l \in {"idle", "install", "baseline", "reset", "sample"} :
              pc' = [pc EXCEPT ![Main] = l]
  BY DEF FinishInstall, ScopeBaseline, ScopeReset, ReadCounts, Sample, BeginRecording, vars
<1>4. ~m_installed' => m_quarantine = <<>>
  BY <1>1, <1>2
<1>5. CASE pc' = pc
  <2>1. pc[Main] = "uninstall" => m_quarantine = <<>>
    BY <1>1 DEF HeapInv, Held
  <2> QED
    BY <1>1, <1>2, <1>4, <1>5, <2>1, EmptyHandedKeeps
<1>6. ASSUME pc[Main] \in {"install", "baseline", "reset", "counts", "sample", "idle"},
             NEW l \in {"idle", "install", "baseline", "reset", "sample"},
             pc' = [pc EXCEPT ![Main] = l]
      PROVE  HeapInv'
  <2>1. pc'[Main] # "uninstall" /\ pc[Main] \notin Holding /\ l \in Labels \ Holding
    BY <1>1, <1>6 DEF Holding
  <2>2. ~m_installed' \/ pc'[Main] = "uninstall" => m_quarantine = <<>>
    BY <1>4, <2>1
  <2> QED
    BY <1>1, <1>2, <1>6, <2>1, <2>2, EmptyHandedKeeps
<1> QED
  BY <1>3, <1>5, <1>6

\* The configuration changes while there is no block anywhere.
LEMMA ConfigureKeeps ==
  ASSUME Discipline, HookInv, HeapInv, BeginRecording, m_config' # m_config
  PROVE  HeapInv' /\ m_quarantine' = <<>>
<1> USE DEF heapVars, slotVars, modeVars, blockVars, scopeVars, Goto
<1>1. /\ ~m_installed /\ Unlocked /\ m_config' \in Configs
      /\ UNCHANGED <<heapVars, m_installed, blockVars, ptr>>
      /\ pc[Main] = "idle" /\ \E l \in {"install", "baseline"} : pc' = [pc EXCEPT ![Main] = l]
  BY DEF BeginRecording, MayConfigure, Discipline, AllAssumes, HeapInv, HeapTypes
<1>2. /\ HeapTypes /\ Layout /\ Linked /\ Held /\ HeapSafe /\ pc \in [Threads -> Labels]
      /\ m_liveBlocks = 0 /\ m_quarantine = <<>> /\ Main \in Threads
  BY <1>1, ThreadsAssumption DEF HeapInv, Held, HookInv, HookTypeOK, OutMeansEmpty
<1>3. m_list = {} /\ m_live = {} /\ \A u \in Threads : pc[u] \notin InTracker
  BY <1>1, <1>2, NothingLive, UnlockedFacts
<1>4. \A s \in Slots : header[s].magic = "none"
  <2>1. SUFFICES ASSUME NEW s \in Slots PROVE header[s].magic = "none"
    OBVIOUS
  <2>2. SlotInv(s) /\ header[s].magic \in {"none", "live", "freed", "smashed"}
    BY SlotInvHolds, SlotFacts DEF Header
  <2>3. s \notin Range(m_quarantine)
    BY <1>2 DEF Range
  <2> QED
    BY <1>3, <2>2, <2>3 DEF SlotInv, InTracker
<1>5. /\ pc'[Main] \notin Holding \union {"uninstall"} /\ pc[Main] = "idle"
      /\ \A u \in Threads \ {Main} : pc'[u] = pc[u]
  BY <1>1, <1>2 DEF Holding
<1>6. HeapTypes'
  BY <1>1, <1>2 DEF HeapTypes
<1>7. Layout'
  BY <1>1, <1>2, <1>3, <1>4 DEF Layout
<1>8. Linked'
  BY <1>1, <1>2, <1>3 DEF Linked
<1>9. Held'
  BY <1>1, <1>2 DEF Held
<1>10. Exclusive'
  BY <1>1, <1>5 DEF HeapInv, Exclusive
<1>11. Placed'
  BY <1>1, <1>3, <1>4 DEF Placed
<1>12. \A p : Raw(p)' <=> Raw(p)
  BY <1>1 DEF Raw
<1>13. \A p \in owned' : Raw(p)' \/ Block(p)'
  BY <1>1, <1>3, <1>12 DEF HeapInv, Block
<1>14. ASSUME NEW u \in Threads PROVE PointerOK(u)'
  <2>1. PointerOK(u) /\ pc[u] \notin InTracker /\ ptr'[u] = ptr[u]
    BY <1>1, <1>3 DEF HeapInv
  <2>2. CASE u = Main
    BY <1>5, <2>2 DEF PointerOK, Holding
  <2>3. CASE u # Main
    BY <1>5, <1>12, <2>1, <2>3 DEF PointerOK, InTracker
  <2> QED
    BY <2>2, <2>3
<1> QED
  BY <1>1, <1>2, <1>6, <1>7, <1>8, <1>9, <1>10, <1>11, <1>13, <1>14 DEF HeapInv, HeapSafe
-----------------------------------------------------------------------------
(* The invariant is one. *)

\* At first there is no chunk anywhere.
LEMMA HeapInvInit == Init => HeapInv /\ m_sequence \in Nat
<1> SUFFICES ASSUME Init PROVE HeapInv /\ m_sequence \in Nat
  OBVIOUS
<1>1. /\ heap = [s \in Slots |-> NoChunk] /\ header = [s \in Slots |-> NoHeader]
      /\ owned = {} /\ dangling = {} /\ badFree = FALSE /\ m_config \in Configs
      /\ m_list = {} /\ m_live = {} /\ m_quarantine = <<>> /\ m_liveBlocks = 0
      /\ pc = [t \in Threads |-> "idle"] /\ ptr = [t \in Threads |-> NoPointer]
      /\ m_sequence = 1
  BY DEF Init
<1>2. NoHeader \in Header /\ NoHeader.magic = "none" /\ NoPointer \in Pointers
  BY DEF NoHeader, Header, NoPointer, Pointers
<1>3. HeapTypes
  BY <1>1, <1>2 DEF HeapTypes
<1>4. Layout
  <2>1. \A s : s \notin Range(m_quarantine)
    BY <1>1 DEF Range
  <2> QED
    BY <1>1, <1>2, <2>1 DEF Layout
<1>5. Linked
  BY <1>1, FS_EmptySet DEF Linked
<1>6. Held
  BY <1>1 DEF Held, IsInjective
<1>7. Exclusive /\ \A t \in Threads : PointerOK(t)
  BY <1>1 DEF Exclusive, Holding, PointerOK
<1>8. Placed
  BY <1>1, <1>2 DEF Placed
<1> QED
  BY <1>1, <1>3, <1>4, <1>5, <1>6, <1>7, <1>8 DEF HeapInv, HeapSafe

\* Every step keeps it.
LEMMA HeapInvNext ==
  ASSUME Discipline, HookInv, HeapInv, m_sequence \in Nat, [Next]_vars
  PROVE  HeapInv'
<1>0. pc \in [Threads -> Labels]
  BY DEF HookInv, HookTypeOK
<1>1. ASSUME NEW t \in Threads,
             RawAllocate(t) \/ RawFree(t) \/ Reallocate(t) \/ LoadDeallocate(t)
      PROVE  HeapInv'
  BY <1>0, <1>1, RawAllocateKeeps, RawFreeKeeps, ReallocateKeeps, LoadDeallocateKeeps
<1>2. ASSUME NEW t \in Threads,
             HookAllocate(t) \/ Link(t) \/ Unlink(t) \/ ReportSmashed(t)
      PROVE  HeapInv'
  BY <1>2, HookAllocateKeeps, LinkKeeps, UnlinkKeeps, ReportSmashedKeeps
<1>3. ASSUME NEW t \in Threads,
             Lookup(t) \/ CountDoubleFree(t) \/ PassThrough(t) \/ InspectRedzones(t)
      PROVE  HeapInv'
  BY <1>0, <1>3, LookupKeeps
<1>4. ASSUME NEW t \in Threads, HoldBack(t) \/ ReleaseNow(t) PROVE HeapInv'
  BY <1>4, HoldBackKeeps, ReleaseNowKeeps
<1>5. ASSUME NEW t \in Threads,
             LoadAllocate(t) \/ AllocateFails(t) \/ FinishUninstall(t) \/ ToggleBypass(t)
      PROVE  HeapInv'
  BY <1>5, StartKeeps
<1>6. ASSUME NEW t \in Threads, Settle(t) PROVE HeapInv'
  BY <1>6, UninstallKeeps DEF Settle
<1>7. ASSUME NEW t \in Threads, DoubleFree(t) PROVE FALSE
  BY <1>7 DEF DoubleFree, Discipline
<1>8. ASSUME EndRecording PROVE HeapInv'
  BY <1>8, UninstallKeeps, ThreadsAssumption DEF EndRecording
<1>9. ASSUME FlushQuarantine PROVE HeapInv'
  <2>1. pc[Main] \notin Holding /\ "counts" \in Labels \ Holding
    BY <1>9 DEF FlushQuarantine, Holding, Labels
  <2>2. /\ Unlocked /\ Drain(m_quarantine, header, 0) /\ Goto(Main, "counts")
        /\ UNCHANGED <<owned, dangling, m_config, m_list, m_live, m_liveBlocks, ptr>>
    BY <1>9 DEF FlushQuarantine, modeVars
  <2> QED
    BY <2>1, <2>2, FlushKeeps, ThreadsAssumption
<1>10. ASSUME ContinueScope \/ UNCHANGED vars PROVE HeapInv'
  BY <1>10, ScopeKeeps DEF ContinueScope
<1>11. ASSUME BeginRecording PROVE HeapInv'
  BY <1>11, ScopeKeeps, ConfigureKeeps
<1>12. ASSUME ProgramWrites PROVE HeapInv'
  BY <1>12, ProgramWritesKeeps
<1> QED
  BY <1>1, <1>2, <1>3, <1>4, <1>5, <1>6, <1>7, <1>8, <1>9, <1>10, <1>11, <1>12
     DEF Next, Continue

\* Blocks are numbered upwards from one.
LEMMA SequenceNext ==
  ASSUME m_sequence \in Nat, [Next]_vars
  PROVE  m_sequence' \in Nat
<1>1. m_sequence' = m_sequence \/ m_sequence' = m_sequence + 1
  BY DEF Next, Continue, ContinueScope, blockVars, vars,
         RawAllocate, AllocateFails, HookAllocate, Link, RawFree, Lookup, CountDoubleFree,
         PassThrough, ReportSmashed, InspectRedzones, Unlink, HoldBack, ReleaseNow, Settle,
         FinishUninstall, LoadAllocate, LoadDeallocate, Reallocate, DoubleFree, ToggleBypass,
         FinishInstall, ScopeBaseline, ScopeReset, ReadCounts, Sample, BeginRecording,
         EndRecording, FlushQuarantine, ProgramWrites
<1> QED
  BY <1>1

\* The two halves of the hook agree, and so do the heap and the tracker.
LEMMA HeapInvHolds ==
  ASSUME Discipline
  PROVE  Spec => [](HookInv /\ HeapInv)
<1> DEFINE I == HookInv /\ HeapInv /\ m_sequence \in Nat
<1>1. Init => I
  BY HookInvInit, HeapInvInit
<1>2. I /\ [Next]_vars => I'
  BY HookInvNext, HeapInvNext, SequenceNext DEF Discipline, AllAssumes
<1>3. I => HookInv /\ HeapInv
  OBVIOUS
<1> HIDE DEF I
<1> QED
  BY <1>1, <1>2, <1>3, PTL DEF Spec

\* Under the discipline the system allocator is only ever handed back chunks of
\* its own, each once: HeapSafe for any number of threads, slots and sizes.
THEOREM OnlyItsOwnIsFreed ==
  ASSUME Discipline
  PROVE  Spec => []HeapSafe
<1>1. HeapInv => HeapSafe
  BY DEF HeapInv
<1> QED
  BY <1>1, HeapInvHolds, PTL

\* And when all threads are outside the library, every block is the program's,
\* held back, or leaked on purpose.
THEOREM NoBlockIsStranded ==
  ASSUME Discipline
  PROVE  Spec => []NothingStranded
<1>1. HeapInv => NothingStranded
  <2> SUFFICES ASSUME HeapInv, AllIdle, NEW s \in Slots, header[s] # NoHeader,
                      header[s].magic # "smashed", s \notin Range(m_quarantine)
               PROVE  s \in m_list /\ payloadOf(s, header[s].redzone) \in owned
    BY DEF NothingStranded
  <2>1. /\ SlotInv(s) /\ header[s].magic \in {"none", "live", "freed", "smashed"}
        /\ \A t \in Threads : pc[t] = "idle"
    BY SlotInvHolds, SlotFacts DEF Header, AllIdle
  <2>2. header[s].magic = "live" /\ Payload(s) = payloadOf(s, header[s].redzone)
    BY <2>1 DEF SlotInv, Payload
  <2> QED
    BY <2>1, <2>2 DEF SlotInv
<1> QED
  BY <1>1, HeapInvHolds, PTL

==============================================================================

------------------------------- MODULE Tracker -------------------------------
(***************************************************************************)
(* The allocation tracker of testrixa: the hook that operator new/delete   *)
(* call through (allocator.hpp), the Tracker behind it and the Scope that  *)
(* turns it on (tracker.hpp), with the block layout they rest on           *)
(* (block.hpp).                                                            *)
(*                                                                         *)
(* The heap is a set of Slots, each holding at most one chunk.  A pointer  *)
(* is <<slot, offset>>.  A tracked block starts at offset 0 with its       *)
(* header, and the program is given <<slot, payloadOffset(redzone)>>; a    *)
(* chunk from the system allocator starts at one of SystemOffsets.  Bytes  *)
(* are not modelled: a header says whether its magic, its guards and its   *)
(* freed pattern are still what the tracker wrote.                         *)
(*                                                                         *)
(* Everything done under m_mutex is one step, except install(), whose two  *)
(* stores other threads can observe between: there m_mutex is held over    *)
(* two steps.  Reads the code makes without the lock are in the step that  *)
(* makes them, before the step that takes the lock.                        *)
(***************************************************************************)
EXTENDS Integers, Sequences, FiniteSets, Functions

CONSTANTS
  Threads,          \* the program's threads
  Main,             \* the one that opens and closes Scopes
  Slots,            \* regions of the heap
  Sizes,            \* sizes the program asks for; operator new makes 0 into 1
  Configs,          \* configurations a Scope may be opened with
  SystemOffsets,    \* where in a slot the system allocator places a chunk
  HeaderSize, DefaultAlignment,  \* sizeof(BlockHeader), default alignment
  Word,             \* SIZE_MAX + 1
  MaxAllocations,   \* bound: tracked allocations of one behaviour
  MaxDepth,         \* bound: Scopes nested in one another
  MaxDoubleFrees,   \* bound: double frees of one behaviour
  BypassThreads,    \* threads that use a Bypass of their own
  Faults,           \* mistakes the program under test makes
  Assumes,          \* discipline the program keeps, see MayStart and MayFree
  NoOne             \* the owner of a free mutex

AllFaults  == {"doublefree", "overrun", "smash", "danglingwrite"}
AllAssumes == {"joined", "bypass", "oneconfig", "intact"}

Config == [redzone : Nat, checkRedzone : BOOLEAN, checkDoubleFree : BOOLEAN,
           patternFill : BOOLEAN, quarantineBytes : Nat]

ASSUME ThreadsAssumption == Main \in Threads /\ NoOne \notin Threads
ASSUME LayoutAssumption ==
  HeaderSize \in Nat /\ DefaultAlignment \in Nat \ {0} /\ SystemOffsets \subseteq Nat
ASSUME SizesAssumption == Sizes \subseteq Nat \ {0} /\ Word \in Nat \ {0}
ASSUME ConfigsAssumption == Configs \subseteq Config /\ Configs # {}
ASSUME ProgramAssumption ==
  /\ Faults \subseteq AllFaults /\ Assumes \subseteq AllAssumes
  /\ BypassThreads \subseteq Threads
  /\ MaxAllocations \in Nat /\ MaxDepth \in Nat /\ MaxDoubleFrees \in Nat

VARIABLES
  \* the heap and the program
  heap,             \* offset at which the slot's chunk starts, or NoChunk
  header,           \* the BlockHeader at offset 0 of the slot, or NoHeader
  owned,            \* pointers the program has and has not freed
  dangling,         \* payloads freed since the hook was installed
  badFree,          \* the system allocator was handed a pointer not its own
  truth,            \* the mistakes the program has made, as they happened
  \* the replacement point
  allocateSlot, deallocateSlot,
  \* Tracker
  m_mutex, m_config, m_installed, m_recording,
  m_list,           \* slots of the blocks linked from m_head
  m_live, m_freedRecently, m_quarantine,
  m_sequence, m_liveBlocks,
  counts,           \* the remaining counters
  \* threads
  pc, ptr, bypass,
  \* Scope
  scopes, report

heapVars  == <<heap, header, owned, dangling, badFree, truth>>
slotVars  == <<allocateSlot, deallocateSlot>>
modeVars  == <<m_mutex, m_config, m_installed, m_recording>>
blockVars == <<m_list, m_live, m_freedRecently, m_quarantine, m_sequence,
               m_liveBlocks, counts>>
scopeVars == <<scopes, report>>
vars == <<heapVars, slotVars, modeVars, blockVars, pc, ptr, bypass, scopeVars>>

-----------------------------------------------------------------------------
(* Block layout. *)

NoChunk == -1
NoHeader == [magic |-> "none", size |-> 0, redzone |-> 0, sequence |-> 0,
             guard |-> TRUE, pattern |-> TRUE]
NoPointer == <<NoOne, 0>>

AlignUp(n, alignment) == ((n + alignment - 1) \div alignment) * alignment

\* Distance from the start of a block to its payload.
payloadOffset(redzone) == AlignUp(HeaderSize + redzone, DefaultAlignment)

payloadOf(s, redzone) == <<s, payloadOffset(redzone)>>

\* The header doDeallocate finds: it steps back by the offset of the current
\* configuration, and lands on bytes that are no header when the block was
\* laid out with another.
headerOfForgettingRedzone(p) ==   \* mutant: as if there were no redzone
  IF p[2] = payloadOffset(0) THEN header[p[1]] ELSE NoHeader

headerOf(p) ==
  IF p[2] = payloadOffset(m_config.redzone) THEN header[p[1]] ELSE NoHeader

\* size_t subtraction.
Minus(a, b) == IF a >= b THEN a - b ELSE a - b + Word

\* The program's view: p is a payload the tracker handed out.
Tracked(p) ==
  /\ header[p[1]] # NoHeader
  /\ p = payloadOf(p[1], header[p[1]].redzone)

-----------------------------------------------------------------------------
Init ==
  /\ heap = [s \in Slots |-> NoChunk]
  /\ header = [s \in Slots |-> NoHeader]
  /\ owned = {} /\ dangling = {} /\ badFree = FALSE
  /\ truth = [doubleFrees |-> 0, overflows |-> 0, useAfterFrees |-> 0]
  /\ allocateSlot = "system" /\ deallocateSlot = "system"
  /\ m_mutex = NoOne
  /\ m_config \in Configs
  /\ m_installed = FALSE
  /\ m_recording = 0
  /\ m_list = {} /\ m_live = {} /\ m_freedRecently = {}
  /\ m_quarantine = <<>>
  /\ m_sequence = 1
  /\ m_liveBlocks = 0
  /\ counts = [allocations |-> 0, frees |-> 0, doubleFrees |-> 0,
               overflows |-> 0, useAfterFrees |-> 0,
               liveBytes |-> 0, peakBytes |-> 0, largestBlock |-> 0]
  /\ pc = [t \in Threads |-> "idle"]
  /\ ptr = [t \in Threads |-> NoPointer]
  /\ bypass = [t \in Threads |-> FALSE]
  /\ scopes = <<>>
  /\ report = {}

UnlockedAlways == TRUE            \* mutant: the lock is not taken

Unlocked == m_mutex = NoOne

Goto(t, label) == pc' = [pc EXCEPT ![t] = label]

-----------------------------------------------------------------------------
(***************************************************************************)
(* What the program may do.  "joined": worker threads run inside a Scope   *)
(* or while the hook is out, and are joined before the Scope reports or    *)
(* closes; while a leak keeps the hook in after that, one thread at a time *)
(* uses the heap.  "bypass": under a Bypass only untracked memory is       *)
(* freed.  "oneconfig": the configuration is changed only while the hook   *)
(* is out.  "intact": a block whose header was overwritten is not grown.   *)
(***************************************************************************)
Alone(t) == \A u \in Threads \ {t} : pc[u] = "idle"

Lingering == m_installed /\ m_recording = 0

Joined == "joined" \in Assumes => Alone(Main)

MayStart(t) ==
  /\ pc[t] = "idle"
  /\ "joined" \in Assumes =>
       /\ Lingering => Alone(t)
       /\ pc[Main] \notin {"counts", "sample"}

MayFree(t, p) == "bypass" \in Assumes /\ bypass[t] => ~Tracked(p)

MayConfigure(config) == "oneconfig" \in Assumes => config = m_config \/ ~m_installed

MayReallocate(p) ==
  "intact" \in Assumes /\ Tracked(p) => header[p[1]].magic = "live"

\* Bounds m_sequence.
InBudget ==
  m_sequence + Cardinality({t \in Threads : pc[t] \in {"allocate", "link"}})
    <= MaxAllocations

-----------------------------------------------------------------------------
(* Allocation: operator new, then allocate(), then the system or the hook. *)

LoadAllocate(t) ==
  /\ MayStart(t)
  /\ IF bypass[t] \/ allocateSlot = "system"
     THEN Goto(t, "rawAllocate")
     ELSE InBudget /\ Goto(t, "allocate")
  /\ UNCHANGED <<heapVars, slotVars, modeVars, blockVars, ptr, bypass, scopeVars>>

\* The system allocator places a chunk in a free slot.
RawAllocate(t) ==
  /\ pc[t] = "rawAllocate"
  /\ \E s \in Slots, o \in SystemOffsets :
       /\ heap[s] = NoChunk
       /\ heap' = [heap EXCEPT ![s] = o]
       /\ owned' = owned \union {<<s, o>>}
       /\ dangling' = dangling \ {<<s, o>>}
  /\ Goto(t, "idle")
  /\ UNCHANGED <<header, badFree, truth, slotVars, modeVars, blockVars,
                 ptr, bypass, scopeVars>>

\* The raw allocation returned null: operator new throws or returns null.
AllocateFails(t) ==
  /\ pc[t] \in {"rawAllocate", "allocate"}
  /\ Goto(t, "idle")
  /\ UNCHANGED <<heapVars, slotVars, modeVars, blockVars, ptr, bypass, scopeVars>>

\* doAllocate up to the lock: the block is laid out by the configuration as
\* it reads without the lock, and its guards are painted.
HookAllocate(t) ==
  /\ pc[t] = "allocate"
  /\ LET redzone == IF m_config.checkRedzone THEN m_config.redzone ELSE 0
     IN \E s \in Slots, size \in Sizes :
          /\ heap[s] = NoChunk
          /\ heap' = [heap EXCEPT ![s] = 0]
          /\ header' = [header EXCEPT ![s] =
               [NoHeader EXCEPT !.magic = "live", !.size = size,
                                !.redzone = redzone, !.pattern = FALSE]]
          /\ ptr' = [ptr EXCEPT ![t] = payloadOf(s, redzone)]
  /\ Goto(t, "link")
  /\ UNCHANGED <<owned, dangling, badFree, truth, slotVars, modeVars, blockVars,
                 bypass, scopeVars>>

\* doAllocate under the lock: number, link and count the block.
Link(t) ==
  /\ pc[t] = "link" /\ Unlocked
  /\ LET p     == ptr[t]
         size  == header[p[1]].size
         bytes == counts.liveBytes + size
     IN /\ header' = [header EXCEPT ![p[1]].sequence = m_sequence]
        /\ m_list' = m_list \union {p[1]}
        /\ m_live' = m_live \union {p}
        /\ m_freedRecently' = m_freedRecently \ {p}
        /\ counts' = [counts EXCEPT
             !.allocations = @ + 1,
             !.liveBytes = bytes,
             !.peakBytes = IF bytes > @ THEN bytes ELSE @,
             !.largestBlock = IF size > @ THEN size ELSE @]
        /\ owned' = owned \union {p}
        /\ dangling' = dangling \ {p}
  /\ m_sequence' = m_sequence + 1
  /\ m_liveBlocks' = m_liveBlocks + 1
  /\ ptr' = [ptr EXCEPT ![t] = NoPointer]
  /\ Goto(t, "idle")
  /\ UNCHANGED <<heap, badFree, truth, slotVars, modeVars, m_quarantine, bypass,
                 scopeVars>>

-----------------------------------------------------------------------------
(* Deallocation: operator delete, then deallocate(), then doDeallocate. *)

\* A free is handed to whatever the slot holds when it is loaded.
Dispatch(t, p) ==
  /\ ptr' = [ptr EXCEPT ![t] = p]
  /\ IF bypass[t] \/ deallocateSlot = "system"
     THEN Goto(t, "rawFree")
     ELSE Goto(t, "lookup")

\* The block's damage is what its free has to report.
LoadDeallocate(t) ==
  /\ MayStart(t)
  /\ \E p \in owned :
       /\ MayFree(t, p)
       /\ Dispatch(t, p)
       /\ owned' = owned \ {p}
       /\ dangling' = IF "doublefree" \in Faults /\ Tracked(p)
                      THEN dangling \union {p} ELSE dangling
       /\ truth' = [truth EXCEPT !.overflows =
            IF Tracked(p) /\ (header[p[1]].magic # "live" \/ ~header[p[1]].guard)
            THEN @ + 1 ELSE @]
  /\ UNCHANGED <<heap, header, badFree, slotVars, modeVars, blockVars, bypass, scopeVars>>

\* free(p) of something that is not p's own chunk corrupts the heap.
RawFree(t) ==
  /\ pc[t] = "rawFree"
  /\ LET s == ptr[t][1]
         mine == heap[s] = ptr[t][2]
     IN /\ heap' = IF mine THEN [heap EXCEPT ![s] = NoChunk] ELSE heap
        /\ header' = IF mine THEN [header EXCEPT ![s] = NoHeader] ELSE header
        /\ badFree' = (badFree \/ ~mine)
  /\ ptr' = [ptr EXCEPT ![t] = NoPointer]
  /\ Goto(t, "idle")
  /\ UNCHANGED <<owned, dangling, truth, slotVars, modeVars, blockVars, bypass, scopeVars>>

trackedSizeWhileRecording(p) ==   \* mutant: m_recording instead of m_installed
  m_recording > 0 /\ p \in m_live /\ headerOf(p).magic = "live"

\* Whether realloc may grow p by hand, as allocate, copy and release.
trackedSize(p) == m_installed /\ p \in m_live /\ headerOf(p).magic = "live"

\* reallocate() of anything else: std::realloc moves or keeps the chunk.  (Of a
\* tracked block it is an allocation and a free, which are there already.)
Reallocate(t) ==
  /\ MayStart(t) /\ Unlocked
  /\ \E p \in owned :
       /\ MayReallocate(p) /\ ~trackedSize(p)
       /\ IF heap[p[1]] = p[2]
          THEN \E s \in Slots, o \in SystemOffsets :
                 /\ s = p[1] \/ heap[s] = NoChunk
                 /\ heap' = [heap EXCEPT ![p[1]] = NoChunk, ![s] = o]
                 /\ header' = [header EXCEPT ![p[1]] = NoHeader]
                 /\ owned' = (owned \ {p}) \union {<<s, o>>}
                 /\ dangling' = dangling \ {<<s, o>>}
                 /\ UNCHANGED badFree
          ELSE /\ badFree' = TRUE
               /\ UNCHANGED <<heap, header, owned, dangling>>
  /\ UNCHANGED <<truth, slotVars, modeVars, blockVars, pc, ptr, bypass, scopeVars>>

Lookup(t) ==
  /\ pc[t] = "lookup" /\ Unlocked
  /\ Goto(t, IF ptr[t] \in m_live THEN "inspect" ELSE "notOurs")
  /\ UNCHANGED <<heapVars, slotVars, modeVars, blockVars, ptr, bypass, scopeVars>>

\* Not in the live set: one of ours freed twice, or not ours at all.
CountDoubleFree(t) ==
  /\ pc[t] = "notOurs" /\ Unlocked
  /\ m_config.checkDoubleFree /\ ptr[t] \in m_freedRecently
  /\ counts' = [counts EXCEPT !.doubleFrees = @ + 1]
  /\ ptr' = [ptr EXCEPT ![t] = NoPointer]
  /\ Goto(t, "idle")
  /\ UNCHANGED <<heapVars, slotVars, modeVars, m_list, m_live, m_freedRecently,
                 m_quarantine, m_sequence, m_liveBlocks, bypass, scopeVars>>

PassThrough(t) ==
  /\ pc[t] = "notOurs"
  /\ m_config.checkDoubleFree => Unlocked /\ ptr[t] \notin m_freedRecently
  /\ Goto(t, "rawFree")
  /\ UNCHANGED <<heapVars, slotVars, modeVars, blockVars, ptr, bypass, scopeVars>>

\* Mutant: the smashed block is counted as freed.
ReportSmashedAsFreed(t) ==
  /\ pc[t] = "inspect" /\ Unlocked
  /\ headerOf(ptr[t]).magic # "live"
  /\ counts' = [counts EXCEPT !.overflows = @ + 1]
  /\ m_live' = m_live \ {ptr[t]}
  /\ m_liveBlocks' = Minus(m_liveBlocks, 1)
  /\ ptr' = [ptr EXCEPT ![t] = NoPointer]
  /\ Goto(t, "idle")
  /\ UNCHANGED <<heapVars, slotVars, modeVars, m_list, m_freedRecently,
                 m_quarantine, m_sequence, bypass, scopeVars>>

\* The header is not a live one: report it, and leak the block.
ReportSmashed(t) ==
  /\ pc[t] = "inspect" /\ Unlocked
  /\ headerOf(ptr[t]).magic # "live"
  /\ counts' = [counts EXCEPT !.overflows = @ + 1]
  /\ m_live' = m_live \ {ptr[t]}
  /\ ptr' = [ptr EXCEPT ![t] = NoPointer]
  /\ Goto(t, "idle")
  /\ UNCHANGED <<heapVars, slotVars, modeVars, m_list, m_freedRecently,
                 m_quarantine, m_sequence, m_liveBlocks, bypass, scopeVars>>

DamagedIfPainted(h) ==            \* mutant: the wrong flag is consulted
  m_config.patternFill /\ ~h.guard

Damaged(h) == m_config.checkRedzone /\ ~h.guard

InspectRedzones(t) ==
  /\ pc[t] = "inspect"
  /\ headerOf(ptr[t]).magic = "live"
  /\ IF Damaged(headerOf(ptr[t]))
     THEN Unlocked /\ counts' = [counts EXCEPT !.overflows = @ + 1]
     ELSE UNCHANGED counts
  /\ Goto(t, "unlink")
  /\ UNCHANGED <<heapVars, slotVars, modeVars, m_list, m_live, m_freedRecently,
                 m_quarantine, m_sequence, m_liveBlocks, ptr, bypass, scopeVars>>

Remember(p) ==
  IF m_config.checkDoubleFree THEN m_freedRecently \union {p} ELSE m_freedRecently

Unlink(t) ==
  /\ pc[t] = "unlink" /\ Unlocked
  /\ LET p == ptr[t]
     IN /\ m_list' = m_list \ {p[1]}
        /\ m_live' = m_live \ {p}
        /\ m_freedRecently' = Remember(p)
        /\ m_liveBlocks' = Minus(m_liveBlocks, 1)
        /\ counts' = [counts EXCEPT
             !.frees = @ + 1,
             !.liveBytes = Minus(@, header[p[1]].size)]
  /\ Goto(t, "release")
  /\ UNCHANGED <<heapVars, slotVars, modeVars, m_quarantine, m_sequence, ptr, bypass,
                 scopeVars>>

\* Bytes the queue q holds back, given the headers h.
BytesOf(q, h) == SumFunction([i \in DOMAIN q |-> h[q[i]].size])

\* How many blocks quarantineDrainLocked(downTo) takes from the head of q.
DrainCount(q, h, downTo) ==
  Cardinality({j \in 1..Len(q) : BytesOf(SubSeq(q, j, Len(q)), h) > downTo})

\* quarantineDrainLocked: checks the pattern of each block on its way out.
Drain(q, h, downTo) ==
  LET k == DrainCount(q, h, downTo)
      gone == {q[i] : i \in 1..k}
      disturbed == {i \in 1..k : ~h[q[i]].pattern}
  IN /\ m_quarantine' = SubSeq(q, k + 1, Len(q))
     /\ heap' = [s \in Slots |-> IF s \in gone THEN NoChunk ELSE heap[s]]
     /\ header' = [s \in Slots |-> IF s \in gone THEN NoHeader ELSE h[s]]
     /\ badFree' = (badFree \/ Cardinality(gone) # k \/ \E s \in gone : heap[s] # 0)
     /\ counts' = [counts EXCEPT !.useAfterFrees =
          IF m_config.patternFill THEN @ + Cardinality(disturbed) ELSE @]

Quarantining == m_config.patternFill /\ m_config.quarantineBytes > 0

\* The end of doDeallocate: the block is marked freed, then painted and held
\* back ...
HoldBack(t) ==
  /\ pc[t] = "release" /\ Unlocked
  /\ Quarantining
  /\ LET s == ptr[t][1]
     IN Drain(Append(m_quarantine, s),
              [header EXCEPT ![s].magic = "freed", ![s].pattern = TRUE],
              m_config.quarantineBytes)
  /\ ptr' = [ptr EXCEPT ![t] = NoPointer]
  /\ Goto(t, "settle")
  /\ UNCHANGED <<owned, dangling, truth, slotVars, modeVars, m_list, m_live,
                 m_freedRecently, m_sequence, m_liveBlocks, bypass, scopeVars>>

\* ... or released.
ReleaseNow(t) ==
  /\ pc[t] = "release"
  /\ ~Quarantining
  /\ LET s == ptr[t][1]
     IN /\ heap' = [heap EXCEPT ![s] = NoChunk]
        /\ header' = [header EXCEPT ![s] = NoHeader]
        /\ badFree' = (badFree \/ heap[s] # 0)
  /\ ptr' = [ptr EXCEPT ![t] = NoPointer]
  /\ Goto(t, "settle")
  /\ UNCHANGED <<owned, dangling, truth, slotVars, modeVars, blockVars, bypass, scopeVars>>

-----------------------------------------------------------------------------
(* Installing and removing the hook. *)

CanUninstallEarly ==              \* mutant: live blocks are not asked about
  m_recording' = 0 /\ m_installed

CanUninstallLate ==               \* mutant: the Scope is still counted in
  m_recording = 0 /\ m_installed /\ m_liveBlocks = 0

CanUninstall == m_recording' = 0 /\ m_installed /\ m_liveBlocks = 0

\* Mutant: the quarantine is left as it is.
BeginUninstallUndrained(t) ==
  /\ allocateSlot' = "system"
  /\ m_mutex' = t
  /\ Goto(t, "uninstall")
  /\ UNCHANGED <<m_quarantine, heap, header, badFree, counts>>

\* uninstallIfIdleLocked, to the first store of install(m_previous).
BeginUninstall(t) ==
  /\ Drain(m_quarantine, header, 0)
  /\ allocateSlot' = "system"
  /\ m_mutex' = t
  /\ Goto(t, "uninstall")

KeepInstalled(t) ==
  /\ Goto(t, "idle")
  /\ UNCHANGED <<m_quarantine, heap, header, badFree, counts, allocateSlot, m_mutex>>

UninstallIfIdle(t) ==
  IF CanUninstall THEN BeginUninstall(t) ELSE KeepInstalled(t)

FinishUninstall(t) ==
  /\ pc[t] = "uninstall"
  /\ deallocateSlot' = "system"
  /\ m_installed' = FALSE
  /\ m_live' = {} /\ m_freedRecently' = {} /\ dangling' = {}
  /\ m_mutex' = NoOne
  /\ Goto(t, "idle")
  /\ UNCHANGED <<heap, header, owned, badFree, truth, allocateSlot, m_config,
                 m_recording, m_list, m_quarantine, m_sequence, m_liveBlocks, counts,
                 ptr, bypass, scopeVars>>

\* The last thing doDeallocate does.
Settle(t) ==
  /\ pc[t] = "settle" /\ Unlocked
  /\ UNCHANGED m_recording
  /\ UninstallIfIdle(t)
  /\ UNCHANGED <<owned, dangling, truth, deallocateSlot, m_config, m_installed, m_list,
                 m_live, m_freedRecently, m_sequence, m_liveBlocks, ptr, bypass, scopeVars>>

\* beginRecording, to the first store of install(): the outermost Scope sets
\* the configuration.
BeginRecording ==
  /\ pc[Main] = "idle" /\ Unlocked
  /\ Len(scopes) < MaxDepth
  /\ \E config \in Configs :
       /\ MayConfigure(config)
       /\ m_config' = IF m_recording = 0 THEN config ELSE m_config
  /\ IF m_recording = 0 /\ ~m_installed
     THEN /\ allocateSlot' = "hook"
          /\ m_mutex' = Main
          /\ Goto(Main, "install")
          /\ UNCHANGED m_recording
     ELSE /\ m_recording' = m_recording + 1
          /\ Goto(Main, "baseline")
          /\ UNCHANGED <<allocateSlot, m_mutex>>
  /\ UNCHANGED <<heapVars, deallocateSlot, m_installed, blockVars, ptr, bypass, scopeVars>>

FinishInstall ==
  /\ pc[Main] = "install"
  /\ deallocateSlot' = "hook"
  /\ m_installed' = TRUE
  /\ m_recording' = m_recording + 1
  /\ m_mutex' = NoOne
  /\ Goto(Main, "baseline")
  /\ UNCHANGED <<heapVars, allocateSlot, m_config, blockVars, ptr, bypass, scopeVars>>

StopRecordingNot == UNCHANGED m_recording \* mutant: a Scope never leaves

StopRecording == m_recording' = IF m_recording > 0 THEN m_recording - 1 ELSE m_recording

\* endRecording, from ~Scope.
EndRecording ==
  /\ pc[Main] = "idle" /\ Unlocked /\ Joined
  /\ scopes # <<>>
  /\ StopRecording
  /\ scopes' = SubSeq(scopes, 1, Len(scopes) - 1)
  /\ report' = {}
  /\ UninstallIfIdle(Main)
  /\ UNCHANGED <<owned, dangling, truth, deallocateSlot, m_config, m_installed, m_list,
                 m_live, m_freedRecently, m_sequence, m_liveBlocks, ptr, bypass>>

-----------------------------------------------------------------------------
(* Scope: the rest of its constructor, and report(). *)

\* The counters a report subtracts, read without the lock.  (opening is a
\* history field: the program's mistakes before this Scope.)
ScopeBaseline ==
  /\ pc[Main] = "baseline"
  /\ scopes' = Append(scopes,
       [sequence |-> m_sequence, allocations |-> counts.allocations,
        frees |-> counts.frees, doubleFrees |-> counts.doubleFrees,
        overflows |-> counts.overflows, useAfterFrees |-> counts.useAfterFrees,
        peakBase |-> 0, opening |-> truth])
  /\ Goto(Main, "reset")
  /\ UNCHANGED <<heapVars, slotVars, modeVars, blockVars, ptr, bypass, report>>

ResetToZero == [counts EXCEPT !.peakBytes = 0, !.largestBlock = 0]        \* mutant

Reset == [counts EXCEPT !.peakBytes = counts.liveBytes, !.largestBlock = 0]

\* resetPeak and resetLargest, without the lock.
ScopeReset ==
  /\ pc[Main] = "reset"
  /\ counts' = Reset
  /\ scopes' = [scopes EXCEPT ![Len(scopes)].peakBase = counts.liveBytes]
  /\ Goto(Main, "idle")
  /\ UNCHANGED <<heapVars, slotVars, modeVars, m_list, m_live, m_freedRecently,
                 m_quarantine, m_sequence, m_liveBlocks, ptr, bypass, report>>

FlushQuarantine ==
  /\ pc[Main] = "idle" /\ Unlocked /\ Joined
  /\ scopes # <<>>
  /\ Drain(m_quarantine, header, 0)
  /\ report' = {}
  /\ Goto(Main, "counts")
  /\ UNCHANGED <<owned, dangling, truth, slotVars, modeVars, m_list, m_live,
                 m_freedRecently, m_sequence, m_liveBlocks, ptr, bypass, scopes>>

ReadCounts ==
  /\ pc[Main] = "counts"
  /\ LET base == scopes[Len(scopes)]
     IN report' = {[
          allocations |-> Minus(counts.allocations, base.allocations),
          frees |-> Minus(counts.frees, base.frees),
          doubleFrees |-> Minus(counts.doubleFrees, base.doubleFrees),
          overflows |-> Minus(counts.overflows, base.overflows),
          useAfterFrees |-> Minus(counts.useAfterFrees, base.useAfterFrees),
          peakBytes |-> Minus(counts.peakBytes, base.peakBase),
          largestBlock |-> counts.largestBlock,
          leakedBlocks |-> 0, leakedBytes |-> 0]}
  /\ Goto(Main, "sample")
  /\ UNCHANGED <<heapVars, slotVars, modeVars, blockVars, ptr, bypass, scopes>>

LeakedAfter(from) ==              \* mutant: the Scope's first block is missed
  {s \in m_list : header[s].sequence > from}

Leaked(from) == {s \in m_list : header[s].sequence >= from}

\* sample(): the blocks of the list that are younger than the Scope.
Sample ==
  /\ pc[Main] = "sample" /\ Unlocked
  /\ LET leaked == Leaked(scopes[Len(scopes)].sequence)
     IN report' = {[r EXCEPT !.leakedBlocks = Cardinality(leaked),
                             !.leakedBytes = SumFunction([s \in leaked |-> header[s].size])]
                   : r \in report}
  /\ Goto(Main, "idle")
  /\ UNCHANGED <<heapVars, slotVars, modeVars, blockVars, ptr, bypass, scopes>>

-----------------------------------------------------------------------------
(* Bypass, and the mistakes of the program under test. *)

ToggleBypass(t) ==
  /\ pc[t] = "idle" /\ t \in BypassThreads
  /\ bypass' = [bypass EXCEPT ![t] = ~@]
  /\ UNCHANGED <<heapVars, slotVars, modeVars, blockVars, pc, ptr, scopeVars>>

\* A second free of a block, before the slot holds anything else.
DoubleFree(t) ==
  /\ "doublefree" \in Faults
  /\ truth.doubleFrees < MaxDoubleFrees
  /\ MayStart(t) /\ ~bypass[t]
  /\ \E p \in dangling :
       /\ header[p[1]] # NoHeader \/ heap[p[1]] = NoChunk
       /\ Dispatch(t, p)
  /\ truth' = [truth EXCEPT !.doubleFrees = @ + 1]
  /\ UNCHANGED <<heap, header, owned, dangling, badFree, slotVars, modeVars, blockVars,
                 bypass, scopeVars>>

\* A write past the payload damages a guard ...
Overrun(p) ==
  /\ "overrun" \in Faults
  /\ Tracked(p) /\ header[p[1]].redzone > 0
  /\ header' = [header EXCEPT ![p[1]].guard = FALSE]
  /\ UNCHANGED truth

\* ... or reaches a header.
Smash(p) ==
  /\ "smash" \in Faults
  /\ Tracked(p)
  /\ header' = [header EXCEPT ![p[1]].magic = "smashed"]
  /\ UNCHANGED truth

\* A write through a dangling pointer, while the block is held back.
DanglingWrite(s) ==
  /\ "danglingwrite" \in Faults
  /\ header[s].pattern
  /\ header' = [header EXCEPT ![s].pattern = FALSE]
  /\ truth' = [truth EXCEPT !.useAfterFrees = @ + 1]

ProgramWrites ==
  /\ \E t \in Threads : pc[t] = "idle"
  /\ \/ \E p \in owned : Overrun(p) \/ Smash(p)
     \/ \E i \in DOMAIN m_quarantine : DanglingWrite(m_quarantine[i])
  /\ UNCHANGED <<heap, owned, dangling, badFree, slotVars, modeVars, blockVars, pc, ptr,
                 bypass, scopeVars>>

-----------------------------------------------------------------------------
\* What a thread that is inside the allocator or the tracker does next.
Continue(t) ==
  \/ RawAllocate(t) \/ AllocateFails(t) \/ HookAllocate(t) \/ Link(t)
  \/ RawFree(t) \/ Lookup(t) \/ CountDoubleFree(t) \/ PassThrough(t)
  \/ ReportSmashed(t) \/ InspectRedzones(t) \/ Unlink(t)
  \/ HoldBack(t) \/ ReleaseNow(t) \/ Settle(t) \/ FinishUninstall(t)

ContinueScope ==
  FinishInstall \/ ScopeBaseline \/ ScopeReset \/ ReadCounts \/ Sample

Next ==
  \/ \E t \in Threads :
       \/ Continue(t)
       \/ LoadAllocate(t) \/ LoadDeallocate(t) \/ Reallocate(t)
       \/ DoubleFree(t) \/ ToggleBypass(t)
  \/ ContinueScope
  \/ BeginRecording \/ EndRecording \/ FlushQuarantine
  \/ ProgramWrites

Spec == Init /\ [][Next]_vars

\* A thread inside the library keeps running; the program owes nothing.
FairSpec ==
  Spec /\ (\A t \in Threads : WF_vars(Continue(t))) /\ WF_vars(ContinueScope)

-----------------------------------------------------------------------------
(* Properties. *)

Labels == {"idle", "rawAllocate", "allocate", "link", "rawFree", "lookup",
           "notOurs", "inspect", "unlink", "release", "settle", "uninstall",
           "install", "baseline", "reset", "counts", "sample"}

Pointers == (Slots \union {NoOne}) \X Nat

Header == [magic : {"none", "live", "freed", "smashed"}, size : Nat,
           redzone : Nat, sequence : Nat, guard : BOOLEAN, pattern : BOOLEAN]

Mistakes == [doubleFrees : Nat, overflows : Nat, useAfterFrees : Nat]

TypeOK ==
  /\ heap \in [Slots -> Nat \union {NoChunk}]
  /\ header \in [Slots -> Header]
  /\ owned \subseteq Slots \X Nat
  /\ dangling \subseteq Slots \X Nat
  /\ badFree \in BOOLEAN
  /\ truth \in Mistakes
  /\ allocateSlot \in {"system", "hook"} /\ deallocateSlot \in {"system", "hook"}
  /\ m_mutex \in Threads \union {NoOne}
  /\ m_config \in Configs
  /\ m_installed \in BOOLEAN
  /\ m_recording \in 0..MaxDepth
  /\ m_list \subseteq Slots
  /\ m_live \subseteq Slots \X Nat
  /\ m_freedRecently \subseteq Slots \X Nat
  /\ m_quarantine \in Seq(Slots)
  /\ m_sequence \in 1..(MaxAllocations + 1)
  /\ m_liveBlocks \in 0..MaxAllocations
  /\ counts \in [allocations : Nat, frees : Nat, doubleFrees : Nat, overflows : Nat,
                 useAfterFrees : Nat, liveBytes : Nat, peakBytes : Nat,
                 largestBlock : Nat]
  /\ pc \in [Threads -> Labels]
  /\ ptr \in [Threads -> Pointers]
  /\ bypass \in [Threads -> BOOLEAN]
  /\ scopes \in Seq([sequence : Nat, allocations : Nat, frees : Nat, doubleFrees : Nat,
                     overflows : Nat, useAfterFrees : Nat, peakBase : Nat,
                     opening : Mistakes])
  /\ report \subseteq [allocations : Nat, frees : Nat, doubleFrees : Nat,
                       overflows : Nat, useAfterFrees : Nat, peakBytes : Nat,
                       largestBlock : Nat, leakedBlocks : Nat, leakedBytes : Nat]

AllIdle == \A t \in Threads : pc[t] = "idle"

\* The system allocator is only ever handed back a chunk it gave out, and only
\* once: "the system allocator would be handed the payload pointer instead of
\* the raw one" is what the live set is there to prevent.
HeapSafe == ~badFree

\* The hook is in place, both halves of it, for as long as a tracked block is
\* alive: a free of that block must find the header.
InstalledWhileLive ==
  m_liveBlocks > 0 =>
    m_installed /\ allocateSlot = "hook" /\ deallocateSlot = "hook"

\* The list, the live set and the counters tell the same story, whatever the
\* order in which threads link and unlink.  A block reported as smashed is the
\* exception: it leaves the live set and stays in the list.
Accounting ==
  /\ m_liveBlocks = Cardinality(m_list)
  /\ counts.liveBytes = SumFunction([s \in m_list |-> header[s].size])
  /\ m_live \subseteq {payloadOf(s, header[s].redzone) : s \in m_list}
  /\ \A s \in m_list :
       header[s].magic = "live" /\ (\A t \in Threads : ptr[t] # payloadOf(s, header[s].redzone))
         => payloadOf(s, header[s].redzone) \in m_live

\* When no thread is inside the library, every block it laid out is the
\* program's, is held in quarantine, or was leaked on purpose because its
\* header was overwritten.
NothingStranded ==
  AllIdle =>
    \A s \in Slots : header[s] # NoHeader =>
      \/ s \in m_list /\ payloadOf(s, header[s].redzone) \in owned
      \/ s \in Range(m_quarantine)
      \/ header[s].magic = "smashed"

\* Quarantine never keeps more than the configuration allows, and nothing at
\* all once the hook is out: "or quarantine turns into a leak of its own".
QuarantineBounded ==
  BytesOf(m_quarantine, header) <=
    IF AllIdle /\ ~m_installed THEN 0 ELSE m_config.quarantineBytes

\* The fault counters are exact: every double free, damaged block and dangling
\* write of the program is counted once, and nothing else is.  A dangling
\* write may still be waiting in quarantine to be noticed.
FaultsCounted ==
  AllIdle =>
    /\ counts.doubleFrees = truth.doubleFrees
    /\ counts.overflows = truth.overflows
    /\ counts.useAfterFrees
         + Cardinality({s \in Range(m_quarantine) : ~header[s].pattern})
       = truth.useAfterFrees

\* What report() subtracts from the high-water mark never exceeds it, for any
\* open Scope: peakBytes - peakBase is a size_t.
PeakAboveBase ==
  pc[Main] = "idle" =>
    \A i \in DOMAIN scopes : counts.peakBytes >= scopes[i].peakBase

\* The free of the last tracked block removes the hook when no Scope is open,
\* whichever thread it comes from and whatever others do meanwhile.
NotLingering ==
  AllIdle /\ m_recording = 0 /\ m_liveBlocks = 0 => ~m_installed

\* When the program has closed its Scopes and given back every tracked block,
\* the hook is eventually removed, unless the program tracks again.
HookEventuallyRemoved ==
  (m_recording = 0 /\ ~\E p \in owned : Tracked(p))
    ~> (~m_installed \/ m_recording > 0 \/ \E p \in owned : Tracked(p))

-----------------------------------------------------------------------------
(* What makes InstalledWhileLive inductive when the program keeps "joined". *)

InTracker == {"allocate", "link", "lookup", "notOurs", "inspect", "unlink",
              "release", "settle"}

\* Both slots agree with m_installed, except in the two windows of install(),
\* and a thread in such a window holds m_mutex.
SlotsAgree ==
  /\ m_mutex = NoOne => /\ allocateSlot = "hook" <=> m_installed
                        /\ deallocateSlot = "hook" <=> m_installed
  /\ m_mutex # NoOne => pc[m_mutex] \in {"install", "uninstall"}
  /\ \A t \in Threads : pc[t] = "install" =>
       /\ t = Main /\ m_mutex = t
       /\ ~m_installed /\ allocateSlot = "hook" /\ deallocateSlot = "system"
  /\ \A t \in Threads : pc[t] = "uninstall" =>
       /\ m_mutex = t
       /\ m_installed /\ allocateSlot = "system" /\ deallocateSlot = "hook"
       /\ m_recording = 0 /\ m_liveBlocks = 0

\* Without the hook nothing is recorded or alive.
OutMeansEmpty == ~m_installed => m_recording = 0 /\ m_liveBlocks = 0 /\ m_live = {}

\* A thread is only inside the tracker while the hook is in, or going in.
InsideMeansIn ==
  \A t \in Threads : pc[t] \in InTracker => m_installed \/ pc[Main] = "install"

\* While a leak keeps the hook in, one thread at a time is busy.
OneWhileLingering ==
  Lingering => \A t, u \in Threads : t # u => pc[t] = "idle" \/ pc[u] = "idle"

HookTypeOK ==
  /\ pc \in [Threads -> Labels]
  /\ m_mutex \in Threads \union {NoOne}
  /\ m_installed \in BOOLEAN
  /\ m_recording \in Nat /\ m_liveBlocks \in Nat
  /\ allocateSlot \in {"system", "hook"} /\ deallocateSlot \in {"system", "hook"}

HookInv ==
  /\ HookTypeOK /\ SlotsAgree /\ OutMeansEmpty /\ InsideMeansIn /\ OneWhileLingering

\* What makes NotLingering inductive, with no discipline at all: when the hook
\* has nothing left to do, some thread is on its way to remove it.
RemovalUnderWay ==
  m_installed /\ m_recording = 0 /\ m_liveBlocks = 0 =>
    \E t \in Threads : pc[t] \in {"release", "settle", "uninstall"}

==============================================================================

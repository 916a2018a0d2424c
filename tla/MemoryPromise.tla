---------------------------- MODULE MemoryPromise ----------------------------
(***************************************************************************)
(* What a memory Scope promises its caller, with no hook, header, list or  *)
(* quarantine: the report of a Scope counts the allocations, the frees and *)
(* the faults since it was opened, and its leaks are the blocks the        *)
(* program was given since then and has not given back.                    *)
(***************************************************************************)
EXTENDS Integers, Sequences, FiniteSets, Functions

VARIABLES
  held,       \* blocks the program has: [id, size], ids in order of birth
  freeing,    \* blocks whose free has been called and has not counted yet
  made,       \* allocations so far
  returned,   \* frees so far
  faults,     \* mistakes of the program so far
  scopes,     \* what the counters were when each open Scope was opened
  report      \* the last report taken from the innermost Scope

vars == <<held, freeing, made, returned, faults, scopes, report>>

Init ==
  /\ held = {} /\ freeing = {}
  /\ made = 0 /\ returned = 0
  /\ faults = [doubleFrees |-> 0, overflows |-> 0, useAfterFrees |-> 0]
  /\ scopes = <<>>
  /\ report = {}

Allocate(size) ==
  /\ held' = held \union {[id |-> made + 1, size |-> size]}
  /\ made' = made + 1
  /\ UNCHANGED <<freeing, returned, faults, scopes, report>>

\* The free of a damaged block is a fault.
Free(b, damaged) ==
  /\ held' = held \ {b}
  /\ freeing' = freeing \union {b}
  /\ faults' = IF damaged THEN [faults EXCEPT !.overflows = @ + 1] ELSE faults
  /\ UNCHANGED <<made, returned, scopes, report>>

Return(b) ==
  /\ freeing' = freeing \ {b}
  /\ returned' = returned + 1
  /\ UNCHANGED <<held, made, faults, scopes, report>>

Fault(kind) ==
  /\ faults' = [faults EXCEPT ![kind] = @ + 1]
  /\ UNCHANGED <<held, freeing, made, returned, scopes, report>>

Open ==
  /\ scopes' = Append(scopes, [made |-> made, returned |-> returned, faults |-> faults])
  /\ UNCHANGED <<held, freeing, made, returned, faults, report>>

Close ==
  /\ scopes # <<>>
  /\ scopes' = SubSeq(scopes, 1, Len(scopes) - 1)
  /\ report' = {}
  /\ UNCHANGED <<held, freeing, made, returned, faults>>

Ask ==
  /\ report' = {}
  /\ UNCHANGED <<held, freeing, made, returned, faults, scopes>>

Answer ==
  /\ scopes # <<>> /\ freeing = {}
  /\ LET since  == scopes[Len(scopes)]
         leaked == {b \in held : b.id > since.made}
     IN report' = {[
          allocations   |-> made - since.made,
          frees         |-> returned - since.returned,
          leakedBlocks  |-> Cardinality(leaked),
          leakedBytes   |-> SumFunction([b \in leaked |-> b.size]),
          doubleFrees   |-> faults.doubleFrees - since.faults.doubleFrees,
          overflows     |-> faults.overflows - since.faults.overflows,
          useAfterFrees |-> faults.useAfterFrees - since.faults.useAfterFrees]}
  /\ UNCHANGED <<held, freeing, made, returned, faults, scopes>>

Next ==
  \/ \E b \in held' : Allocate(b.size)
  \/ \E b \in held, damaged \in BOOLEAN : Free(b, damaged)
  \/ \E b \in freeing : Return(b)
  \/ \E kind \in {"doubleFrees", "useAfterFrees"} : Fault(kind)
  \/ Open \/ Close \/ Ask \/ Answer

Spec == Init /\ [][Next]_vars
==============================================================================

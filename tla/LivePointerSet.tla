---------------------------- MODULE LivePointerSet ----------------------------
(***************************************************************************)
(* detail::LivePointerSet of tracker.hpp: the open-addressing table that   *)
(* answers "did I allocate this?".  Every operation runs under the         *)
(* tracker's mutex, so it is one step.  The table's content is the code's, *)
(* slot by slot; members and lost are history: what the callers put in,    *)
(* and what the table had no room for.                                     *)
(***************************************************************************)
EXTENDS Integers, FiniteSets

CONSTANTS
  Pointers,
  Hashes,           \* the values hash() may take on them
  InitialCapacity,  \* 1024 in the code
  MaxCapacity,      \* bound: the table grows no further
  Null

ASSUME TableAssumption ==
  /\ Null \notin Pointers
  /\ Hashes \subseteq Nat
  /\ InitialCapacity \in Nat \ {0} /\ MaxCapacity \in Nat

VARIABLES
  hash,                          \* hash(), chosen once
  m_slots, m_capacity, m_count,
  members, lost,
  hung                           \* erase() never left its loop

tableVars == <<m_slots, m_capacity, m_count>>
vars == <<hash, tableVars, members, lost, hung>>

-----------------------------------------------------------------------------
EmptyTable(capacity) == [i \in 0..(capacity - 1) |-> Null]

\* The k-th slot on the way from the pointer's own.
SlotAt(p, k, capacity) == (hash[p] + k) % capacity

\* How far a probe for p goes: to p, to a hole, or all the way round.
Distance(slots, capacity, p) ==
  CHOOSE k \in 0..capacity :
    /\ k < capacity => slots[SlotAt(p, k, capacity)] \in {Null, p}
    /\ \A j \in 0..(k - 1) : slots[SlotAt(p, j, capacity)] \notin {Null, p}

contains(p) ==
  LET k == Distance(m_slots, m_capacity, p)
  IN k < m_capacity /\ m_slots[SlotAt(p, k, m_capacity)] = p

\* Mutant: the probe gives up at the second collision.
PlacedNearby(slots, capacity, p) ==
  LET k == Distance(slots, capacity, p)
  IN k < capacity /\ k < 2 /\ slots[SlotAt(p, k, capacity)] = Null

\* place() returns false when p is there already, or there is no room.
Placed(slots, capacity, p) ==
  LET k == Distance(slots, capacity, p)
  IN k < capacity /\ slots[SlotAt(p, k, capacity)] = Null

place(slots, capacity, p) ==
  IF Placed(slots, capacity, p)
  THEN [slots EXCEPT ![SlotAt(p, Distance(slots, capacity, p), capacity)] = p]
  ELSE slots

-----------------------------------------------------------------------------
Init ==
  /\ hash \in [Pointers -> Hashes]
  /\ m_slots = EmptyTable(0) /\ m_capacity = 0 /\ m_count = 0
  /\ members = {} /\ lost = {}
  /\ hung = FALSE

NeedsRoom == (m_count + 1) * 4 >= m_capacity * 3

Grown == IF m_capacity = 0 THEN InitialCapacity ELSE m_capacity * 2

\* grow(): every slot of the old table is placed in the new one, in order.
Rehashed(capacity) ==
  LET filled[n \in 0..m_capacity] ==
        IF n = 0 THEN EmptyTable(capacity)
        ELSE IF m_slots[n - 1] = Null THEN filled[n - 1]
        ELSE place(filled[n - 1], capacity, m_slots[n - 1])
  IN filled[m_capacity]

\* What an insertion adds to m_count; the mutant counts a duplicate too.
CountedAlways(fits) == m_count + 1

Counted(fits) == IF fits THEN m_count + 1 ELSE m_count

InsertInto(slots, capacity, p) ==
  LET fits == Placed(slots, capacity, p)
  IN /\ m_slots' = place(slots, capacity, p)
     /\ m_capacity' = capacity
     /\ m_count' = Counted(fits)
     /\ members' = members \union {p}
     /\ lost' = IF fits \/ \E i \in 0..(capacity - 1) : slots[i] = p
                THEN lost \ {p} ELSE lost \union {p}

Insert(p) ==
  /\ IF NeedsRoom /\ Grown <= MaxCapacity
     THEN InsertInto(Rehashed(Grown), Grown, p)
     ELSE ~NeedsRoom /\ InsertInto(m_slots, m_capacity, p)
  /\ UNCHANGED <<hash, hung>>

\* rawAllocate returned null: "out of memory: stop growing".
InsertWithoutMemory(p) ==
  /\ NeedsRoom
  /\ InsertInto(m_slots, m_capacity, p)
  /\ UNCHANGED <<hash, hung>>

\* Mutant: the run behind the hole is left where it is.
RunLeft(slots, hole, count) ==
  [slots |-> slots, scan |-> (hole + 1) % m_capacity, count |-> count]

\* One round of the loop of erase(): the next pointer of the run is taken out
\* and placed again.
Round(table) ==
  LET moved == table.slots[table.scan]
      cleared == [table.slots EXCEPT ![table.scan] = Null]
  IN IF moved = Null THEN table
     ELSE [slots |-> place(cleared, m_capacity, moved),
           scan  |-> (table.scan + 1) % m_capacity,
           count |-> IF Placed(cleared, m_capacity, moved)
                     THEN table.count ELSE table.count - 1]

\* The loop, from the slot behind the hole.
RunReplaced(slots, hole, count) ==
  LET round[n \in 0..(2 * m_capacity)] ==
        IF n = 0 THEN [slots |-> slots, scan |-> (hole + 1) % m_capacity, count |-> count]
        ELSE Round(round[n - 1])
  IN round[2 * m_capacity]

HoleKept(hole) == m_slots         \* mutant: the hole is not cut

Hole(hole) == [m_slots EXCEPT ![hole] = Null]

Erase(p) ==
  /\ IF contains(p)
     THEN LET hole == SlotAt(p, Distance(m_slots, m_capacity, p), m_capacity)
              end == RunReplaced(Hole(hole), hole, m_count - 1)
          IN /\ m_slots' = end.slots
             /\ m_count' = end.count
             /\ hung' = (end.slots[end.scan] # Null)
     ELSE UNCHANGED <<m_slots, m_count, hung>>
  /\ members' = members \ {p}
  /\ lost' = lost \ {p}
  /\ UNCHANGED <<hash, m_capacity>>

release ==
  /\ m_slots' = EmptyTable(0) /\ m_capacity' = 0 /\ m_count' = 0
  /\ members' = {} /\ lost' = {}
  /\ UNCHANGED <<hash, hung>>

Next ==
  \/ \E p \in Pointers : Insert(p) \/ InsertWithoutMemory(p) \/ Erase(p)
  \/ release

Spec == Init /\ [][Next]_vars

-----------------------------------------------------------------------------
(* Properties. *)

Occupied == {i \in DOMAIN m_slots : m_slots[i] # Null}

TypeOK ==
  /\ hash \in [Pointers -> Hashes]
  /\ m_capacity \in 0..MaxCapacity
  /\ m_slots \in [0..(m_capacity - 1) -> Pointers \union {Null}]
  /\ m_count \in 0..m_capacity
  /\ members \subseteq Pointers /\ lost \subseteq members
  /\ hung \in BOOLEAN

\* The table says of every pointer what its callers last did with it, through
\* collisions, wrap-around, growth and removals: a wrong answer here is a free
\* that takes the wrong path.  And m_count, which decides when to grow, is the
\* number of pointers stored, each of them once.
ContainsExactly ==
  /\ \A p \in Pointers : contains(p) <=> p \in members \ lost
  /\ m_count = Cardinality(Occupied)
  /\ \A i, j \in Occupied : m_slots[i] = m_slots[j] => i = j

\* A pointer is only ever dropped when every slot is taken, which takes a
\* growth that failed.
DroppedOnlyWhenFull ==
  [][\A p \in Pointers : p \in lost' /\ p \notin lost => m_count = m_capacity]_vars

\* Re-placing the run behind a hole comes to an end, even in a full table.
EraseEnds == ~hung

==============================================================================

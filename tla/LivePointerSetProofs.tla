------------------------- MODULE LivePointerSetProofs -------------------------
(***************************************************************************)
(* The table answers for exactly the pointers it was given, and a removal  *)
(* comes to an end: proofs for any set of pointers, any hash function on   *)
(* them and any capacity, whatever growth succeeds or fails.               *)
(***************************************************************************)
EXTENDS LivePointerSet, SumFacts

-----------------------------------------------------------------------------
(* The circle of slots. *)

\* The slot where p belongs, and how many slots it is from i on to j.
Home(p, c) == hash[p] % c

Steps(i, j, c) == IF j >= i THEN j - i ELSE j - i + c

\* The slot k further on.
Turn(i, k, c) == IF i + k < c THEN i + k ELSE i + k - c

LEMMA ModUnique ==
  ASSUME NEW c \in Nat \ {0}, NEW q \in Nat, NEW r \in 0..c - 1
  PROVE  (q * c + r) % c = r
OBVIOUS

LEMMA ModTurn ==
  ASSUME NEW c \in Nat \ {0}, NEW a \in Nat, NEW k \in 0..c - 1
  PROVE  a % c \in 0..c - 1 /\ (a + k) % c = Turn(a % c, k, c)
<1>1. a = (a \div c) * c + (a % c) /\ a \div c \in Nat
  OBVIOUS
<1>2. PICK r \in 0..c - 1 : r = a % c
  OBVIOUS
<1>3. PICK q \in Nat : a = q * c + r
  BY <1>1, <1>2
<1>4. CASE r + k < c
  <2>1. a + k = q * c + (r + k) /\ r + k \in 0..c - 1
    BY <1>3, <1>4
  <2>2. (q * c + (r + k)) % c = r + k
    BY <2>1, ModUnique
  <2> QED
    BY <1>2, <1>4, <2>1, <2>2 DEF Turn
<1>5. CASE r + k >= c
  <2>1. (q + 1) * c = q * c + c
    OBVIOUS
  <2>2. a + k = (q + 1) * c + (r + k - c) /\ q + 1 \in Nat /\ r + k - c \in 0..c - 1
    BY <1>3, <1>5, <2>1
  <2>3. ((q + 1) * c + (r + k - c)) % c = r + k - c
    BY <2>2, ModUnique
  <2> QED
    BY <1>2, <1>5, <2>2, <2>3 DEF Turn
<1> QED
  BY <1>4, <1>5

\* The slots on the way from a pointer's home are all slots, each once.
LEMMA Way ==
  ASSUME hash \in [Pointers -> Hashes], NEW p \in Pointers, NEW c \in Nat \ {0}
  PROVE  /\ Home(p, c) \in 0..c - 1
         /\ \A k \in 0..c - 1 : /\ SlotAt(p, k, c) \in 0..c - 1
                                /\ Steps(Home(p, c), SlotAt(p, k, c), c) = k
         /\ \A i \in 0..c - 1 : /\ Steps(Home(p, c), i, c) \in 0..c - 1
                                /\ SlotAt(p, Steps(Home(p, c), i, c), c) = i
<1>1. hash[p] \in Nat
  BY TableAssumption
<1>2. PICK h : h = Home(p, c)
  OBVIOUS
<1>3. h \in 0..c - 1 /\ \A k \in 0..c - 1 : SlotAt(p, k, c) = Turn(h, k, c)
  <2>1. hash[p] % c \in 0..c - 1
    BY <1>1
  <2> QED
    BY <1>1, <1>2, <2>1, ModTurn DEF Home, SlotAt
<1>4. \A k \in 0..c - 1 : Turn(h, k, c) \in 0..c - 1 /\ Steps(h, Turn(h, k, c), c) = k
  BY <1>3 DEF Turn, Steps
<1>5. \A i \in 0..c - 1 : Steps(h, i, c) \in 0..c - 1 /\ Turn(h, Steps(h, i, c), c) = i
  BY <1>3 DEF Turn, Steps
<1> QED
  BY <1>2, <1>3, <1>4, <1>5

-----------------------------------------------------------------------------
(* Probing. *)

Table(slots, c) == slots \in [0..c - 1 -> Pointers \union {Null}]

\* Where a probe for p stops.
StopsAt(slots, c, p, i) ==
  /\ i \in 0..c - 1 /\ slots[i] \in {Null, p}
  /\ \A j \in 0..c - 1 :
       Steps(Home(p, c), j, c) < Steps(Home(p, c), i, c) => slots[j] \notin {Null, p}

\* It stops if there is a slot to stop at.
LEMMA ProbeStops ==
  ASSUME hash \in [Pointers -> Hashes], NEW p \in Pointers, NEW c \in Nat \ {0}, NEW slots,
         NEW i \in 0..c - 1, slots[i] \in {Null, p}
  PROVE  \E s : /\ StopsAt(slots, c, p, s)
                /\ Steps(Home(p, c), s, c) <= Steps(Home(p, c), i, c)
<1> DEFINE S == {k \in Nat : \A j \in 0..c - 1 : Steps(Home(p, c), j, c) < k => slots[j] \notin {Null, p}}
<1>1. \A j \in 0..c - 1 : Steps(Home(p, c), j, c) \in 0..c - 1
  BY Way
<1>2. 0 \in S
  BY <1>1
<1>3. S # Nat
  <2>1. Steps(Home(p, c), i, c) + 1 \in Nat \ S
    BY <1>1
  <2> QED
    BY <2>1
<1>4. PICK k \in S : k + 1 \notin S
  <2> HIDE DEF S
  <2>1. S \subseteq Nat
    BY DEF S
  <2> QED
    BY <1>2, <1>3, <2>1, NatSet
<1>5. PICK s \in 0..c - 1 : Steps(Home(p, c), s, c) < k + 1 /\ slots[s] \in {Null, p}
  BY <1>4
<1>6. Steps(Home(p, c), s, c) = k
  BY <1>1, <1>4, <1>5
<1>7. Steps(Home(p, c), s, c) <= Steps(Home(p, c), i, c)
  BY <1>1, <1>4, <1>6
<1> QED
  BY <1>4, <1>5, <1>6, <1>7 DEF StopsAt

\* contains and place go there.
LEMMA ProbeEnds ==
  ASSUME hash \in [Pointers -> Hashes], NEW p \in Pointers, NEW c \in Nat \ {0}, NEW slots,
         NEW i, StopsAt(slots, c, p, i)
  PROVE  /\ Distance(slots, c, p) \in 0..c - 1 /\ SlotAt(p, Distance(slots, c, p), c) = i
         /\ Placed(slots, c, p) <=> slots[i] = Null
         /\ place(slots, c, p) = IF slots[i] = Null THEN [slots EXCEPT ![i] = p] ELSE slots
<1> DEFINE Ends(k) == /\ k < c => slots[SlotAt(p, k, c)] \in {Null, p}
                      /\ \A j \in 0..(k - 1) : slots[SlotAt(p, j, c)] \notin {Null, p}
<1>1. PICK n : n = Steps(Home(p, c), i, c)
  OBVIOUS
<1>2. n \in 0..c - 1 /\ SlotAt(p, n, c) = i
  BY <1>1, Way DEF StopsAt
<1>3. \A j \in 0..(n - 1) : slots[SlotAt(p, j, c)] \notin {Null, p}
  <2> SUFFICES ASSUME NEW j \in 0..(n - 1) PROVE slots[SlotAt(p, j, c)] \notin {Null, p}
    OBVIOUS
  <2>1. j \in 0..c - 1 /\ j < n
    BY <1>2
  <2>2. SlotAt(p, j, c) \in 0..c - 1 /\ Steps(Home(p, c), SlotAt(p, j, c), c) = j
    BY <2>1, Way
  <2> QED
    BY <1>1, <2>1, <2>2 DEF StopsAt
<1>4. n \in 0..c /\ Ends(n)
  BY <1>2, <1>3 DEF StopsAt
<1>5. ASSUME NEW k \in 0..c, Ends(k) PROVE k = n
  <2>1. CASE k < n
    <3>1. k \in 0..(n - 1) /\ k < c
      BY <1>2, <2>1
    <3> QED
      BY <1>3, <1>5, <3>1
  <2>2. CASE n < k
    <3>1. n \in 0..(k - 1)
      BY <1>2, <2>2
    <3>2. slots[SlotAt(p, n, c)] \notin {Null, p}
      BY <1>5, <3>1
    <3> QED
      BY <1>2, <3>2 DEF StopsAt
  <2> QED
    BY <1>2, <2>1, <2>2
<1>6. Distance(slots, c, p) = CHOOSE k \in 0..c : Ends(k)
  BY DEF Distance
<1>7. Distance(slots, c, p) = n
  <2> HIDE DEF Ends
  <2> QED
    BY <1>4, <1>5, <1>6
<1>8. Distance(slots, c, p) < c
  BY <1>2, <1>7
<1>9. Placed(slots, c, p) <=> slots[i] = Null
  BY <1>2, <1>7, <1>8 DEF Placed
<1> QED
  BY <1>2, <1>7, <1>8, <1>9 DEF place

\* A probe that has nowhere to stop finds nothing.
LEMMA ProbeFails ==
  ASSUME hash \in [Pointers -> Hashes], NEW p \in Pointers, NEW c \in Nat, NEW slots,
         \A i \in 0..c - 1 : slots[i] \notin {Null, p}
  PROVE  Distance(slots, c, p) = c /\ ~Placed(slots, c, p) /\ place(slots, c, p) = slots
<1> DEFINE Ends(k) == /\ k < c => slots[SlotAt(p, k, c)] \in {Null, p}
                      /\ \A j \in 0..(k - 1) : slots[SlotAt(p, j, c)] \notin {Null, p}
<1>1. \A k \in 0..c - 1 : SlotAt(p, k, c) \in 0..c - 1
  BY Way
<1>2. c \in 0..c /\ Ends(c)
  BY <1>1
<1>3. ASSUME NEW k \in 0..c, Ends(k) PROVE k = c
  <2>1. SUFFICES ASSUME k # c PROVE FALSE
    OBVIOUS
  <2>2. k < c /\ k \in 0..c - 1
    BY <2>1
  <2> QED
    BY <1>1, <1>3, <2>2
<1>4. Distance(slots, c, p) = CHOOSE k \in 0..c : Ends(k)
  BY DEF Distance
<1>5. Distance(slots, c, p) = c
  <2> HIDE DEF Ends
  <2> QED
    BY <1>2, <1>3, <1>4
<1>6. ~Placed(slots, c, p)
  BY <1>5 DEF Placed
<1> QED
  BY <1>5, <1>6 DEF place
-----------------------------------------------------------------------------
(* Tables. *)

Stored(slots, c) == {slots[i] : i \in 0..c - 1} \ {Null}

Used(slots, c) == {i \in 0..c - 1 : slots[i] # Null}

\* The invariant of linear probing: a probe for a pointer stops where it is.
Chained(slots, c) == \A i \in Used(slots, c) : StopsAt(slots, c, slots[i], i)

\* And a table that is full was so but for one slot.
Sound(slots, c) ==
  /\ Table(slots, c) /\ Chained(slots, c)
  /\ c > 0 => \E l \in 0..c - 1 : Chained([slots EXCEPT ![l] = Null], c)

Apart(slots, c) == \A i, j \in Used(slots, c) : slots[i] = slots[j] => i = j

LEMMA StopUnique ==
  ASSUME hash \in [Pointers -> Hashes], NEW p \in Pointers, NEW c \in Nat \ {0}, NEW slots,
         NEW i, NEW j, StopsAt(slots, c, p, i), StopsAt(slots, c, p, j)
  PROVE  i = j
<1>1. Steps(Home(p, c), i, c) = Steps(Home(p, c), j, c)
  <2>1. Steps(Home(p, c), i, c) \in Nat /\ Steps(Home(p, c), j, c) \in Nat
    BY Way DEF StopsAt
  <2> QED
    BY <2>1 DEF StopsAt
<1> QED
  BY <1>1, Way DEF StopsAt

LEMMA ChainedApart ==
  ASSUME hash \in [Pointers -> Hashes], NEW c \in Nat \ {0}, NEW slots, Table(slots, c),
         Chained(slots, c)
  PROVE  Apart(slots, c)
<1> SUFFICES ASSUME NEW i \in Used(slots, c), NEW j \in Used(slots, c), slots[i] = slots[j]
             PROVE  i = j
  BY DEF Apart
<1>1. StopsAt(slots, c, slots[i], i) /\ StopsAt(slots, c, slots[i], j) /\ slots[i] \in Pointers
  BY DEF Chained, Table, Used
<1> QED
  BY <1>1, StopUnique

\* As many slots are taken as there are pointers.
LEMMA UsedCount ==
  ASSUME hash \in [Pointers -> Hashes], NEW c \in Nat, NEW slots, Table(slots, c),
         Chained(slots, c)
  PROVE  /\ IsFiniteSet(Used(slots, c)) /\ Used(slots, c) \subseteq 0..c - 1
         /\ IsFiniteSet(Stored(slots, c)) /\ Cardinality(Used(slots, c)) \in 0..c
         /\ Cardinality(Stored(slots, c)) = Cardinality(Used(slots, c))
         /\ Cardinality(Used(slots, c)) = c <=> Used(slots, c) = 0..c - 1
<1>1. IsFiniteSet(0..c - 1) /\ Cardinality(0..c - 1) = c
  BY FS_Interval
<1>2. Used(slots, c) \subseteq 0..c - 1
  BY DEF Used
<1>3. IsFiniteSet(Used(slots, c)) /\ Cardinality(Used(slots, c)) \in 0..c
      /\ (Cardinality(Used(slots, c)) = c <=> Used(slots, c) = 0..c - 1)
  BY <1>1, <1>2, FS_Subset, FS_CardinalityType
<1>4. Stored(slots, c) = {slots[i] : i \in Used(slots, c)}
  BY DEF Stored, Used
<1>5. \A i, j \in Used(slots, c) : slots[i] = slots[j] => i = j
  <2>1. CASE c = 0
    BY <1>2, <2>1
  <2>2. CASE c # 0
    BY <2>2, ChainedApart DEF Apart
  <2> QED
    BY <2>1, <2>2
<1>6. /\ IsFiniteSet({slots[i] : i \in Used(slots, c)})
      /\ Cardinality({slots[i] : i \in Used(slots, c)}) = Cardinality(Used(slots, c))
  BY <1>3, <1>5, ImageCount, SMTT(20)
<1> QED
  BY <1>2, <1>3, <1>4, <1>6

\* What place does to a table: nothing when the pointer is there or no slot is
\* free, and else it takes a free one.
LEMMA PlaceStored ==
  ASSUME hash \in [Pointers -> Hashes], NEW c \in Nat, NEW slots, Table(slots, c),
         Chained(slots, c), NEW p \in Pointers, p \in Stored(slots, c) \/ Used(slots, c) = 0..c - 1
  PROVE  ~Placed(slots, c, p) /\ place(slots, c, p) = slots
<1>1. CASE p \in Stored(slots, c)
  <2>1. PICK i \in 0..c - 1 : slots[i] = p /\ p # Null
    BY <1>1 DEF Stored
  <2>2. StopsAt(slots, c, p, i) /\ c \in Nat \ {0}
    BY <2>1 DEF Chained, Used
  <2> QED
    BY <2>1, <2>2, ProbeEnds
<1>2. CASE p \notin Stored(slots, c) /\ Used(slots, c) = 0..c - 1
  <2>1. \A i \in 0..c - 1 : slots[i] \notin {Null, p}
    BY <1>2 DEF Stored, Used
  <2> QED
    BY <2>1, ProbeFails
<1> QED
  BY <1>1, <1>2

LEMMA PlaceNew ==
  ASSUME hash \in [Pointers -> Hashes], NEW c \in Nat, NEW slots, Table(slots, c),
         Chained(slots, c), NEW p \in Pointers, p \notin Stored(slots, c),
         Used(slots, c) # 0..c - 1
  PROVE  /\ Placed(slots, c, p) /\ Sound(place(slots, c, p), c)
         /\ Stored(place(slots, c, p), c) = Stored(slots, c) \union {p}
<1>1. PICK z \in 0..c - 1 : slots[z] = Null
  BY DEF Used
<1>2. c \in Nat \ {0} /\ p # Null
  BY <1>1, TableAssumption
<1>3. PICK s : StopsAt(slots, c, p, s)
  BY <1>1, <1>2, ProbeStops
<1>4. s \in 0..c - 1 /\ slots[s] = Null
  BY <1>2, <1>3 DEF StopsAt, Stored
<1>5. PICK t : t = [slots EXCEPT ![s] = p]
  OBVIOUS
<1>6. Placed(slots, c, p) /\ place(slots, c, p) = t
  BY <1>2, <1>3, <1>4, <1>5, ProbeEnds
<1>7. /\ Table(t, c) /\ [t EXCEPT ![s] = Null] = slots
      /\ t[s] = p /\ \A i \in 0..c - 1 : i # s => t[i] = slots[i]
  BY <1>4, <1>5 DEF Table
<1>8. Chained(t, c)
  <2> SUFFICES ASSUME NEW i \in Used(t, c) PROVE StopsAt(t, c, t[i], i)
    BY DEF Chained
  <2>1. CASE i = s
    <3>1. \A j \in 0..c - 1 : Steps(Home(p, c), j, c) < Steps(Home(p, c), s, c) => j # s
      BY <1>2, Way
    <3> QED
      BY <1>3, <1>4, <1>7, <2>1, <3>1 DEF StopsAt
  <2>2. CASE i # s
    <3>1. i \in 0..c - 1 /\ t[i] = slots[i] /\ i \in Used(slots, c) /\ slots[i] # p
      BY <1>7, <2>2 DEF Used, Stored
    <3>2. StopsAt(slots, c, slots[i], i)
      BY <3>1 DEF Chained
    <3> QED
      BY <1>4, <1>7, <3>1, <3>2, <1>2 DEF StopsAt
  <2> QED
    BY <2>1, <2>2
<1>9. Stored(t, c) = Stored(slots, c) \union {p}
  BY <1>2, <1>4, <1>7 DEF Stored
<1> QED
  BY <1>4, <1>6, <1>7, <1>8, <1>9 DEF Sound

\* Taken out and placed again, a pointer comes back to where it was.
LEMMA PlaceBack ==
  ASSUME hash \in [Pointers -> Hashes], NEW c \in Nat \ {0}, NEW slots, Table(slots, c),
         Chained(slots, c), NEW s \in Used(slots, c)
  PROVE  /\ Placed([slots EXCEPT ![s] = Null], c, slots[s])
         /\ place([slots EXCEPT ![s] = Null], c, slots[s]) = slots
<1>1. PICK u, p : u = [slots EXCEPT ![s] = Null] /\ p = slots[s]
  OBVIOUS
<1>2. s \in 0..c - 1 /\ p # Null /\ p \in Pointers
  BY <1>1 DEF Used, Table
<1>3. u[s] = Null /\ \A i \in 0..c - 1 : i # s => u[i] = slots[i]
  BY <1>1, <1>2 DEF Table
<1>4. StopsAt(slots, c, p, s)
  BY <1>1 DEF Chained
<1>5. StopsAt(u, c, p, s)
  <2>1. \A j \in 0..c - 1 : Steps(Home(p, c), j, c) < Steps(Home(p, c), s, c) => j # s
    BY <1>2, Way, SMTT(20)
  <2>2. ASSUME NEW j \in 0..c - 1, Steps(Home(p, c), j, c) < Steps(Home(p, c), s, c)
        PROVE  u[j] \notin {Null, p}
    BY <1>3, <1>4, <2>1, <2>2 DEF StopsAt
  <2> QED
    BY <1>2, <1>3, <2>2 DEF StopsAt
<1>6. [u EXCEPT ![s] = p] = slots
  BY <1>1, <1>2 DEF Table
<1> QED
  BY <1>1, <1>2, <1>3, <1>5, <1>6, ProbeEnds

-----------------------------------------------------------------------------
(* The run behind a hole.  Slots are ranked from slot m on, so that no way  *)
(* of a pointer but one, that in the last slot, leads across the end.       *)

LEMMA RankSteps ==
  ASSUME NEW c \in Nat \ {0}, NEW m \in 0..c - 1, NEW x \in 0..c - 1, NEW y \in 0..c - 1
  PROVE  Steps(x, y, c) = IF Steps(m, x, c) <= Steps(m, y, c)
                          THEN Steps(m, y, c) - Steps(m, x, c)
                          ELSE Steps(m, y, c) - Steps(m, x, c) + c
BY DEF Steps

LEMMA Ranks ==
  ASSUME NEW c \in Nat \ {0}, NEW m \in 0..c - 1
  PROVE  /\ \A x \in 0..c - 1 : Steps(m, x, c) \in 0..c - 1
         /\ \A x, y \in 0..c - 1 : Steps(m, x, c) = Steps(m, y, c) => x = y
         /\ \A x \in 0..c - 1 :
              /\ (x + 1) % c \in 0..c - 1
              /\ Steps(m, (x + 1) % c, c)
                   = IF Steps(m, x, c) = c - 1 THEN 0 ELSE Steps(m, x, c) + 1
<1>1. \A x \in 0..c - 1 : Steps(m, x, c) \in 0..c - 1
  BY DEF Steps
<1>2. \A x, y \in 0..c - 1 : Steps(m, x, c) = Steps(m, y, c) => x = y
  BY DEF Steps
<1>3. ASSUME NEW x \in 0..c - 1
      PROVE  /\ (x + 1) % c \in 0..c - 1
             /\ Steps(m, (x + 1) % c, c)
                  = IF Steps(m, x, c) = c - 1 THEN 0 ELSE Steps(m, x, c) + 1
  <2>1. CASE x + 1 < c
    <3>1. (0 * c + (x + 1)) % c = x + 1
      BY <2>1, ModUnique
    <3>2. (x + 1) % c = x + 1
      BY <3>1
    <3> QED
      BY <2>1, <3>2 DEF Steps
  <2>2. CASE x + 1 = c
    <3>1. (1 * c + 0) % c = 0
      BY ModUnique
    <3>2. (x + 1) % c = 0
      BY <2>2, <3>1
    <3> QED
      BY <2>2, <3>2 DEF Steps
  <2> QED
    BY <2>1, <2>2
<1> QED
  BY <1>1, <1>2, <1>3

\* The loop of erase before it comes to slot s, the hole having been cut at h of
\* table old: what is behind s is as it was, and holes are only missed by
\* pointers behind s, and only where the loop has been.
Running(old, h, m, slots, s, c) ==
  /\ Table(slots, c) /\ Apart(slots, c) /\ Stored(slots, c) = Stored(old, c)
  /\ h \in 0..c - 1 /\ m \in 0..c - 1 /\ s \in 0..c - 1 /\ Steps(m, h, c) < Steps(m, s, c)
  /\ \A x \in 0..c - 1 : Steps(m, x, c) >= Steps(m, s, c) => slots[x] = old[x]
  /\ \A x \in Used(slots, c) : Steps(m, x, c) < c - 1 =>
       /\ Steps(m, Home(slots[x], c), c) <= Steps(m, x, c)
       /\ \A j \in 0..c - 1 :
            /\ Steps(m, Home(slots[x], c), c) <= Steps(m, j, c)
            /\ Steps(m, j, c) < Steps(m, x, c)
            /\ slots[j] = Null
            => Steps(m, j, c) < Steps(m, s, c) /\ Steps(m, s, c) <= Steps(m, x, c)
  /\ \A x \in 0..c - 1 :
       Steps(m, x, c) = c - 1 => old[x] = Null \/ Used(old, c) = (0..c - 1) \ {h}

\* A pointer that no hole lies before, in the ranking, is where a probe stops.
LEMMA StopsByRank ==
  ASSUME hash \in [Pointers -> Hashes], NEW c \in Nat \ {0}, NEW slots, Table(slots, c),
         NEW m \in 0..c - 1, Apart(slots, c), NEW x \in Used(slots, c),
         Steps(m, Home(slots[x], c), c) <= Steps(m, x, c),
         \A j \in 0..c - 1 : /\ Steps(m, Home(slots[x], c), c) <= Steps(m, j, c)
                             /\ Steps(m, j, c) < Steps(m, x, c)
                             => slots[j] # Null
  PROVE  StopsAt(slots, c, slots[x], x)
<1>1. PICK p, a : p = slots[x] /\ a = Home(p, c)
  OBVIOUS
<1>2. x \in 0..c - 1 /\ p \in Pointers /\ a \in 0..c - 1
  BY <1>1, Way DEF Used, Table
<1>3. SUFFICES ASSUME NEW j \in 0..c - 1, Steps(a, j, c) < Steps(a, x, c)
               PROVE  slots[j] \notin {Null, p}
  BY <1>1, <1>2 DEF StopsAt
<1>4. /\ Steps(m, a, c) \in 0..c - 1 /\ Steps(m, j, c) \in 0..c - 1 /\ Steps(m, x, c) \in 0..c - 1
      /\ Steps(a, j, c) = IF Steps(m, a, c) <= Steps(m, j, c)
                          THEN Steps(m, j, c) - Steps(m, a, c)
                          ELSE Steps(m, j, c) - Steps(m, a, c) + c
      /\ Steps(a, x, c) = IF Steps(m, a, c) <= Steps(m, x, c)
                          THEN Steps(m, x, c) - Steps(m, a, c)
                          ELSE Steps(m, x, c) - Steps(m, a, c) + c
  BY <1>2, Ranks, RankSteps
<1>5. Steps(m, a, c) <= Steps(m, j, c) /\ Steps(m, j, c) < Steps(m, x, c)
  BY <1>1, <1>3, <1>4
<1>6. slots[j] # Null /\ j # x
  BY <1>1, <1>4, <1>5
<1> QED
  BY <1>1, <1>2, <1>6 DEF Apart, Used

\* At a free slot the loop leaves a table that is whole.
LEMMA RunEnds ==
  ASSUME hash \in [Pointers -> Hashes], NEW c \in Nat \ {0}, NEW old, NEW h, NEW m, NEW slots,
         NEW s, Running(old, h, m, slots, s, c), slots[s] = Null
  PROVE  Chained(slots, c)
<1> SUFFICES ASSUME NEW x \in Used(slots, c) PROVE StopsAt(slots, c, slots[x], x)
  BY DEF Chained
<1>1. /\ x \in 0..c - 1 /\ x # s /\ slots[x] \in Pointers /\ m \in 0..c - 1 /\ s \in 0..c - 1
      /\ Steps(m, x, c) \in 0..c - 1 /\ Steps(m, s, c) \in 0..c - 1 /\ h \in 0..c - 1
      /\ Steps(m, x, c) # Steps(m, s, c)
  <2>1. /\ x \in 0..c - 1 /\ x # s /\ slots[x] \in Pointers
        /\ m \in 0..c - 1 /\ s \in 0..c - 1 /\ h \in 0..c - 1
    BY DEF Running, Used, Table
  <2> QED
    BY <2>1, Ranks
<1>2. Steps(m, x, c) < c - 1
  <2>1. SUFFICES ASSUME Steps(m, x, c) = c - 1 PROVE FALSE
    BY <1>1
  <2>2. slots[x] = old[x] /\ slots[s] = old[s] /\ s # h
    BY <1>1, <2>1 DEF Running
  <2>3. Used(old, c) = (0..c - 1) \ {h}
    BY <1>1, <2>1, <2>2 DEF Running, Used
  <2> QED
    BY <1>1, <2>2, <2>3 DEF Used
<1>3. Steps(m, Home(slots[x], c), c) <= Steps(m, x, c)
  BY <1>2 DEF Running
<1>4. ASSUME NEW j \in 0..c - 1, Steps(m, Home(slots[x], c), c) <= Steps(m, j, c),
             Steps(m, j, c) < Steps(m, x, c), slots[j] = Null
      PROVE  FALSE
  <2>1. Steps(m, j, c) < Steps(m, s, c) /\ Steps(m, s, c) <= Steps(m, x, c)
    BY <1>2, <1>4 DEF Running
  <2>2. Steps(m, Home(slots[x], c), c) <= Steps(m, s, c) /\ Steps(m, s, c) < Steps(m, x, c)
    <3>1. Steps(m, j, c) \in 0..c - 1 /\ Steps(m, Home(slots[x], c), c) \in 0..c - 1
      BY <1>1, Way, Ranks
    <3> QED
      BY <1>1, <1>4, <2>1, <3>1
  <2>3. Steps(m, s, c) < Steps(m, s, c)
    BY <1>1, <1>2, <2>2 DEF Running
  <2> QED
    BY <1>1, <2>3
<1> QED
  BY <1>1, <1>3, <1>4, StopsByRank DEF Running

\* A pointer taken out finds a slot no further than where it was.
LEMMA RunPlaces ==
  ASSUME hash \in [Pointers -> Hashes], NEW c \in Nat \ {0}, NEW slots, Table(slots, c),
         Apart(slots, c), NEW s \in Used(slots, c), NEW u, u = [slots EXCEPT ![s] = Null]
  PROVE  \E z \in 0..c - 1 :
           /\ StopsAt(u, c, slots[s], z) /\ u[z] = Null
           /\ Steps(Home(slots[s], c), z, c) <= Steps(Home(slots[s], c), s, c)
           /\ Placed(u, c, slots[s]) /\ place(u, c, slots[s]) = [u EXCEPT ![z] = slots[s]]
           /\ Table([u EXCEPT ![z] = slots[s]], c) /\ Apart([u EXCEPT ![z] = slots[s]], c)
           /\ Stored([u EXCEPT ![z] = slots[s]], c) = Stored(slots, c)
<1>1. PICK p : p = slots[s]
  OBVIOUS
<1>2. s \in 0..c - 1 /\ p # Null /\ p \in Pointers
  BY <1>1 DEF Used, Table
<1>3. u[s] = Null /\ Table(u, c) /\ \A i \in 0..c - 1 : i # s => u[i] = slots[i]
  BY <1>2 DEF Table
<1>4. \A i \in 0..c - 1 : u[i] # p
  BY <1>1, <1>2, <1>3 DEF Apart, Used
<1>5. PICK z : StopsAt(u, c, p, z) /\ Steps(Home(p, c), z, c) <= Steps(Home(p, c), s, c)
  BY <1>2, <1>3, ProbeStops
<1>6. z \in 0..c - 1 /\ u[z] = Null
  BY <1>4, <1>5 DEF StopsAt
<1>7. Placed(u, c, p) /\ place(u, c, p) = [u EXCEPT ![z] = p]
  BY <1>2, <1>5, <1>6, ProbeEnds
<1>8. PICK t : t = [u EXCEPT ![z] = p]
  OBVIOUS
<1>9. /\ Table(t, c) /\ t[z] = p /\ \A i \in 0..c - 1 : i # z => t[i] = u[i]
  BY <1>2, <1>3, <1>6, <1>8 DEF Table
<1>10. Apart(t, c)
  <2> SUFFICES ASSUME NEW i \in Used(t, c), NEW j \in Used(t, c), t[i] = t[j] PROVE i = j
    BY DEF Apart
  <2>1. i \in 0..c - 1 /\ j \in 0..c - 1 /\ t[i] # Null
    BY DEF Used
  <2>2. CASE i = z \/ j = z
    BY <1>4, <1>9, <2>1, <2>2
  <2>3. CASE i # z /\ j # z
    <3>1. i # s /\ j # s /\ slots[i] = slots[j] /\ slots[i] # Null
      BY <1>3, <1>9, <2>1, <2>3
    <3> QED
      BY <2>1, <3>1 DEF Apart, Used
  <2> QED
    BY <2>2, <2>3
<1>11. Stored(t, c) = Stored(slots, c)
  <2>1. ASSUME NEW q \in Stored(t, c) PROVE q \in Stored(slots, c)
    BY <1>1, <1>2, <1>3, <1>9, <2>1 DEF Stored
  <2>2. ASSUME NEW q \in Stored(slots, c) PROVE q \in Stored(t, c)
    <3>1. PICK i \in 0..c - 1 : slots[i] = q /\ q # Null
      BY <2>2 DEF Stored
    <3>2. CASE i = s
      BY <1>1, <1>6, <1>9, <3>1, <3>2 DEF Stored
    <3>3. CASE i # s
      <4>1. i # z /\ t[i] = q
        BY <1>3, <1>6, <1>9, <3>1, <3>3
      <4> QED
        BY <3>1, <4>1 DEF Stored
    <3> QED
      BY <3>2, <3>3
  <2> QED
    BY <2>1, <2>2
<1> QED
  BY <1>1, <1>5, <1>6, <1>7, <1>8, <1>9, <1>10, <1>11

\* Before the last slot, the loop goes on.
LEMMA RunGoesOn ==
  ASSUME hash \in [Pointers -> Hashes], NEW c \in Nat \ {0}, NEW old, NEW h, NEW m, NEW slots,
         NEW s, Running(old, h, m, slots, s, c), slots[s] # Null, Steps(m, s, c) < c - 1,
         NEW u, u = [slots EXCEPT ![s] = Null]
  PROVE  /\ Placed(u, c, slots[s])
         /\ Running(old, h, m, place(u, c, slots[s]), (s + 1) % c, c)
<1>1. PICK p, a : p = slots[s] /\ a = Home(p, c)
  OBVIOUS
<1>2. /\ s \in Used(slots, c) /\ Table(slots, c) /\ Apart(slots, c) /\ p \in Pointers /\ p # Null
      /\ m \in 0..c - 1 /\ h \in 0..c - 1 /\ s \in 0..c - 1 /\ a \in 0..c - 1
  BY <1>1, Way DEF Running, Used, Table
<1>3. PICK z \in 0..c - 1 :
        /\ StopsAt(u, c, p, z) /\ u[z] = Null /\ Steps(a, z, c) <= Steps(a, s, c)
        /\ Placed(u, c, p) /\ place(u, c, p) = [u EXCEPT ![z] = p]
        /\ Table([u EXCEPT ![z] = p], c) /\ Apart([u EXCEPT ![z] = p], c)
        /\ Stored([u EXCEPT ![z] = p], c) = Stored(slots, c)
  BY <1>1, <1>2, RunPlaces, ZenonT(40)
<1>4. PICK t : t = [u EXCEPT ![z] = p]
  OBVIOUS
<1>5. /\ t[z] = p /\ u[s] = Null
      /\ \A i \in 0..c - 1 : i # z => t[i] = u[i]
      /\ \A i \in 0..c - 1 : i # s => u[i] = slots[i]
  BY <1>2, <1>3, <1>4 DEF Table
<1>6. PICK n : n = (s + 1) % c
  OBVIOUS
<1>7. n \in 0..c - 1 /\ Steps(m, n, c) = Steps(m, s, c) + 1 /\ Steps(m, s, c) \in 0..c - 1
  BY <1>2, <1>6, Ranks
<1>8. /\ Steps(m, a, c) <= Steps(m, z, c) /\ Steps(m, z, c) <= Steps(m, s, c)
      /\ \A j \in 0..c - 1 : Steps(m, a, c) <= Steps(m, j, c) /\ Steps(m, j, c) < Steps(m, z, c)
                             => Steps(a, j, c) < Steps(a, z, c)
  <2>1. Steps(m, a, c) <= Steps(m, s, c)
    BY <1>1, <1>2 DEF Running
  <2>2. ASSUME NEW x \in 0..c - 1
        PROVE  /\ Steps(m, x, c) \in 0..c - 1
               /\ Steps(a, x, c) = IF Steps(m, a, c) <= Steps(m, x, c)
                                   THEN Steps(m, x, c) - Steps(m, a, c)
                                   ELSE Steps(m, x, c) - Steps(m, a, c) + c
    <3>1. Steps(m, x, c) \in 0..c - 1
      BY <1>2, Ranks
    <3>2. Steps(a, x, c) = IF Steps(m, a, c) <= Steps(m, x, c)
                           THEN Steps(m, x, c) - Steps(m, a, c)
                           ELSE Steps(m, x, c) - Steps(m, a, c) + c
      BY <1>2, RankSteps
    <3> QED
      BY <3>1, <3>2
  <2>3. Steps(m, a, c) <= Steps(m, z, c) /\ Steps(m, z, c) <= Steps(m, s, c)
    BY <1>2, <1>3, <2>1, <2>2
  <2>4. ASSUME NEW j \in 0..c - 1, Steps(m, a, c) <= Steps(m, j, c), Steps(m, j, c) < Steps(m, z, c)
        PROVE  Steps(a, j, c) < Steps(a, z, c)
    BY <1>2, <2>2, <2>3, <2>4
  <2> QED
    BY <2>3, <2>4
<1>9. ASSUME NEW x \in 0..c - 1, Steps(m, x, c) >= Steps(m, n, c)
      PROVE  t[x] = old[x]
  <2>0. Steps(m, x, c) \in 0..c - 1 /\ Steps(m, z, c) \in 0..c - 1
    BY <1>2, Ranks
  <2>1. Steps(m, x, c) > Steps(m, s, c)
    BY <1>7, <1>9, <2>0
  <2>2. x # s /\ x # z
    BY <1>7, <1>8, <2>0, <2>1
  <2>3. slots[x] = old[x]
    BY <1>2, <1>7, <2>0, <2>1 DEF Running
  <2> QED
    BY <1>5, <2>2, <2>3
<1>10. ASSUME NEW x \in Used(t, c), Steps(m, x, c) < c - 1
       PROVE  /\ Steps(m, Home(t[x], c), c) <= Steps(m, x, c)
              /\ \A j \in 0..c - 1 :
                   /\ Steps(m, Home(t[x], c), c) <= Steps(m, j, c)
                   /\ Steps(m, j, c) < Steps(m, x, c)
                   /\ t[j] = Null
                   => Steps(m, j, c) < Steps(m, n, c) /\ Steps(m, n, c) <= Steps(m, x, c)
  <2>0. x \in 0..c - 1 /\ t[x] # Null /\ \A j \in 0..c - 1 : Steps(m, j, c) \in 0..c - 1
    BY <1>2, Ranks DEF Used
  <2>1. CASE x = z
    <3>1. t[x] = p /\ Steps(m, Home(t[x], c), c) <= Steps(m, x, c)
      BY <1>1, <1>5, <1>8, <2>1
    <3>2. ASSUME NEW j \in 0..c - 1, Steps(m, a, c) <= Steps(m, j, c), Steps(m, j, c) < Steps(m, z, c)
          PROVE  t[j] # Null
      <4>1. u[j] # Null
        BY <1>1, <1>3, <1>8, <3>2 DEF StopsAt
      <4>2. j # z
        BY <1>3, <4>1
      <4> QED
        BY <1>5, <4>1, <4>2
    <3> QED
      BY <1>1, <2>1, <3>1, <3>2
  <2>2. CASE x # z
    <3>1. x # s /\ t[x] = slots[x] /\ x \in Used(slots, c)
      BY <1>5, <2>0, <2>2 DEF Used
    <3>2. Steps(m, x, c) # Steps(m, s, c)
      BY <1>2, <2>0, <3>1, Ranks
    <3>3. Steps(m, Home(t[x], c), c) <= Steps(m, x, c)
      BY <1>10, <3>1 DEF Running
    <3>4. ASSUME NEW j \in 0..c - 1, Steps(m, Home(t[x], c), c) <= Steps(m, j, c),
                 Steps(m, j, c) < Steps(m, x, c), t[j] = Null
          PROVE  Steps(m, j, c) < Steps(m, n, c) /\ Steps(m, n, c) <= Steps(m, x, c)
      <4>1. CASE j = s
        BY <1>7, <2>0, <3>4, <4>1
      <4>2. CASE j # s
        <5>1. j # z /\ slots[j] = Null
          BY <1>2, <1>5, <3>4, <4>2
        <5>2. Steps(m, j, c) < Steps(m, s, c) /\ Steps(m, s, c) <= Steps(m, x, c)
          BY <1>10, <3>1, <3>4, <5>1 DEF Running
        <5> QED
          BY <1>7, <2>0, <3>2, <5>2
      <4> QED
        BY <4>1, <4>2
    <3> QED
      BY <3>3, <3>4
  <2> QED
    BY <2>1, <2>2
<1>11. /\ Stored(t, c) = Stored(old, c) /\ Steps(m, h, c) < Steps(m, n, c)
       /\ \A x \in 0..c - 1 :
            Steps(m, x, c) = c - 1 => old[x] = Null \/ Used(old, c) = (0..c - 1) \ {h}
  <2>1. Steps(m, h, c) \in 0..c - 1
    BY <1>2, Ranks
  <2>2. Steps(m, h, c) < Steps(m, s, c)
    BY DEF Running
  <2>3. Steps(m, h, c) < Steps(m, n, c)
    BY <1>7, <2>1, <2>2
  <2> QED
    BY <1>3, <1>4, <2>3 DEF Running
<1>12. Running(old, h, m, t, n, c)
  BY <1>2, <1>3, <1>4, <1>7, <1>9, <1>10, <1>11 DEF Running
<1> QED
  BY <1>1, <1>3, <1>4, <1>6, <1>12

\* The pointer in the last slot is the only one that may belong behind it: when
\* that has been placed again, the table is whole.
LEMMA RunComesRound ==
  ASSUME hash \in [Pointers -> Hashes], NEW c \in Nat \ {0}, NEW old, NEW h, NEW m, NEW slots,
         NEW s, Running(old, h, m, slots, s, c), slots[s] # Null, Steps(m, s, c) = c - 1,
         NEW u, u = [slots EXCEPT ![s] = Null]
  PROVE  /\ Placed(u, c, slots[s])
         /\ Table(place(u, c, slots[s]), c) /\ Chained(place(u, c, slots[s]), c)
         /\ Stored(place(u, c, slots[s]), c) = Stored(old, c)
<1>1. PICK p : p = slots[s]
  OBVIOUS
<1>2. /\ s \in Used(slots, c) /\ Table(slots, c) /\ Apart(slots, c) /\ p \in Pointers /\ p # Null
      /\ m \in 0..c - 1 /\ s \in 0..c - 1
  BY <1>1 DEF Running, Used, Table
<1>3. Table(u, c) /\ u[s] = Null /\ \A i \in 0..c - 1 : i # s => u[i] = slots[i]
  BY <1>2 DEF Table
<1>4. Apart(u, c)
  BY <1>2, <1>3 DEF Apart, Used
<1>5. Chained(u, c)
  <2> SUFFICES ASSUME NEW x \in Used(u, c) PROVE StopsAt(u, c, u[x], x)
    BY DEF Chained
  <2>1. x \in 0..c - 1 /\ x # s /\ u[x] = slots[x] /\ x \in Used(slots, c)
    BY <1>3 DEF Used
  <2>2. /\ Steps(m, x, c) < c - 1
        /\ \A j \in 0..c - 1 : Steps(m, j, c) \in 0..c - 1
    <3>1. \A j \in 0..c - 1 : Steps(m, j, c) \in 0..c - 1
      BY <1>2, Ranks
    <3>2. Steps(m, x, c) # Steps(m, s, c)
      BY <1>2, <2>1, Ranks
    <3> QED
      BY <2>1, <3>1, <3>2
  <2>3. Steps(m, Home(u[x], c), c) <= Steps(m, x, c)
    BY <2>1, <2>2 DEF Running
  <2>4. ASSUME NEW j \in 0..c - 1, Steps(m, Home(u[x], c), c) <= Steps(m, j, c),
               Steps(m, j, c) < Steps(m, x, c)
        PROVE  u[j] # Null
    <3>1. j # s
      BY <2>1, <2>2, <2>4
    <3>2. slots[j] # Null
      <4>1. SUFFICES ASSUME slots[j] = Null PROVE FALSE
        OBVIOUS
      <4>2. Steps(m, s, c) <= Steps(m, x, c)
        BY <2>1, <2>2, <2>4, <4>1 DEF Running
      <4> QED
        BY <2>1, <2>2, <4>2
    <3> QED
      BY <1>3, <3>1, <3>2
  <2> QED
    BY <1>2, <1>3, <1>4, <2>3, <2>4, StopsByRank
<1>6. p \notin Stored(u, c) /\ Used(u, c) # 0..c - 1
  BY <1>1, <1>2, <1>3 DEF Stored, Used, Apart
<1>7. PICK t : t = place(u, c, p)
  OBVIOUS
<1>8. Placed(u, c, p) /\ Sound(t, c) /\ Stored(t, c) = Stored(u, c) \union {p}
  BY <1>2, <1>3, <1>5, <1>6, <1>7, PlaceNew
<1>9. Stored(u, c) \union {p} = Stored(slots, c)
  BY <1>1, <1>2, <1>3 DEF Stored
<1>10. Stored(t, c) = Stored(old, c)
  BY <1>8, <1>9 DEF Running
<1> QED
  BY <1>1, <1>7, <1>8, <1>10 DEF Sound

\* With a hole cut in it, a sound table is whole, or the loop may begin.
LEMMA RunBegins ==
  ASSUME hash \in [Pointers -> Hashes], NEW c \in Nat \ {0}, NEW slots, Sound(slots, c),
         NEW h \in Used(slots, c), NEW old, old = [slots EXCEPT ![h] = Null]
  PROVE  /\ Table(old, c)
         /\ \A p : p \in Stored(old, c) <=> p \in Stored(slots, c) /\ p # slots[h]
         /\ Chained(old, c) \/ \E m : Running(old, h, m, old, (h + 1) % c, c)
<1>1. /\ Table(slots, c) /\ Chained(slots, c) /\ Apart(slots, c)
      /\ h \in 0..c - 1 /\ slots[h] # Null
  BY ChainedApart DEF Sound, Used
<1>2. PICK l \in 0..c - 1 : Chained([slots EXCEPT ![l] = Null], c) /\ (slots[l] = Null \/ Used(slots, c) = 0..c - 1)
  <2>1. CASE Used(slots, c) = 0..c - 1
    BY <2>1 DEF Sound
  <2>2. CASE Used(slots, c) # 0..c - 1
    <3>1. PICK l \in 0..c - 1 : slots[l] = Null
      BY <2>2 DEF Used
    <3>2. [slots EXCEPT ![l] = Null] = slots
      BY <1>1, <3>1 DEF Table
    <3> QED
      BY <1>1, <3>1, <3>2
  <2> QED
    BY <2>1, <2>2
<1>3. old[h] = Null /\ Table(old, c) /\ \A i \in 0..c - 1 : i # h => old[i] = slots[i]
  BY <1>1 DEF Table
<1>4. \A p : p \in Stored(old, c) <=> p \in Stored(slots, c) /\ p # slots[h]
  BY <1>1, <1>3 DEF Stored, Apart, Used
<1>5. Apart(old, c)
  BY <1>1, <1>3 DEF Apart, Used
<1>6. CASE h = l
  BY <1>2, <1>3, <1>4, <1>6
<1>7. CASE h # l
  <2>1. PICK w : w = [slots EXCEPT ![l] = Null]
    OBVIOUS
  <2>2. Chained(w, c) /\ w[l] = Null /\ \A i \in 0..c - 1 : i # l => w[i] = slots[i]
    BY <1>1, <1>2, <2>1 DEF Table
  <2>3. PICK m, s : m = (l + 1) % c /\ s = (h + 1) % c
    OBVIOUS
  <2>4. m \in 0..c - 1 /\ Steps(l, l, c) = 0 /\ \A i \in 0..c - 1 : Steps(m, i, c) \in 0..c - 1
    <3>1. m \in 0..c - 1
      BY <2>3, Ranks
    <3>2. \A i \in 0..c - 1 : Steps(m, i, c) \in 0..c - 1
      BY <3>1, Ranks
    <3>3. Steps(l, l, c) = 0
      BY DEF Steps
    <3> QED
      BY <3>1, <3>2, <3>3
  <2>5. Steps(m, l, c) = c - 1
    <3>1. CASE l + 1 < c
      <4>0. l + 1 \in 0..c - 1
        BY <3>1
      <4>1. (0 * c + (l + 1)) % c = l + 1
        BY <4>0, ModUnique
      <4>2. m = l + 1
        BY <2>3, <4>1
      <4> QED
        BY <4>2 DEF Steps
    <3>2. CASE l + 1 = c
      <4>1. (1 * c + 0) % c = 0
        BY ModUnique
      <4>2. m = 0
        BY <2>3, <3>2, <4>1
      <4> QED
        BY <3>2, <4>2 DEF Steps
    <3> QED
      BY <3>1, <3>2
  <2>6. Steps(m, h, c) < c - 1
    <3>1. Steps(m, h, c) # Steps(m, l, c)
      BY <1>1, <1>7, <2>4, Ranks
    <3> QED
      BY <1>1, <2>4, <2>5, <3>1
  <2>7. s \in 0..c - 1 /\ Steps(m, s, c) = Steps(m, h, c) + 1
    <3>1. s \in 0..c - 1
      BY <1>1, <2>3, Ranks
    <3>2. Steps(m, (h + 1) % c, c) = IF Steps(m, h, c) = c - 1 THEN 0 ELSE Steps(m, h, c) + 1
      <4>1. m \in 0..c - 1 /\ h \in 0..c - 1
        BY <1>1, <2>4
      <4> QED
        BY <4>1, Ranks
    <3> QED
      BY <1>1, <2>3, <2>4, <2>6, <3>1, <3>2
  <2>8. ASSUME NEW x \in Used(old, c), Steps(m, x, c) < c - 1
        PROVE  /\ Steps(m, Home(old[x], c), c) <= Steps(m, x, c)
               /\ \A j \in 0..c - 1 :
                    /\ Steps(m, Home(old[x], c), c) <= Steps(m, j, c)
                    /\ Steps(m, j, c) < Steps(m, x, c)
                    /\ old[j] = Null
                    => Steps(m, j, c) < Steps(m, s, c) /\ Steps(m, s, c) <= Steps(m, x, c)
    <3>1. x \in 0..c - 1 /\ old[x] # Null /\ x # h
      BY <1>3 DEF Used
    <3>2. PICK q, a : q = old[x] /\ a = Home(q, c)
      OBVIOUS
    <3>3. x # l /\ w[x] = q /\ x \in Used(w, c) /\ q \in Pointers
      BY <1>3, <2>2, <2>5, <2>8, <3>1, <3>2 DEF Used, Table
    <3>4. StopsAt(w, c, q, x) /\ a \in 0..c - 1
      BY <2>2, <3>2, <3>3, Way DEF Chained
    <3>5. ASSUME NEW j \in 0..c - 1, Steps(a, j, c) < Steps(a, x, c)
          PROVE  j # l /\ (old[j] = Null => j = h)
      <4>1. w[j] # Null
        BY <3>2, <3>4, <3>5 DEF StopsAt
      <4> QED
        BY <1>3, <2>2, <4>1
    <3>6. ASSUME NEW j \in 0..c - 1
          PROVE  Steps(a, j, c) = IF Steps(m, a, c) <= Steps(m, j, c)
                                  THEN Steps(m, j, c) - Steps(m, a, c)
                                  ELSE Steps(m, j, c) - Steps(m, a, c) + c
      BY <2>4, <3>4, RankSteps
    <3>7. Steps(m, a, c) <= Steps(m, x, c)
      <4>1. SUFFICES ASSUME Steps(m, x, c) < Steps(m, a, c) PROVE FALSE
        BY <2>4, <3>1, <3>4
      <4>2. Steps(a, l, c) < Steps(a, x, c)
        BY <2>4, <2>5, <3>1, <3>4, <3>6, <4>1
      <4> QED
        BY <3>5, <4>2
    <3>8. ASSUME NEW j \in 0..c - 1, Steps(m, a, c) <= Steps(m, j, c),
                 Steps(m, j, c) < Steps(m, x, c), old[j] = Null
          PROVE  Steps(m, j, c) < Steps(m, s, c) /\ Steps(m, s, c) <= Steps(m, x, c)
      <4>1. Steps(a, j, c) < Steps(a, x, c)
        BY <2>4, <3>1, <3>4, <3>6, <3>7, <3>8
      <4>2. j = h
        BY <3>5, <3>8, <4>1
      <4> QED
        BY <1>1, <2>4, <2>7, <3>1, <3>8, <4>2
    <3> QED
      BY <3>2, <3>7, <3>8
  <2>9. ASSUME NEW x \in 0..c - 1, Steps(m, x, c) = c - 1
        PROVE  old[x] = Null \/ Used(old, c) = (0..c - 1) \ {h}
    <3>1. x = l
      BY <2>4, <2>5, <2>9, Ranks
    <3>2. Used(slots, c) = 0..c - 1 => Used(old, c) = (0..c - 1) \ {h}
      BY <1>1, <1>3 DEF Used
    <3> QED
      BY <1>2, <1>3, <1>7, <3>1, <3>2
  <2>10. Steps(m, h, c) < Steps(m, s, c)
    BY <1>1, <2>4, <2>7
  <2>11. Running(old, h, m, old, s, c)
    BY <1>1, <1>3, <1>5, <2>4, <2>7, <2>8, <2>9, <2>10 DEF Running
  <2> QED
    BY <1>3, <1>4, <2>3, <2>11
<1> QED
  BY <1>6, <1>7

-----------------------------------------------------------------------------
(* The loops. *)

\* The rounds of erase's loop, one after another.
Rounds(f, n, start) ==
  /\ f = [i \in 0..n |-> f[i]] /\ f[0] = start
  /\ \A i \in 1..n : f[i] = Round(f[i - 1])

LEMMA RoundsDef ==
  ASSUME NEW slots, NEW hole, NEW count, m_capacity \in Nat
  PROVE  \E f : /\ Rounds(f, 2 * m_capacity, [slots |-> slots, scan |-> (hole + 1) % m_capacity,
                                              count |-> count])
                /\ RunReplaced(slots, hole, count) = f[2 * m_capacity]
<1>1. PICK start, N : /\ start = [slots |-> slots, scan |-> (hole + 1) % m_capacity, count |-> count]
                      /\ N = 2 * m_capacity
  OBVIOUS
<1>2. N \in Nat
  BY <1>1
<1> DEFINE T == {n \in Nat : \E f : Rounds(f, n, start)}
<1>3. 0 \in T
  <2>1. PICK f : f = [i \in 0..0 |-> start]
    OBVIOUS
  <2>2. Rounds(f, 0, start)
    BY <2>1 DEF Rounds
  <2> QED
    BY <2>2
<1>4. ASSUME NEW n \in T PROVE n + 1 \in T
  <2>1. n \in Nat
    OBVIOUS
  <2>2. PICK f : Rounds(f, n, start)
    OBVIOUS
  <2>3. PICK g : g = [i \in 0..n + 1 |-> IF i <= n THEN f[i] ELSE Round(f[i - 1])]
    OBVIOUS
  <2> HIDE DEF T
  <2>4. g = [i \in 0..n + 1 |-> g[i]]
    BY <2>3
  <2>5. \A i \in 0..n : g[i] = f[i]
    BY <2>1, <2>3
  <2>6. g[n + 1] = Round(f[n])
    <3>1. n + 1 \in 0..n + 1 /\ ~(n + 1 <= n) /\ (n + 1) - 1 = n
      BY <2>1
    <3> QED
      BY <2>3, <3>1
  <2>7. g[0] = start
    BY <2>1, <2>2, <2>5 DEF Rounds
  <2>8. ASSUME NEW i \in 1..n + 1 PROVE g[i] = Round(g[i - 1])
    <3>1. CASE i = n + 1
      <4>1. i - 1 = n /\ n \in 0..n
        BY <2>1, <3>1
      <4> QED
        BY <2>5, <2>6, <3>1, <4>1
    <3>2. CASE i # n + 1
      <4>1. i \in 1..n /\ i \in 0..n /\ i - 1 \in 0..n
        BY <2>1, <3>2
      <4>2. f[i] = Round(f[i - 1])
        BY <2>2, <4>1 DEF Rounds
      <4> QED
        BY <2>5, <4>1, <4>2
    <3> QED
      BY <3>1, <3>2
  <2>9. Rounds(g, n + 1, start)
    BY <2>4, <2>7, <2>8 DEF Rounds
  <2> QED
    BY <2>1, <2>9 DEF T
<1>5. T = Nat
  <2> HIDE DEF T
  <2>1. T \subseteq Nat
    BY DEF T
  <2> QED
    BY <1>3, <1>4, <2>1, NatSet
<1>6. ASSUME NEW f
      PROVE  f = [i \in 0..N |-> IF i = 0 THEN start ELSE Round(f[i - 1])] <=> Rounds(f, N, start)
  <2>1. PICK e : e = [i \in 0..N |-> IF i = 0 THEN start ELSE Round(f[i - 1])]
    OBVIOUS
  <2>2. e = [i \in 0..N |-> e[i]]
    BY <2>1
  <2>3. f = e <=> f = [i \in 0..N |-> f[i]] /\ \A i \in 0..N : f[i] = e[i]
    BY <2>2
  <2>4. e[0] = start /\ \A i \in 1..N : e[i] = Round(f[i - 1])
    BY <1>2, <2>1
  <2>5. (\A i \in 0..N : f[i] = e[i]) <=> f[0] = start /\ \A i \in 1..N : f[i] = Round(f[i - 1])
    <3>1. 0 \in 0..N /\ \A i \in 0..N : i = 0 \/ i \in 1..N
      BY <1>2
    <3>2. \A i \in 1..N : i \in 0..N
      BY <1>2
    <3> QED
      BY <2>4, <3>1, <3>2
  <2>6. f = e <=> Rounds(f, N, start)
    BY <2>3, <2>5 DEF Rounds
  <2> QED
    BY <2>1, <2>6
<1> DEFINE F == CHOOSE f : f = [i \in 0..N |-> IF i = 0 THEN start ELSE Round(f[i - 1])]
<1>7. RunReplaced(slots, hole, count) = F[N]
  BY <1>1 DEF RunReplaced
<1>8. F = [i \in 0..N |-> IF i = 0 THEN start ELSE Round(F[i - 1])]
  <2>1. \E f : Rounds(f, N, start)
    BY <1>2, <1>5
  <2>2. \E f : f = [i \in 0..N |-> IF i = 0 THEN start ELSE Round(f[i - 1])]
    BY <1>6, <2>1
  <2> QED
    BY <2>2
<1>9. Rounds(F, N, start)
  <2> HIDE DEF F
  <2> QED
    BY <1>6, <1>8
<1> QED
  BY <1>1, <1>7, <1>9

\* The table of grow() after n slots of the old one.
Fill(slots, capacity, i) ==
  IF m_slots[i] = Null THEN slots ELSE place(slots, capacity, m_slots[i])

Filling(f, n, capacity) ==
  /\ f = [i \in 0..n |-> f[i]] /\ f[0] = EmptyTable(capacity)
  /\ \A i \in 1..n : f[i] = Fill(f[i - 1], capacity, i - 1)

LEMMA FillingDef ==
  ASSUME NEW capacity, m_capacity \in Nat
  PROVE  \E f : Filling(f, m_capacity, capacity) /\ Rehashed(capacity) = f[m_capacity]
<1>1. PICK start, N : start = EmptyTable(capacity) /\ N = m_capacity
  OBVIOUS
<1>2. N \in Nat
  BY <1>1
<1> DEFINE T == {n \in Nat : \E f : Filling(f, n, capacity)}
<1>3. 0 \in T
  <2>1. PICK f : f = [i \in 0..0 |-> start]
    OBVIOUS
  <2>2. Filling(f, 0, capacity)
    BY <1>1, <2>1 DEF Filling
  <2> QED
    BY <2>2
<1>4. ASSUME NEW n \in T PROVE n + 1 \in T
  <2>1. n \in Nat
    OBVIOUS
  <2>2. PICK f : Filling(f, n, capacity)
    OBVIOUS
  <2>3. PICK g : g = [i \in 0..n + 1 |-> IF i <= n THEN f[i] ELSE Fill(f[i - 1], capacity, i - 1)]
    OBVIOUS
  <2> HIDE DEF T
  <2>4. g = [i \in 0..n + 1 |-> g[i]]
    BY <2>3
  <2>5. \A i \in 0..n : g[i] = f[i]
    BY <2>1, <2>3
  <2>6. g[n + 1] = Fill(f[n], capacity, n)
    <3>1. n + 1 \in 0..n + 1 /\ ~(n + 1 <= n) /\ (n + 1) - 1 = n
      BY <2>1
    <3> QED
      BY <2>3, <3>1
  <2>7. g[0] = start
    BY <1>1, <2>1, <2>2, <2>5 DEF Filling
  <2>8. ASSUME NEW i \in 1..n + 1 PROVE g[i] = Fill(g[i - 1], capacity, i - 1)
    <3>1. CASE i = n + 1
      <4>1. i - 1 = n /\ n \in 0..n
        BY <2>1, <3>1
      <4> QED
        BY <2>5, <2>6, <3>1, <4>1
    <3>2. CASE i # n + 1
      <4>1. i \in 1..n /\ i \in 0..n /\ i - 1 \in 0..n
        BY <2>1, <3>2
      <4>2. f[i] = Fill(f[i - 1], capacity, i - 1)
        BY <2>2, <4>1 DEF Filling
      <4> QED
        BY <2>5, <4>1, <4>2
    <3> QED
      BY <3>1, <3>2
  <2>9. Filling(g, n + 1, capacity)
    BY <1>1, <2>4, <2>7, <2>8 DEF Filling
  <2> QED
    BY <2>1, <2>9 DEF T
<1>5. T = Nat
  <2> HIDE DEF T
  <2>1. T \subseteq Nat
    BY DEF T
  <2> QED
    BY <1>3, <1>4, <2>1, NatSet
<1>6. ASSUME NEW f
      PROVE  f = [i \in 0..N |-> IF i = 0 THEN start ELSE Fill(f[i - 1], capacity, i - 1)]
               <=> Filling(f, N, capacity)
  <2>1. PICK e : e = [i \in 0..N |-> IF i = 0 THEN start ELSE Fill(f[i - 1], capacity, i - 1)]
    OBVIOUS
  <2>2. e = [i \in 0..N |-> e[i]]
    BY <2>1
  <2>3. f = e <=> f = [i \in 0..N |-> f[i]] /\ \A i \in 0..N : f[i] = e[i]
    BY <2>2
  <2>4. e[0] = start /\ \A i \in 1..N : e[i] = Fill(f[i - 1], capacity, i - 1)
    BY <1>2, <2>1
  <2>5. (\A i \in 0..N : f[i] = e[i])
          <=> f[0] = start /\ \A i \in 1..N : f[i] = Fill(f[i - 1], capacity, i - 1)
    <3>1. 0 \in 0..N /\ \A i \in 0..N : i = 0 \/ i \in 1..N
      BY <1>2
    <3>2. \A i \in 1..N : i \in 0..N
      BY <1>2
    <3> QED
      BY <2>4, <3>1, <3>2
  <2>6. f = e <=> Filling(f, N, capacity)
    BY <1>1, <2>3, <2>5 DEF Filling
  <2> QED
    BY <2>1, <2>6
<1> DEFINE F == CHOOSE f : f = [i \in 0..N |-> IF i = 0 THEN start ELSE Fill(f[i - 1], capacity, i - 1)]
<1>7. Rehashed(capacity) = F[N]
  BY <1>1 DEF Rehashed, Fill
<1>8. F = [i \in 0..N |-> IF i = 0 THEN start ELSE Fill(F[i - 1], capacity, i - 1)]
  <2>1. \E f : Filling(f, N, capacity)
    BY <1>2, <1>5
  <2>2. \E f : f = [i \in 0..N |-> IF i = 0 THEN start ELSE Fill(f[i - 1], capacity, i - 1)]
    BY <1>6, <2>1
  <2> QED
    BY <2>2
<1>9. Filling(F, N, capacity)
  <2> HIDE DEF F
  <2> QED
    BY <1>6, <1>8
<1> QED
  BY <1>1, <1>7, <1>9

LEMMA StepsNext ==
  ASSUME NEW c \in Nat \ {0}, NEW x \in 0..c - 1, NEW z \in 0..c - 1, x # z
  PROVE  (x + 1) % c \in 0..c - 1 /\ Steps((x + 1) % c, z, c) = Steps(x, z, c) - 1
<1>1. CASE x + 1 < c
  <2>1. (0 * c + (x + 1)) % c = x + 1
    BY <1>1, ModUnique
  <2>2. (x + 1) % c = x + 1
    BY <2>1
  <2> QED
    BY <1>1, <2>2 DEF Steps
<1>2. CASE x + 1 = c
  <2>1. (1 * c + 0) % c = 0
    BY ModUnique
  <2>2. (x + 1) % c = 0
    BY <1>2, <2>1
  <2> QED
    BY <1>2, <2>2 DEF Steps
<1> QED
  BY <1>1, <1>2

\* Without one of its pointers a table has room.
LEMMA RoomLeft ==
  ASSUME hash \in [Pointers -> Hashes], NEW c \in Nat \ {0}, NEW slots, Sound(slots, c),
         NEW p \in Stored(slots, c), NEW t, Table(t, c), Chained(t, c),
         Stored(t, c) = Stored(slots, c) \ {p}
  PROVE  /\ \E z \in 0..c - 1 : t[z] = Null
         /\ Cardinality(Used(t, c)) = Cardinality(Used(slots, c)) - 1
<1>1. /\ IsFiniteSet(Stored(slots, c)) /\ Cardinality(Used(slots, c)) \in 0..c
      /\ Cardinality(Stored(slots, c)) = Cardinality(Used(slots, c))
  BY UsedCount DEF Sound
<1>2. /\ Cardinality(Stored(t, c)) = Cardinality(Used(t, c))
      /\ Cardinality(Used(t, c)) = c <=> Used(t, c) = 0..c - 1
  BY UsedCount
<1>3. Cardinality(Stored(slots, c) \ {p}) = Cardinality(Stored(slots, c)) - 1
  BY <1>1, FS_RemoveElement
<1>4. Cardinality(Used(t, c)) = Cardinality(Used(slots, c)) - 1
  BY <1>1, <1>2, <1>3
<1>5. Used(t, c) # 0..c - 1
  BY <1>1, <1>2, <1>4
<1> QED
  BY <1>4, <1>5 DEF Used

\* erase's loop ends at a free slot, with a sound table that holds all pointers
\* but the one that was erased.
LEMMA LoopEnds ==
  ASSUME hash \in [Pointers -> Hashes], m_capacity \in Nat \ {0}, Sound(m_slots, m_capacity),
         NEW h \in Used(m_slots, m_capacity), NEW count, NEW end,
         end = RunReplaced(Hole(h), h, count)
  PROVE  /\ Sound(end.slots, m_capacity) /\ end.count = count /\ end.slots[end.scan] = Null
         /\ Stored(end.slots, m_capacity) = Stored(m_slots, m_capacity) \ {m_slots[h]}
<1>1. PICK c, old : c = m_capacity /\ old = [m_slots EXCEPT ![h] = Null]
  OBVIOUS
<1>2. c \in Nat \ {0} /\ Sound(m_slots, c) /\ h \in Used(m_slots, c)
  BY <1>1
<1>3. /\ Table(old, c) /\ Stored(old, c) = Stored(m_slots, c) \ {m_slots[h]}
      /\ Chained(old, c) \/ \E m : Running(old, h, m, old, (h + 1) % c, c)
  <2>1. PICK slots : slots = m_slots
    OBVIOUS
  <2>2. Sound(slots, c) /\ h \in Used(slots, c) /\ old = [slots EXCEPT ![h] = Null]
    BY <1>1, <1>2, <2>1
  <2>3. Table(old, c) /\ (Chained(old, c) \/ \E m : Running(old, h, m, old, (h + 1) % c, c))
    BY <1>2, <2>2, RunBegins
  <2>4. \A p : p \in Stored(old, c) <=> p \in Stored(slots, c) /\ p # slots[h]
    BY <1>2, <2>2, RunBegins
  <2> QED
    BY <2>1, <2>3, <2>4
<1>4. h \in 0..c - 1 /\ old[h] = Null /\ m_slots[h] \in Stored(m_slots, c)
  BY <1>1, <1>2 DEF Used, Stored, Sound, Table
<1>5. PICK start : start = [slots |-> old, scan |-> (h + 1) % c, count |-> count]
  OBVIOUS
<1>6. PICK f : Rounds(f, 2 * c, start) /\ end = f[2 * c]
  <2>1. end = RunReplaced(old, h, count)
    BY <1>1 DEF Hole
  <2>2. \E f : /\ Rounds(f, 2 * m_capacity, [slots |-> old, scan |-> (h + 1) % m_capacity,
                                              count |-> count])
              /\ RunReplaced(old, h, count) = f[2 * m_capacity]
    BY <1>1, <1>2, RoundsDef
  <2> QED
    BY <1>1, <1>5, <2>1, <2>2
<1> DEFINE Whole(r, n) ==
             /\ Table(r.slots, c) /\ Chained(r.slots, c) /\ Stored(r.slots, c) = Stored(old, c)
             /\ r.count = count /\ r.scan \in 0..c - 1
             /\ \/ r.slots[r.scan] = Null
                \/ \E z \in 0..c - 1 : r.slots[z] = Null /\ n + Steps(r.scan, z, c) <= 2 * c
           Part(r, n) ==
             /\ r.count = count
             /\ \E m : /\ Running(old, h, m, r.slots, r.scan, c)
                       /\ Steps(m, r.scan, c) = Steps(m, h, c) + 1 + n
           T == {n \in Nat : n <= 2 * c => Whole(f[n], n) \/ Part(f[n], n)}
<1>7. \A i, j \in 0..c - 1 : Steps(i, j, c) \in 0..c - 1 /\ (Steps(i, j, c) = 0 => i = j)
  BY <1>2 DEF Steps
<1>8. 0 \in T
  <2>1. f[0] = start
    BY <1>6 DEF Rounds
  <2>2. (h + 1) % c \in 0..c - 1
    BY <1>2, <1>4, Ranks
  <2>3. CASE Chained(old, c)
    <3>1. 0 + Steps((h + 1) % c, h, c) <= 2 * c
      BY <1>2, <1>4, <1>7, <2>2
    <3>2. Whole(start, 0)
      BY <1>3, <1>4, <1>5, <2>2, <2>3, <3>1
    <3> QED
      BY <2>1, <3>2
  <2>4. CASE ~Chained(old, c)
    <3>1. PICK m : Running(old, h, m, old, (h + 1) % c, c)
      BY <1>3, <2>4
    <3>2. m \in 0..c - 1 /\ Steps(m, h, c) < Steps(m, (h + 1) % c, c)
      BY <3>1 DEF Running
    <3>3. Steps(m, (h + 1) % c, c) = IF Steps(m, h, c) = c - 1 THEN 0 ELSE Steps(m, h, c) + 1
      BY <1>2, <1>4, <3>2, Ranks
    <3>4. Steps(m, (h + 1) % c, c) = Steps(m, h, c) + 1 + 0
      BY <1>2, <1>4, <1>7, <3>2, <3>3
    <3>5. Part(start, 0)
      BY <1>5, <3>1, <3>4
    <3> QED
      BY <2>1, <3>5
  <2> QED
    BY <2>3, <2>4
<1>9. ASSUME NEW n \in T PROVE n + 1 \in T
  <2>1. n \in Nat
    OBVIOUS
  <2>2. SUFFICES ASSUME n + 1 <= 2 * c PROVE Whole(f[n + 1], n + 1) \/ Part(f[n + 1], n + 1)
    BY <2>1
  <2>3. PICK r, s, slots, u :
          /\ r = f[n] /\ s = r.scan /\ slots = r.slots /\ u = [slots EXCEPT ![s] = Null]
    OBVIOUS
  <2>4. Whole(r, n) \/ Part(r, n)
    <3>1. n <= 2 * c
      BY <1>2, <2>1, <2>2
    <3> QED
      BY <2>3, <3>1
  <2>5. f[n + 1] = Round(r)
    <3>1. n + 1 \in 1..2 * c /\ (n + 1) - 1 = n
      BY <1>2, <2>1, <2>2
    <3> QED
      BY <1>6, <2>3, <3>1 DEF Rounds
  <2>6. ASSUME slots[s] = Null PROVE Round(r) = r
    BY <2>3, <2>6 DEF Round
  <2>7. ASSUME slots[s] # Null, Placed(u, c, slots[s])
        PROVE  Round(r) = [slots |-> place(u, c, slots[s]), scan |-> (s + 1) % c, count |-> r.count]
    BY <1>1, <2>3, <2>7 DEF Round
  <2>8. CASE Whole(r, n) /\ slots[s] = Null
    BY <2>3, <2>5, <2>6, <2>8
  <2>9. CASE Whole(r, n) /\ slots[s] # Null
    <3>1. PICK z \in 0..c - 1 : slots[z] = Null /\ n + Steps(s, z, c) <= 2 * c
      BY <2>3, <2>9
    <3>2. /\ s \in Used(slots, c) /\ s \in 0..c - 1 /\ s # z
          /\ Table(slots, c) /\ Chained(slots, c) /\ Stored(slots, c) = Stored(old, c) /\ r.count = count
      BY <2>3, <2>9, <3>1 DEF Used
    <3>3. Placed(u, c, slots[s]) /\ place(u, c, slots[s]) = slots
      <4>1. /\ Placed([slots EXCEPT ![s] = Null], c, slots[s])
            /\ place([slots EXCEPT ![s] = Null], c, slots[s]) = slots
        BY <1>2, <3>2, PlaceBack
      <4> QED
        BY <2>3, <4>1
    <3>4. (s + 1) % c \in 0..c - 1 /\ Steps((s + 1) % c, z, c) = Steps(s, z, c) - 1
      BY <1>2, <3>1, <3>2, StepsNext
    <3>5. (n + 1) + Steps((s + 1) % c, z, c) <= 2 * c
      BY <1>2, <1>7, <2>1, <3>1, <3>2, <3>4
    <3>6. PICK t : t = [slots |-> slots, scan |-> (s + 1) % c, count |-> count]
      OBVIOUS
    <3>7. Round(r) = t
      BY <2>7, <2>9, <3>2, <3>3, <3>6
    <3>8. Whole(t, n + 1)
      BY <3>1, <3>2, <3>4, <3>5, <3>6
    <3> QED
      BY <2>5, <3>7, <3>8
  <2>10. CASE Part(r, n)
    <3>1. PICK m : /\ Running(old, h, m, slots, s, c) /\ r.count = count
                   /\ Steps(m, s, c) = Steps(m, h, c) + 1 + n
      BY <2>3, <2>10
    <3>2. /\ m \in 0..c - 1 /\ s \in 0..c - 1 /\ Steps(m, s, c) \in 0..c - 1 /\ Steps(m, h, c) \in 0..c - 1
          /\ Table(slots, c) /\ Stored(slots, c) = Stored(old, c)
      BY <1>4, <1>7, <3>1 DEF Running
    <3>3. CASE slots[s] = Null
      <4>1. Chained(slots, c)
        BY <1>2, <3>1, <3>3, RunEnds
      <4>2. Whole(r, n + 1)
        BY <2>3, <3>1, <3>2, <3>3, <4>1
      <4> QED
        BY <2>5, <2>6, <3>3, <4>2
    <3>4. CASE slots[s] # Null /\ Steps(m, s, c) < c - 1
      <4>1. Placed(u, c, slots[s]) /\ Running(old, h, m, place(u, c, slots[s]), (s + 1) % c, c)
        BY <1>2, <2>3, <3>1, <3>4, RunGoesOn
      <4>2. Steps(m, (s + 1) % c, c) = IF Steps(m, s, c) = c - 1 THEN 0 ELSE Steps(m, s, c) + 1
        BY <1>2, <3>2, Ranks
      <4>3. Steps(m, (s + 1) % c, c) = Steps(m, h, c) + 1 + (n + 1)
        BY <1>2, <2>1, <3>1, <3>2, <3>4, <4>2
      <4>4. PICK t : t = [slots |-> place(u, c, slots[s]), scan |-> (s + 1) % c, count |-> count]
        OBVIOUS
      <4>5. Round(r) = t
        BY <2>7, <3>1, <3>4, <4>1, <4>4
      <4>6. Part(t, n + 1)
        BY <4>1, <4>3, <4>4
      <4> QED
        BY <2>5, <4>5, <4>6
    <3>5. CASE slots[s] # Null /\ Steps(m, s, c) = c - 1
      <4>1. /\ Placed(u, c, slots[s])
            /\ Table(place(u, c, slots[s]), c) /\ Chained(place(u, c, slots[s]), c)
            /\ Stored(place(u, c, slots[s]), c) = Stored(old, c)
        BY <1>2, <2>3, <3>1, <3>5, RunComesRound
      <4>2. PICK w : w = place(u, c, slots[s])
        OBVIOUS
      <4>3. PICK z \in 0..c - 1 : w[z] = Null
        BY <1>2, <1>3, <1>4, <4>1, <4>2, RoomLeft
      <4>4. (s + 1) % c \in 0..c - 1
        BY <1>2, <3>2, Ranks
      <4>5. (n + 1) + Steps((s + 1) % c, z, c) <= 2 * c
        <5>1. Steps((s + 1) % c, z, c) \in 0..c - 1
          BY <1>7, <4>4
        <5> QED
          BY <1>2, <2>1, <3>1, <3>2, <3>5, <5>1
      <4>6. PICK t : t = [slots |-> w, scan |-> (s + 1) % c, count |-> count]
        OBVIOUS
      <4>7. Round(r) = t
        BY <2>7, <3>1, <3>5, <4>1, <4>2, <4>6
      <4>8. Whole(t, n + 1)
        BY <4>1, <4>2, <4>3, <4>4, <4>5, <4>6
      <4> QED
        BY <2>5, <4>7, <4>8
    <3> QED
      BY <1>2, <3>2, <3>3, <3>4, <3>5
  <2> QED
    BY <2>4, <2>8, <2>9, <2>10
<1>10. 2 * c \in T
  <2> HIDE DEF T
  <2>1. T \subseteq Nat
    BY DEF T
  <2>2. T = Nat
    BY <1>8, <1>9, <2>1, NatSet
  <2> QED
    BY <1>2, <2>2
<1>11. Whole(end, 2 * c)
  <2>0. Whole(end, 2 * c) \/ Part(end, 2 * c)
    <3>1. 2 * c <= 2 * c
      BY <1>2
    <3>2. Whole(f[2 * c], 2 * c) \/ Part(f[2 * c], 2 * c)
      BY <1>10, <3>1
    <3> QED
      BY <1>6, <3>2
  <2>1. SUFFICES ASSUME Part(end, 2 * c) PROVE FALSE
    BY <2>0
  <2>2. PICK m : /\ Running(old, h, m, end.slots, end.scan, c)
                 /\ Steps(m, end.scan, c) = Steps(m, h, c) + 1 + 2 * c
    BY <2>1
  <2>3. Steps(m, end.scan, c) \in 0..c - 1 /\ Steps(m, h, c) \in 0..c - 1
    BY <1>4, <1>7, <2>2 DEF Running
  <2> QED
    BY <1>2, <2>2, <2>3
<1>12. end.slots[end.scan] = Null
  <2>1. SUFFICES ASSUME NEW z \in 0..c - 1, end.slots[z] = Null, 2 * c + Steps(end.scan, z, c) <= 2 * c
                 PROVE  end.slots[end.scan] = Null
    BY <1>11
  <2>2. Steps(end.scan, z, c) = 0
    <3>1. Steps(end.scan, z, c) \in 0..c - 1
      BY <1>7, <1>11, <2>1
    <3> HIDE DEF Whole
    <3> QED
      BY <1>2, <2>1, <3>1
  <2> QED
    BY <1>7, <1>11, <2>1, <2>2
<1>13. Sound(end.slots, c)
  <2>1. end.scan \in 0..c - 1 /\ [end.slots EXCEPT ![end.scan] = Null] = end.slots
    BY <1>11, <1>12 DEF Table
  <2>2. Table(end.slots, c) /\ Chained(end.slots, c)
    BY <1>11
  <2> QED
    BY <2>1, <2>2 DEF Sound
<1> QED
  BY <1>1, <1>3, <1>11, <1>12, <1>13

\* A larger table takes all of the pointers over.
LEMMA RehashKeeps ==
  ASSUME hash \in [Pointers -> Hashes], m_capacity \in Nat, Sound(m_slots, m_capacity),
         NEW g \in Nat, g > m_capacity, NEW t, t = Rehashed(g)
  PROVE  Sound(t, g) /\ Stored(t, g) = Stored(m_slots, m_capacity)
<1>1. PICK c, old : c = m_capacity /\ old = m_slots
  OBVIOUS
<1>2. c \in Nat /\ Table(old, c) /\ Chained(old, c) /\ g \in Nat \ {0} /\ c < g
  BY <1>1 DEF Sound
<1>3. PICK f : /\ f[0] = EmptyTable(g) /\ t = f[c]
               /\ \A i \in 1..c : f[i] = Fill(f[i - 1], g, i - 1)
  BY <1>1, <1>2, FillingDef DEF Filling
<1> DEFINE First(n) == {old[i] : i \in 0..n - 1} \ {Null}
           T == {n \in Nat : n <= c => Sound(f[n], g) /\ Stored(f[n], g) = First(n)}
<1>4. 0 \in T
  <2>1. PICK e : e = EmptyTable(g)
    OBVIOUS
  <2>2. Table(e, g) /\ \A i \in 0..g - 1 : e[i] = Null
    BY <2>1 DEF EmptyTable, Table
  <2>3. Chained(e, g) /\ Stored(e, g) = {}
    BY <2>2 DEF Chained, Used, Stored
  <2>4. 0 \in 0..g - 1 /\ [e EXCEPT ![0] = Null] = e
    BY <1>2, <2>2 DEF Table
  <2>5. Sound(e, g)
    BY <2>2, <2>3, <2>4 DEF Sound
  <2>6. First(0) = {}
    OBVIOUS
  <2> QED
    BY <1>3, <2>1, <2>3, <2>5, <2>6
<1>5. ASSUME NEW n \in T PROVE n + 1 \in T
  <2>1. n \in Nat
    OBVIOUS
  <2>2. SUFFICES ASSUME n + 1 <= c
                 PROVE  Sound(f[n + 1], g) /\ Stored(f[n + 1], g) = First(n + 1)
    BY <2>1
  <2>3. PICK s : s = f[n]
    OBVIOUS
  <2>4. Sound(s, g) /\ Stored(s, g) = First(n)
    <3>1. n <= c
      BY <1>2, <2>1, <2>2
    <3> QED
      BY <2>3, <3>1
  <2>5. n \in 0..c - 1 /\ n + 1 \in 1..c /\ (n + 1) - 1 = n
    BY <1>2, <2>1, <2>2
  <2>6. f[n + 1] = IF old[n] = Null THEN s ELSE place(s, g, old[n])
    BY <1>1, <1>3, <2>3, <2>5 DEF Fill
  <2>7. First(n + 1) = First(n) \union ({old[n]} \ {Null})
    <3>1. \A i : i \in 0..(n + 1) - 1 <=> i \in 0..n - 1 \/ i = n
      BY <2>1
    <3> QED
      BY <3>1
  <2> HIDE DEF First
  <2>8. CASE old[n] = Null
    <3>1. First(n + 1) = First(n) /\ f[n + 1] = s
      BY <2>6, <2>7, <2>8
    <3> QED
      BY <2>4, <3>1
  <2>9. CASE old[n] # Null
    <3>1. PICK p : p = old[n]
      OBVIOUS
    <3>2. p \in Pointers /\ p # Null
      BY <1>2, <2>5, <2>9, <3>1 DEF Table
    <3>3. p \notin First(n) /\ First(n) \subseteq Stored(old, c)
      <4>1. ASSUME NEW i \in 0..n - 1 PROVE i \in 0..c - 1 /\ i # n
        BY <1>2, <2>1, <2>2
      <4>2. ASSUME NEW i \in 0..n - 1 PROVE old[i] # p
        <5>1. i \in 0..c - 1 /\ i # n /\ c \in Nat \ {0}
          BY <1>2, <2>5, <4>1
        <5>2. Apart(old, c)
          BY <1>2, <5>1, ChainedApart
        <5> QED
          BY <2>5, <2>9, <3>1, <5>1, <5>2 DEF Apart, Used
      <4> QED
        BY <4>1, <4>2 DEF First, Stored
    <3>4. Used(s, g) # 0..g - 1
      <4>1. /\ IsFiniteSet(Stored(old, c)) /\ Cardinality(Stored(old, c)) = Cardinality(Used(old, c))
            /\ Cardinality(Used(old, c)) \in 0..c
        BY <1>2, UsedCount
      <4>2. Cardinality(Stored(s, g)) <= Cardinality(Stored(old, c))
        BY <2>4, <3>3, <4>1, FS_Subset
      <4>3. /\ Cardinality(Stored(s, g)) = Cardinality(Used(s, g))
            /\ Cardinality(Used(s, g)) = g <=> Used(s, g) = 0..g - 1
        BY <1>2, <2>4, UsedCount DEF Sound
      <4> QED
        BY <1>2, <4>1, <4>2, <4>3
    <3>5. Sound(place(s, g, p), g) /\ Stored(place(s, g, p), g) = Stored(s, g) \union {p}
      BY <1>2, <2>4, <3>2, <3>3, <3>4, PlaceNew DEF Sound
    <3>6. First(n + 1) = First(n) \union {p} /\ f[n + 1] = place(s, g, p)
      BY <2>6, <2>7, <2>9, <3>1, <3>2
    <3> QED
      BY <2>4, <3>5, <3>6
  <2> QED
    BY <2>8, <2>9
<1>6. Sound(f[c], g) /\ Stored(f[c], g) = First(c)
  <2>1. T = Nat
    <3> HIDE DEF T
    <3>1. T \subseteq Nat
      BY DEF T
    <3> QED
      BY <1>4, <1>5, <3>1, NatSet
  <2>2. c \in T
    <3> HIDE DEF T
    <3> QED
      BY <1>2, <2>1
  <2>3. c <= c
    BY <1>2
  <2> HIDE DEF First
  <2> QED
    BY <2>2, <2>3
<1>7. First(c) = Stored(m_slots, m_capacity)
  BY <1>1 DEF Stored
<1> QED
  BY <1>3, <1>6, <1>7

-----------------------------------------------------------------------------
(* The invariant. *)

TableInv ==
  /\ hash \in [Pointers -> Hashes] /\ m_capacity \in 0..MaxCapacity
  /\ Sound(m_slots, m_capacity)
  /\ Stored(m_slots, m_capacity) = members \ lost
  /\ members \subseteq Pointers /\ lost \subseteq members
  /\ m_count = Cardinality(Used(m_slots, m_capacity))
  /\ hung = FALSE

\* The operations in terms of the table they leave, under the same hash.
Leaves(slots, c, count) ==
  /\ Sound(slots, c) /\ c \in 0..MaxCapacity /\ count = Cardinality(Used(slots, c))
  /\ Stored(slots, c) = members' \ lost'
  /\ members' \subseteq Pointers /\ lost' \subseteq members'

LEMMA Insertion ==
  ASSUME TableInv, NEW p \in Pointers, NEW c \in 0..MaxCapacity, NEW slots,
         Sound(slots, c), Stored(slots, c) = Stored(m_slots, m_capacity),
         InsertInto(slots, c, p)
  PROVE  /\ Leaves(m_slots', m_capacity', m_count')
         /\ \A q \in Pointers : q \in lost' /\ q \notin lost => Used(slots, c) = 0..c - 1
<1>1. c \in Nat /\ hash \in [Pointers -> Hashes] /\ Table(slots, c) /\ Chained(slots, c)
  BY TableAssumption DEF TableInv, Sound
<1>2. /\ m_capacity' = c /\ members' = members \union {p}
      /\ m_slots' = place(slots, c, p) /\ m_count' = IF Placed(slots, c, p) THEN m_count + 1 ELSE m_count
      /\ lost' = IF Placed(slots, c, p) \/ \E i \in 0..c - 1 : slots[i] = p
                 THEN lost \ {p} ELSE lost \union {p}
  BY DEF InsertInto, Counted
<1>3. /\ IsFiniteSet(Stored(slots, c)) /\ m_count = Cardinality(Stored(slots, c)) /\ m_count \in Nat
      /\ m_count = Cardinality(Used(slots, c))
  <2>1. m_capacity \in Nat /\ Table(m_slots, m_capacity) /\ Chained(m_slots, m_capacity)
    BY TableAssumption DEF TableInv, Sound
  <2>2. Cardinality(Stored(m_slots, m_capacity)) = m_count
    BY <1>1, <2>1, UsedCount DEF TableInv
  <2>3. IsFiniteSet(Stored(slots, c)) /\ Cardinality(Used(slots, c)) = Cardinality(Stored(slots, c))
        /\ Cardinality(Used(slots, c)) \in 0..c
    BY <1>1, UsedCount
  <2> QED
    BY <1>1, <2>2, <2>3
<1>4. p \in Stored(slots, c) <=> \E i \in 0..c - 1 : slots[i] = p
  BY TableAssumption DEF Stored
<1>5. Stored(slots, c) = members \ lost /\ members \subseteq Pointers /\ lost \subseteq members
  BY DEF TableInv
<1>6. CASE p \in Stored(slots, c)
  <2>1. ~Placed(slots, c, p) /\ place(slots, c, p) = slots
    BY <1>1, <1>6, PlaceStored
  <2>2. m_slots' = slots /\ m_count' = m_count /\ lost' = lost \ {p}
    BY <1>2, <1>4, <1>6, <2>1
  <2> QED
    BY <1>2, <1>3, <1>5, <1>6, <2>2 DEF Leaves
<1>7. CASE p \notin Stored(slots, c) /\ Used(slots, c) = 0..c - 1
  <2>1. ~Placed(slots, c, p) /\ place(slots, c, p) = slots
    BY <1>1, <1>7, PlaceStored
  <2>2. m_slots' = slots /\ m_count' = m_count /\ lost' = lost \union {p}
    BY <1>2, <1>4, <1>7, <2>1
  <2> QED
    BY <1>2, <1>3, <1>5, <1>7, <2>2 DEF Leaves
<1>8. CASE p \notin Stored(slots, c) /\ Used(slots, c) # 0..c - 1
  <2>1. PICK t : t = place(slots, c, p)
    OBVIOUS
  <2>2. Placed(slots, c, p) /\ Sound(t, c) /\ Stored(t, c) = Stored(slots, c) \union {p}
    BY <1>1, <1>8, <2>1, PlaceNew
  <2>3. m_slots' = t /\ m_count' = m_count + 1 /\ lost' = lost \ {p}
    BY <1>2, <2>1, <2>2
  <2>4. Cardinality(Stored(t, c)) = m_count + 1
    BY <1>3, <1>8, <2>2, FS_AddElement
  <2>5. Cardinality(Used(t, c)) = m_count + 1
    BY <1>1, <2>2, <2>4, UsedCount DEF Sound
  <2> QED
    BY <1>2, <1>5, <2>2, <2>3, <2>5 DEF Leaves
<1> QED
  BY <1>6, <1>7, <1>8

\* contains finds what is stored.
LEMMA ContainsStored ==
  ASSUME TableInv, NEW p \in Pointers
  PROVE  /\ contains(p) <=> p \in Stored(m_slots, m_capacity)
         /\ contains(p) =>
              LET hole == SlotAt(p, Distance(m_slots, m_capacity, p), m_capacity)
              IN  /\ m_capacity \in Nat \ {0}
                  /\ hole \in Used(m_slots, m_capacity) /\ m_slots[hole] = p
<1>1. PICK slots, c : slots = m_slots /\ c = m_capacity
  OBVIOUS
<1>2. hash \in [Pointers -> Hashes] /\ c \in Nat /\ Table(slots, c) /\ Chained(slots, c) /\ p # Null
  BY <1>1, TableAssumption DEF TableInv, Sound
<1>3. contains(p) <=> /\ Distance(slots, c, p) < c
                      /\ slots[SlotAt(p, Distance(slots, c, p), c)] = p
  BY <1>1 DEF contains
<1>4. CASE \E i \in 0..c - 1 : slots[i] \in {Null, p}
  <2>1. c \in Nat \ {0}
    BY <1>2, <1>4
  <2>2. PICK i : StopsAt(slots, c, p, i)
    BY <1>2, <1>4, <2>1, ProbeStops
  <2>3. Distance(slots, c, p) \in 0..c - 1 /\ SlotAt(p, Distance(slots, c, p), c) = i
    BY <1>2, <2>1, <2>2, ProbeEnds
  <2>4. contains(p) <=> slots[i] = p
    BY <1>2, <1>3, <2>3
  <2>5. i \in 0..c - 1
    BY <2>2 DEF StopsAt
  <2>6. ASSUME p \in Stored(slots, c) PROVE slots[i] = p
    <3>1. PICK j \in 0..c - 1 : slots[j] = p
      BY <2>6 DEF Stored
    <3>2. StopsAt(slots, c, p, j)
      BY <1>2, <3>1 DEF Chained, Used
    <3> QED
      BY <1>2, <2>1, <2>2, <3>1, <3>2, StopUnique
  <2>7. ASSUME slots[i] = p PROVE p \in Stored(slots, c) /\ i \in Used(slots, c)
    BY <1>2, <2>5, <2>7 DEF Stored, Used
  <2> QED
    BY <1>1, <2>1, <2>3, <2>4, <2>6, <2>7
<1>5. CASE \A i \in 0..c - 1 : slots[i] \notin {Null, p}
  <2>1. Distance(slots, c, p) = c
    BY <1>2, <1>5, ProbeFails
  <2>2. ~contains(p) /\ p \notin Stored(slots, c)
    BY <1>2, <1>3, <1>5, <2>1 DEF Stored
  <2> QED
    BY <1>1, <2>2
<1> QED
  BY <1>4, <1>5

\* The invariant is kept by an operation that leaves a table like that.
LEMMA LeavesInv ==
  ASSUME TableInv, hash' = hash, hung' = FALSE, Leaves(m_slots', m_capacity', m_count')
  PROVE  TableInv'
<1>1. (Sound(m_slots, m_capacity))'
  BY ZenonT(40) DEF Leaves, Sound, Used, Table, Chained, StopsAt, Home, Steps
<1>2. (Stored(m_slots, m_capacity))' = Stored(m_slots', m_capacity')
      /\ (Used(m_slots, m_capacity))' = Used(m_slots', m_capacity')
  BY DEF Stored, Used
<1> QED
  BY <1>1, <1>2 DEF TableInv, Leaves

LEMMA InsertKeeps ==
  ASSUME TableInv, NEW p \in Pointers, Insert(p) \/ InsertWithoutMemory(p)
  PROVE  /\ TableInv'
         /\ \A q \in Pointers : q \in lost' /\ q \notin lost => m_count = m_capacity
<1>1. /\ hash \in [Pointers -> Hashes] /\ m_capacity \in 0..MaxCapacity /\ m_capacity \in Nat
      /\ Sound(m_slots, m_capacity) /\ hung = FALSE /\ hash' = hash /\ hung' = hung
  BY TableAssumption DEF TableInv, Insert, InsertWithoutMemory
<1>2. CASE NeedsRoom /\ Grown <= MaxCapacity /\ InsertInto(Rehashed(Grown), Grown, p)
  <2>1. PICK g, t : g = Grown /\ t = Rehashed(Grown)
    OBVIOUS
  <2>2. g \in Nat /\ m_capacity < g /\ g \in 0..MaxCapacity
    BY <1>1, <1>2, <2>1, TableAssumption DEF Grown
  <2>3. Sound(t, g) /\ Stored(t, g) = Stored(m_slots, m_capacity)
    BY <1>1, <2>1, <2>2, RehashKeeps
  <2>4. InsertInto(t, g, p)
    BY <1>2, <2>1
  <2>5. /\ Leaves(m_slots', m_capacity', m_count')
        /\ \A q \in Pointers : q \in lost' /\ q \notin lost => Used(t, g) = 0..g - 1
    BY <2>2, <2>3, <2>4, Insertion
  <2>6. Used(t, g) # 0..g - 1
    <3>1. /\ Cardinality(Stored(m_slots, m_capacity)) = Cardinality(Used(m_slots, m_capacity))
          /\ Cardinality(Used(m_slots, m_capacity)) \in 0..m_capacity
      BY <1>1, UsedCount DEF Sound
    <3>2. /\ Cardinality(Stored(t, g)) = Cardinality(Used(t, g))
          /\ Cardinality(Used(t, g)) = g <=> Used(t, g) = 0..g - 1
      BY <1>1, <2>2, <2>3, UsedCount DEF Sound
    <3> QED
      BY <1>1, <2>2, <2>3, <3>1, <3>2
  <2> QED
    BY <1>1, <2>5, <2>6, LeavesInv
<1>3. CASE InsertInto(m_slots, m_capacity, p)
  <2>1. /\ Leaves(m_slots', m_capacity', m_count')
        /\ \A q \in Pointers : q \in lost' /\ q \notin lost
             => Used(m_slots, m_capacity) = 0..m_capacity - 1
    BY <1>1, <1>3, Insertion
  <2>2. Used(m_slots, m_capacity) = 0..m_capacity - 1 => m_count = m_capacity
    BY <1>1, UsedCount DEF TableInv, Sound
  <2> QED
    BY <1>1, <2>1, <2>2, LeavesInv
<1> QED
  BY <1>2, <1>3 DEF Insert, InsertWithoutMemory

LEMMA EraseKeeps ==
  ASSUME TableInv, NEW p \in Pointers, Erase(p)
  PROVE  TableInv'
<1>1. /\ hash \in [Pointers -> Hashes] /\ m_capacity \in 0..MaxCapacity /\ m_capacity \in Nat
      /\ Sound(m_slots, m_capacity) /\ hung = FALSE /\ Stored(m_slots, m_capacity) = members \ lost
      /\ members \subseteq Pointers /\ lost \subseteq members
      /\ m_count = Cardinality(Used(m_slots, m_capacity))
  BY TableAssumption DEF TableInv
<1>2. /\ hash' = hash /\ m_capacity' = m_capacity /\ members' = members \ {p} /\ lost' = lost \ {p}
  BY DEF Erase
<1>3. CASE contains(p)
  <2>1. PICK hole : hole = SlotAt(p, Distance(m_slots, m_capacity, p), m_capacity)
    OBVIOUS
  <2>2. PICK count, end : count = m_count - 1 /\ end = RunReplaced(Hole(hole), hole, count)
    OBVIOUS
  <2>3. m_slots' = end.slots /\ m_count' = end.count /\ hung' = (end.slots[end.scan] # Null)
    BY <1>3, <2>1, <2>2 DEF Erase
  <2>4. m_capacity \in Nat \ {0} /\ hole \in Used(m_slots, m_capacity) /\ m_slots[hole] = p
    BY <1>3, <2>1, ContainsStored
  <2>5. /\ Sound(end.slots, m_capacity) /\ end.count = m_count - 1 /\ end.slots[end.scan] = Null
        /\ Stored(end.slots, m_capacity) = Stored(m_slots, m_capacity) \ {p}
    <3>1. /\ Sound(end.slots, m_capacity) /\ end.count = count /\ end.slots[end.scan] = Null
          /\ Stored(end.slots, m_capacity) = Stored(m_slots, m_capacity) \ {m_slots[hole]}
      BY <1>1, <2>2, <2>4, LoopEnds
    <3> QED
      BY <2>2, <2>4, <3>1
  <2>6. p \in Stored(m_slots, m_capacity)
    BY <1>3, ContainsStored
  <2>7. PICK t : t = end.slots
    OBVIOUS
  <2>8. Table(t, m_capacity) /\ Chained(t, m_capacity)
        /\ Stored(t, m_capacity) = Stored(m_slots, m_capacity) \ {p}
    BY <2>5, <2>7 DEF Sound
  <2>9. Cardinality(Used(t, m_capacity)) = m_count - 1
    BY <1>1, <2>4, <2>6, <2>8, RoomLeft
  <2>10. Leaves(m_slots', m_capacity', m_count')
    BY <1>1, <1>2, <2>3, <2>5, <2>7, <2>9 DEF Leaves
  <2> QED
    BY <1>2, <2>3, <2>5, <2>10, LeavesInv
<1>4. CASE ~contains(p)
  <2>1. m_slots' = m_slots /\ m_count' = m_count /\ hung' = hung
    BY <1>4 DEF Erase
  <2>2. p \notin Stored(m_slots, m_capacity)
    BY <1>4, ContainsStored
  <2>3. Leaves(m_slots', m_capacity', m_count')
    BY <1>1, <1>2, <2>1, <2>2 DEF Leaves
  <2> QED
    BY <1>1, <1>2, <2>1, <2>3, LeavesInv
<1> QED
  BY <1>3, <1>4

\* A table of no slots.
LEMMA EmptyTableSound ==
  /\ Sound(EmptyTable(0), 0) /\ Stored(EmptyTable(0), 0) = {}
  /\ Cardinality(Used(EmptyTable(0), 0)) = 0
<1>1. 0..0 - 1 = {}
  OBVIOUS
<1>2. Used(EmptyTable(0), 0) = {} /\ Stored(EmptyTable(0), 0) = {}
  BY <1>1 DEF Used, Stored
<1>3. Sound(EmptyTable(0), 0)
  BY <1>1, <1>2 DEF Sound, Table, Chained, EmptyTable
<1> QED
  BY <1>2, <1>3, FS_EmptySet

LEMMA ReleaseKeeps ==
  ASSUME TableInv, release
  PROVE  TableInv'
<1>1. /\ m_slots' = EmptyTable(0) /\ m_capacity' = 0 /\ m_count' = 0 /\ members' = {} /\ lost' = {}
      /\ hash' = hash /\ hung' = hung
  BY DEF release
<1>2. 0 \in 0..MaxCapacity
  BY TableAssumption
<1>3. Leaves(m_slots', m_capacity', m_count')
  BY <1>1, <1>2, EmptyTableSound DEF Leaves
<1> QED
  BY <1>1, <1>3, LeavesInv DEF TableInv

LEMMA TableInitial == Init => TableInv
<1> SUFFICES ASSUME Init PROVE TableInv
  OBVIOUS
<1>1. 0 \in 0..MaxCapacity
  BY TableAssumption
<1> QED
  BY <1>1, EmptyTableSound DEF Init, TableInv

LEMMA TableNext == TableInv /\ [Next]_vars => TableInv'
<1> SUFFICES ASSUME TableInv, [Next]_vars PROVE TableInv'
  OBVIOUS
<1>1. CASE \E p \in Pointers : Insert(p) \/ InsertWithoutMemory(p) \/ Erase(p)
  BY <1>1, InsertKeeps, EraseKeeps
<1>2. CASE release
  BY <1>2, ReleaseKeeps
<1>3. CASE UNCHANGED vars
  <2>1. (Sound(m_slots, m_capacity))'
    BY <1>3 DEF vars, tableVars, TableInv, Sound, Table, Chained, Used, StopsAt, Home, Steps
  <2> QED
    BY <1>3, <2>1 DEF vars, tableVars, TableInv, Stored, Used
<1> QED
  BY <1>1, <1>2, <1>3 DEF Next

LEMMA TableInvariant == Spec => []TableInv
BY TableInitial, TableNext, PTL DEF Spec

-----------------------------------------------------------------------------
(* What callers may rely on. *)

LEMMA InvTypes == TableInv => TypeOK
<1> SUFFICES ASSUME TableInv PROVE TypeOK
  OBVIOUS
<1>1. m_capacity \in Nat /\ Sound(m_slots, m_capacity) /\ hash \in [Pointers -> Hashes]
  BY TableAssumption DEF TableInv
<1>2. m_count \in 0..m_capacity
  BY <1>1, UsedCount DEF TableInv, Sound
<1> QED
  BY <1>1, <1>2 DEF TableInv, TypeOK, Sound, Table

LEMMA InvExact == TableInv => ContainsExactly
<1> SUFFICES ASSUME TableInv PROVE ContainsExactly
  OBVIOUS
<1>1. m_capacity \in Nat /\ Table(m_slots, m_capacity) /\ Chained(m_slots, m_capacity)
      /\ hash \in [Pointers -> Hashes]
  BY TableAssumption DEF TableInv, Sound
<1>2. Occupied = Used(m_slots, m_capacity)
  BY <1>1 DEF Occupied, Used, Table
<1>3. \A i, j \in Occupied : m_slots[i] = m_slots[j] => i = j
  <2>1. CASE m_capacity = 0
    BY <1>2, <2>1 DEF Used
  <2>2. CASE m_capacity # 0
    BY <1>1, <1>2, <2>2, ChainedApart DEF Apart
  <2> QED
    BY <2>1, <2>2
<1>4. m_count = Cardinality(Occupied)
  BY <1>2 DEF TableInv
<1>5. \A p \in Pointers : contains(p) <=> p \in members \ lost
  BY ContainsStored DEF TableInv
<1> QED
  BY <1>3, <1>4, <1>5 DEF ContainsExactly

\* Types: the table is a table of its capacity, and never fuller than that.
THEOREM TableTypes == Spec => []TypeOK
BY TableInvariant, InvTypes, PTL

\* contains says of every pointer what its callers last did with it, and
\* m_count, by which grow is called, is the number of pointers stored.
THEOREM TableIsExact == Spec => []ContainsExactly
BY TableInvariant, InvExact, PTL

\* erase leaves its loop, whatever the table holds: LivePointerSet::erase.
THEOREM EraseComesToAnEnd == Spec => []EraseEnds
<1>1. TableInv => EraseEnds
  BY DEF TableInv, EraseEnds
<1> QED
  BY <1>1, TableInvariant, PTL

\* insert drops a pointer only when every slot is taken.
THEOREM OnlyAFullTableDrops == Spec => DroppedOnlyWhenFull
<1> DEFINE Drop == \A p \in Pointers : p \in lost' /\ p \notin lost => m_count = m_capacity
<1>1. TableInv /\ [Next]_vars => [Drop]_vars
  <2> SUFFICES ASSUME TableInv, Next PROVE Drop
    BY DEF vars, tableVars
  <2>1. CASE \E p \in Pointers : Insert(p) \/ InsertWithoutMemory(p)
    BY <2>1, InsertKeeps
  <2>2. CASE (\E p \in Pointers : Erase(p)) \/ release
    BY <2>2 DEF Erase, release
  <2> QED
    BY <2>1, <2>2 DEF Next
<1> QED
  BY <1>1, TableInvariant, PTL DEF Spec, DroppedOnlyWhenFull
==============================================================================

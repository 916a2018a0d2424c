---------------------------- MODULE ProgramProofs ----------------------------
(***************************************************************************)
(* What a whole test binary reports: proofs about Runner, Stress and       *)
(* Program for any number of test cases, phases, groups and assertions,    *)
(* and for every command line.                                             *)
(***************************************************************************)
EXTENDS Program, SumFacts

-----------------------------------------------------------------------------
(* Sequences of sequences. *)

\* What FlattenSeq computes, position by position.
Flattening(q, n, f) ==
  /\ f = [i \in 1..n |-> f[i]]
  /\ \A i \in 1..n : f[i] = IF i = 1 THEN q[i] ELSE f[i - 1] \o q[i]

LEMMA FlattenDef ==
  ASSUME NEW q, Len(q) \in Nat \ {0}
  PROVE  \E f : Flattening(q, Len(q), f) /\ FlattenSeq(q) = f[Len(q)]
<1> DEFINE T == {n \in Nat : \E f : Flattening(q, n, f)}
<1>1. 0 \in T
  <2>1. Flattening(q, 0, <<>>)
    BY DEF Flattening
  <2> QED
    BY <2>1
<1>2. ASSUME NEW n \in T PROVE n + 1 \in T
  <2>0. n \in Nat
    OBVIOUS
  <2>1. PICK f : Flattening(q, n, f)
    OBVIOUS
  <2>2. PICK g : g = [i \in 1..n + 1 |-> IF i <= n THEN f[i]
                                         ELSE IF i = 1 THEN q[i] ELSE f[i - 1] \o q[i]]
    OBVIOUS
  <2> HIDE DEF T
  <2>7. \A i \in 1..n : i \in 1..n + 1 /\ i <= n
    BY <2>0
  <2>8. \A i \in 1..n : f[i] = IF i = 1 THEN q[i] ELSE f[i - 1] \o q[i]
    BY <2>1 DEF Flattening
  <2>9. \A i \in 1..n : g[i] = f[i]
    BY <2>2, <2>7
  <2>3. \A i \in 1..n : i \in 1..n + 1 /\ g[i] = f[i] /\ f[i] = IF i = 1 THEN q[i] ELSE f[i - 1] \o q[i]
    BY <2>7, <2>8, <2>9
  <2>4. ASSUME NEW i \in 1..n + 1 PROVE g[i] = IF i = 1 THEN q[i] ELSE g[i - 1] \o q[i]
    <3>1. CASE i = 1
      <4>1. g[i] = IF i <= n THEN f[i] ELSE q[i]
        BY <2>2, <3>1
      <4>2. i <= n => f[i] = q[i]
        BY <2>0, <2>3, <3>1
      <4> QED
        BY <3>1, <4>1, <4>2
    <3>2. CASE i # 1 /\ i <= n
      <4>1. i \in 1..n /\ i - 1 \in 1..n
        BY <2>0, <3>2
      <4>2. g[i - 1] = f[i - 1] /\ g[i] = f[i] /\ f[i] = f[i - 1] \o q[i]
        BY <2>3, <3>2, <4>1
      <4> QED
        BY <3>2, <4>2
    <3>3. CASE i # 1 /\ i = n + 1
      <4>1. i - 1 \in 1..n /\ ~(i <= n)
        BY <2>0, <3>3
      <4>2. g[i - 1] = f[i - 1] /\ g[i] = f[i - 1] \o q[i]
        BY <2>2, <2>3, <3>3, <4>1
      <4> QED
        BY <3>3, <4>2
    <3> QED
      BY <2>0, <3>1, <3>2, <3>3
  <2>5. g = [i \in 1..n + 1 |-> g[i]]
    BY <2>2
  <2>6. Flattening(q, n + 1, g)
    BY <2>4, <2>5 DEF Flattening
  <2> QED
    BY <2>0, <2>6 DEF T
<1>3. T = Nat
  <2> HIDE DEF T
  <2>1. T \subseteq Nat
    BY DEF T
  <2> QED
    BY <1>1, <1>2, <2>1, NatSet
<1>4. \E f : Flattening(q, Len(q), f)
  BY <1>3
<1>5. PICK n : n = Len(q)
  OBVIOUS
<1>6. ASSUME NEW f
      PROVE  f = [i \in 1..n |-> IF i = 1 THEN q[i] ELSE f[i - 1] \o q[i]] <=> Flattening(q, n, f)
  <2>1. PICK e : e = [i \in 1..n |-> IF i = 1 THEN q[i] ELSE f[i - 1] \o q[i]]
    OBVIOUS
  <2>2. \A i \in 1..n : e[i] = IF i = 1 THEN q[i] ELSE f[i - 1] \o q[i]
    BY <2>1
  <2>3. e = [i \in 1..n |-> e[i]]
    BY <2>1
  <2>4. f = e <=> f = [i \in 1..n |-> f[i]] /\ \A i \in 1..n : f[i] = e[i]
    BY <2>3
  <2>5. f = e <=> Flattening(q, n, f)
    BY <2>2, <2>4 DEF Flattening
  <2> QED
    BY <2>1, <2>5
<1>7. FlattenSeq(q)
        = (CHOOSE f : f = [i \in 1..n |-> IF i = 1 THEN q[i] ELSE f[i - 1] \o q[i]])[n]
  BY <1>5 DEF FlattenSeq
<1> DEFINE F == CHOOSE f : f = [i \in 1..n |-> IF i = 1 THEN q[i] ELSE f[i - 1] \o q[i]]
<1>8. F = [i \in 1..n |-> IF i = 1 THEN q[i] ELSE F[i - 1] \o q[i]]
  <2>1. \E f : f = [i \in 1..n |-> IF i = 1 THEN q[i] ELSE f[i - 1] \o q[i]]
    BY <1>4, <1>5, <1>6
  <2> QED
    BY <2>1
<1>9. Flattening(q, n, F)
  <2> HIDE DEF F
  <2> QED
    BY <1>6, <1>8
<1> QED
  BY <1>5, <1>7, <1>9

\* Two sequences, one behind the other.
LEMMA ConcatFacts ==
  ASSUME NEW S, NEW a \in Seq(S), NEW b \in Seq(S)
  PROVE  /\ a \o b \in Seq(S) /\ Len(a \o b) = Len(a) + Len(b)
         /\ Range(a \o b) = Range(a) \union Range(b)
<1>1. a \o b \in Seq(S) /\ Len(a \o b) = Len(a) + Len(b)
  OBVIOUS
<1>2. /\ Len(a) \in Nat /\ Len(b) \in Nat /\ DOMAIN a = 1..Len(a) /\ DOMAIN b = 1..Len(b)
      /\ DOMAIN (a \o b) = 1..Len(a) + Len(b)
      /\ \A i \in 1..Len(a) : (a \o b)[i] = a[i]
      /\ \A i \in 1..Len(b) : (a \o b)[Len(a) + i] = b[i]
  OBVIOUS
<1>3. ASSUME NEW i \in 1..Len(a) + Len(b)
      PROVE  i \in 1..Len(a) \/ \E j \in 1..Len(b) : i = Len(a) + j
  <2>1. i \notin 1..Len(a) => i - Len(a) \in 1..Len(b) /\ i = Len(a) + (i - Len(a))
    BY <1>2
  <2> QED
    BY <2>1
<1>4. Range(a \o b) \subseteq Range(a) \union Range(b)
  <2>1. SUFFICES ASSUME NEW i \in 1..Len(a) + Len(b)
                 PROVE  (a \o b)[i] \in Range(a) \union Range(b)
    BY <1>2 DEF Range
  <2>2. CASE i \in 1..Len(a)
    BY <1>2, <2>2 DEF Range
  <2>3. CASE \E j \in 1..Len(b) : i = Len(a) + j
    BY <1>2, <2>3 DEF Range
  <2> QED
    BY <1>3, <2>2, <2>3
<1>5. Range(a) \union Range(b) \subseteq Range(a \o b)
  <2>1. /\ 1..Len(a) \subseteq DOMAIN (a \o b)
        /\ \A i \in 1..Len(b) : Len(a) + i \in DOMAIN (a \o b)
    BY <1>2
  <2> QED
    BY <1>2, <2>1 DEF Range
<1> QED
  BY <1>1, <1>4, <1>5

\* The sequences are put one behind the other: nothing else is in the result.
LEMMA FlattenFacts ==
  ASSUME NEW S, NEW q \in Seq(Seq(S))
  PROVE  /\ FlattenSeq(q) \in Seq(S)
         /\ Range(FlattenSeq(q)) = UNION {Range(q[i]) : i \in DOMAIN q}
<1>1. CASE q = <<>>
  BY <1>1 DEF FlattenSeq, Range
<1>2. CASE q # <<>>
  <2>0. PICK m : m = Len(q)
    OBVIOUS
  <2>1. m \in Nat \ {0} /\ DOMAIN q = 1..m /\ \A i \in 1..m : q[i] \in Seq(S)
    BY <1>2, <2>0
  <2>2. PICK f : Flattening(q, m, f) /\ FlattenSeq(q) = f[m]
    BY <2>0, <2>1, FlattenDef
  <2> DEFINE All(n) == UNION {Range(q[i]) : i \in 1..n}
             T == {n \in Nat : n + 1 <= m => f[n + 1] \in Seq(S) /\ Range(f[n + 1]) = All(n + 1)}
  <2>3. \A i \in 1..m : f[i] = IF i = 1 THEN q[i] ELSE f[i - 1] \o q[i]
    BY <2>2 DEF Flattening
  <2>4. 0 \in T
    <3>1. 1 \in 1..m /\ f[1] = q[1]
      BY <2>1, <2>3
    <3> QED
      BY <2>1, <3>1
  <2>5. ASSUME NEW n \in T PROVE n + 1 \in T
    <3>0. n \in Nat
      OBVIOUS
    <3>1. SUFFICES ASSUME n + 1 + 1 <= m
                   PROVE  f[n + 1 + 1] \in Seq(S) /\ Range(f[n + 1 + 1]) = All(n + 1 + 1)
      BY <3>0
    <3>2. PICK k, a, b : k = n + 1 + 1 /\ a = f[n + 1] /\ b = q[k]
      OBVIOUS
    <3>3. a \in Seq(S) /\ Range(a) = All(n + 1)
      BY <2>1, <3>0, <3>1, <3>2
    <3>4. k \in 1..m /\ k # 1 /\ k - 1 = n + 1
      BY <2>1, <3>0, <3>1, <3>2
    <3>5. b \in Seq(S) /\ f[k] = a \o b
      BY <2>1, <2>3, <3>2, <3>4
    <3>6. f[k] \in Seq(S) /\ Range(f[k]) = Range(a) \union Range(b)
      BY <3>3, <3>5, ConcatFacts
    <3>7. 1..k = (1..n + 1) \union {k}
      BY <3>0, <3>2
    <3>8. All(k) = All(n + 1) \union Range(b)
      <4>1. \A A, B : UNION {Range(q[i]) : i \in A \union {B}}
                        = (UNION {Range(q[i]) : i \in A}) \union Range(q[B])
        OBVIOUS
      <4> QED
        BY <3>2, <3>7, <4>1
    <3> QED
      BY <3>2, <3>3, <3>6, <3>8
  <2>6. T = Nat
    <3> HIDE DEF T
    <3>1. T \subseteq Nat
      BY DEF T
    <3> QED
      BY <2>4, <2>5, <3>1, NatSet
  <2>7. FlattenSeq(q) \in Seq(S) /\ Range(FlattenSeq(q)) = All(m)
    <3>0. m - 1 \in Nat /\ (m - 1) + 1 = m
      BY <2>1
    <3>1. PICK n : n \in Nat /\ n + 1 = m
      BY <3>0
    <3>2. n \in T
      BY <2>6, <3>1
    <3>3. f[n + 1] \in Seq(S) /\ Range(f[n + 1]) = All(n + 1)
      BY <2>1, <3>1, <3>2
    <3> QED
      BY <2>2, <3>1, <3>3
  <2> QED
    BY <2>1, <2>7
<1> QED
  BY <1>1, <1>2

\* It is as long as they are together.
LEMMA FlattenLength ==
  ASSUME NEW S, NEW q \in Seq(Seq(S)), NEW l, \A i \in DOMAIN q : l[i] = Len(q[i])
  PROVE  Len(FlattenSeq(q)) = SumFunctionOnSet(l, DOMAIN q)
<1>1. CASE q = <<>>
  <2>1. DOMAIN q = {} /\ FlattenSeq(q) = <<>>
    BY <1>1 DEF FlattenSeq
  <2> QED
    BY <2>1, SumEmpty
<1>2. CASE q # <<>>
  <2>0. PICK m : m = Len(q)
    OBVIOUS
  <2>1. m \in Nat \ {0} /\ DOMAIN q = 1..m /\ \A i \in 1..m : q[i] \in Seq(S)
    BY <1>2, <2>0
  <2>2. PICK f : Flattening(q, m, f) /\ FlattenSeq(q) = f[m]
    BY <2>0, <2>1, FlattenDef
  <2> DEFINE T == {n \in Nat : n + 1 <= m => /\ f[n + 1] \in Seq(S)
                                             /\ Len(f[n + 1]) = SumFunctionOnSet(l, 1..n + 1)}
  <2>3. \A i \in 1..m : f[i] = IF i = 1 THEN q[i] ELSE f[i - 1] \o q[i]
    BY <2>2 DEF Flattening
  <2>8. \A i \in 1..m : l[i] \in Int /\ l[i] = Len(q[i])
    <3>1. ASSUME NEW i \in 1..m PROVE l[i] \in Int /\ l[i] = Len(q[i])
      <4>1. q[i] \in Seq(S) /\ l[i] = Len(q[i])
        BY <2>1
      <4>2. Len(q[i]) \in Nat
        BY <4>1
      <4> QED
        BY <4>1, <4>2
    <3> QED
      BY <3>1
  <2>4. 0 \in T
    <3>0. 1 \in 1..m
      BY <2>1
    <3>4. f[1] = q[1] /\ q[1] \in Seq(S)
      BY <2>1, <2>3, <3>0
    <3>1. f[1] = q[1] /\ q[1] \in Seq(S) /\ l[1] \in Int /\ l[1] = Len(q[1])
      BY <2>8, <3>0, <3>4
    <3>2. {} \union {1} = 1..0 + 1 /\ IsFiniteSet({}) /\ 1 \notin {}
      BY FS_EmptySet
    <3>3. SumFunctionOnSet(l, {} \union {1}) = l[1] + SumFunctionOnSet(l, {})
      BY <3>1, <3>2, SumWith
    <3> QED
      BY <3>1, <3>2, <3>3, SumEmpty
  <2>5. ASSUME NEW n \in T PROVE n + 1 \in T
    <3>0. n \in Nat
      OBVIOUS
    <3>1. SUFFICES ASSUME n + 1 + 1 <= m
                   PROVE  /\ f[n + 1 + 1] \in Seq(S)
                          /\ Len(f[n + 1 + 1]) = SumFunctionOnSet(l, 1..n + 1 + 1)
      BY <3>0
    <3>2. PICK k, a, b : k = n + 1 + 1 /\ a = f[n + 1] /\ b = q[k]
      OBVIOUS
    <3>3. a \in Seq(S) /\ Len(a) = SumFunctionOnSet(l, 1..n + 1)
      BY <2>1, <3>0, <3>1, <3>2
    <3>4. k \in 1..m /\ k # 1 /\ k - 1 = n + 1
      BY <2>1, <3>0, <3>1, <3>2
    <3>5. b \in Seq(S) /\ f[k] = a \o b /\ l[k] = Len(b)
      BY <2>1, <2>3, <2>8, <3>2, <3>4
    <3>11. a \o b \in Seq(S) /\ Len(a \o b) = Len(a) + Len(b)
      BY <3>3, <3>5, ConcatFacts
    <3>6. f[k] \in Seq(S) /\ Len(f[k]) = Len(a) + Len(b)
      BY <3>5, <3>11
    <3>12. IsFiniteSet(1..n + 1)
      <4>1. n + 1 \in Int
        BY <3>0
      <4> QED
        BY <4>1, FS_Interval
    <3>7. /\ 1..k = (1..n + 1) \union {k} /\ k \notin 1..n + 1 /\ IsFiniteSet(1..n + 1)
          /\ 1..k \subseteq 1..m
      BY <2>1, <3>0, <3>2, <3>4, <3>12
    <3>8. \A y \in (1..n + 1) \union {k} : l[y] \in Int
      BY <2>8, <3>7
    <3>9. SumFunctionOnSet(l, (1..n + 1) \union {k}) = l[k] + SumFunctionOnSet(l, 1..n + 1)
      BY <3>7, <3>8, SumWith
    <3>10. Len(a) \in Nat /\ Len(b) \in Nat
      BY <3>3, <3>5
    <3>13. SumFunctionOnSet(l, 1..k) = Len(b) + Len(a)
      BY <3>3, <3>5, <3>7, <3>9
    <3>14. Len(f[k]) = SumFunctionOnSet(l, 1..k)
      BY <3>6, <3>10, <3>13
    <3> HIDE DEF T
    <3> QED
      BY <3>2, <3>6, <3>14
  <2>6. T = Nat
    <3> HIDE DEF T
    <3>1. T \subseteq Nat
      BY DEF T
    <3> QED
      BY <2>4, <2>5, <3>1, NatSet
  <2>7. Len(FlattenSeq(q)) = SumFunctionOnSet(l, 1..m)
    <3>0. m - 1 \in Nat /\ (m - 1) + 1 = m
      BY <2>1
    <3>1. PICK n : n \in Nat /\ n + 1 = m
      BY <3>0
    <3>2. n \in T
      BY <2>6, <3>1
    <3>3. Len(f[n + 1]) = SumFunctionOnSet(l, 1..n + 1)
      BY <2>1, <3>1, <3>2
    <3> QED
      BY <2>2, <3>1, <3>3
  <2> QED
    BY <2>1, <2>7
<1> QED
  BY <1>1, <1>2

-----------------------------------------------------------------------------
(* A test case object, and what each helper does to it. *)

Fields == {"root", "temp", "group_lst", "log_lst", "printed", "rows", "totalRow", "dangled"}

CaseOK(obj) ==
  /\ DOMAIN obj = Fields /\ obj = [f \in Fields |-> obj[f]]
  /\ obj.root \in Infos /\ obj.temp \in Infos
  /\ obj.group_lst \in Seq(Nat) /\ obj.log_lst \in Seq(Infos)
  /\ obj.printed \in Seq(Int) /\ obj.rows \in Seq(Nat) /\ obj.totalRow \in Seq(Nat)
  /\ obj.dangled \in BOOLEAN

\* The groups of a list are the same, with the same counts.
SameCounts(a, b) ==
  /\ DOMAIN a = DOMAIN b /\ Len(a) = Len(b)
  /\ \A i \in DOMAIN b : a[i].id = b[i].id /\ a[i].total = b[i].total /\ a[i].failed = b[i].failed

\* What helpers that only log or print leave as it is.
SameResults(a, b) ==
  /\ CaseOK(a) /\ a.root.failed = b.root.failed /\ a.group_lst = b.group_lst
  /\ a.dangled = b.dangled

\* The pointers of m_group_lst are good.
Alive(obj) == Range(obj.group_lst) \subseteq Owned(obj)

\* Logging and counting keep a group a group.
LEMMA InfoFacts ==
  /\ NoInfo \in Infos
  /\ \A info \in Infos, success \in BOOLEAN :
       LET c == Counted(info, success)
       IN /\ c \in Infos /\ c.id = info.id /\ c.total = info.total + 1
          /\ c.failed = IF success THEN info.failed ELSE info.failed + 1
  /\ \A info \in Infos, line \in Int :
       LET c == Logged(info, line)
       IN c \in Infos /\ c.id = info.id /\ c.total = info.total /\ c.failed = info.failed
  /\ \A info \in Infos, n \in Nat :
       LET c == [info EXCEPT !.memory = Append(@, n)]
       IN c \in Infos /\ c.id = info.id /\ c.total = info.total /\ c.failed = info.failed
  /\ \A info \in Infos : Cleared(info) \in Infos /\ Cleared(info).failed = 0
<1>1. NoInfo \in Infos
  BY DEF NoInfo, Infos
<1>2. ASSUME NEW info \in Infos, NEW success \in BOOLEAN
      PROVE  LET c == Counted(info, success)
             IN /\ c \in Infos /\ c.id = info.id /\ c.total = info.total + 1
                /\ c.failed = IF success THEN info.failed ELSE info.failed + 1
  <2>1. PICK c : c = Counted(info, success)
    OBVIOUS
  <2>2. /\ c = [id |-> info.id, total |-> info.total + 1,
                failed |-> IF success THEN info.failed ELSE info.failed + 1,
                measure |-> info.measure, logs |-> info.logs, memory |-> info.memory]
        /\ info.id \in Nat /\ info.total \in Nat /\ info.failed \in Nat /\ info.measure \in Nat
        /\ info.logs \in Seq(Int) /\ info.memory \in Seq(Nat)
    BY <2>1 DEF Counted, Infos
  <2> QED
    BY <2>1, <2>2 DEF Infos
<1>3. ASSUME NEW info \in Infos, NEW line \in Int
      PROVE  LET c == Logged(info, line)
             IN c \in Infos /\ c.id = info.id /\ c.total = info.total /\ c.failed = info.failed
  <2>1. PICK c, logs : c = Logged(info, line) /\ logs = Append(info.logs, line)
    OBVIOUS
  <2>2. /\ c = [id |-> info.id, total |-> info.total, failed |-> info.failed,
                measure |-> info.measure, logs |-> logs, memory |-> info.memory]
        /\ info.id \in Nat /\ info.total \in Nat /\ info.failed \in Nat /\ info.measure \in Nat
        /\ info.logs \in Seq(Int) /\ info.memory \in Seq(Nat)
    BY <2>1 DEF Logged, Infos
  <2>3. logs \in Seq(Int)
    BY <2>1, <2>2
  <2> QED
    BY <2>1, <2>2, <2>3 DEF Infos
<1>4. ASSUME NEW info \in Infos, NEW n \in Nat
      PROVE  LET c == [info EXCEPT !.memory = Append(@, n)]
             IN c \in Infos /\ c.id = info.id /\ c.total = info.total /\ c.failed = info.failed
  <2>1. PICK c, memory : c = [info EXCEPT !.memory = Append(@, n)] /\ memory = Append(info.memory, n)
    OBVIOUS
  <2>2. /\ c = [id |-> info.id, total |-> info.total, failed |-> info.failed,
                measure |-> info.measure, logs |-> info.logs, memory |-> memory]
        /\ info.id \in Nat /\ info.total \in Nat /\ info.failed \in Nat /\ info.measure \in Nat
        /\ info.logs \in Seq(Int) /\ info.memory \in Seq(Nat)
    BY <2>1 DEF Infos
  <2>3. memory \in Seq(Nat)
    BY <2>1, <2>2
  <2> QED
    BY <2>1, <2>2, <2>3 DEF Infos
<1>5. ASSUME NEW info \in Infos PROVE Cleared(info) \in Infos /\ Cleared(info).failed = 0
  <2>1. PICK c : c = Cleared(info)
    OBVIOUS
  <2>2. c = [id |-> 0, total |-> 0, failed |-> 0,
             measure |-> info.measure, logs |-> <<>>, memory |-> info.memory]
    BY <2>1 DEF Cleared, NoInfo
  <2>3. info.measure \in Nat /\ info.memory \in Seq(Nat)
    BY DEF Infos
  <2>4. <<>> \in Seq(Int)
    OBVIOUS
  <2> QED
    BY <2>1, <2>2, <2>3, <2>4 DEF Infos
<1> QED
  BY <1>1, <1>2, <1>3, <1>4, <1>5

\* A list made of another, element by element.
LEMMA ListMapped ==
  ASSUME NEW Q, NEW q \in Seq(Q), NEW S, NEW r, r = [i \in DOMAIN q |-> r[i]],
         \A i \in DOMAIN q : r[i] \in S
  PROVE  r \in Seq(S) /\ Len(r) = Len(q) /\ DOMAIN r = DOMAIN q
<1>1. PICK n : n \in Nat /\ n = Len(q) /\ DOMAIN q = 1..n
  OBVIOUS
<1>2. r \in [1..n -> S]
  BY <1>1
<1>3. \A f \in [1..n -> S] : f \in Seq(S) /\ Len(f) = n
  BY <1>1
<1> QED
  BY <1>1, <1>2, <1>3

\* add_result counts in m_root and in the groups that are open.
LEMMA ResultAdded ==
  ASSUME NEW obj, CaseOK(obj), NEW success \in BOOLEAN
  PROVE  LET new == AddResult(obj, success)
         IN /\ CaseOK(new) /\ new.group_lst = obj.group_lst
            /\ new.root.failed = IF success THEN obj.root.failed ELSE obj.root.failed + 1
            /\ new.dangled = (obj.dangled \/ ~Alive(obj))
            /\ DOMAIN new.log_lst = DOMAIN obj.log_lst /\ Len(new.log_lst) = Len(obj.log_lst)
            /\ \A i \in DOMAIN obj.log_lst :
                 new.log_lst[i] = IF obj.log_lst[i].id \in Range(obj.group_lst)
                                  THEN Counted(obj.log_lst[i], success) ELSE obj.log_lst[i]
<1>1. PICK new : new = AddResult(obj, success)
  OBVIOUS
<1>2. PICK q, g, l : q = obj.log_lst /\ g = obj.group_lst /\ l = new.log_lst
  OBVIOUS
<1>3. /\ q \in Seq(Infos) /\ \A i \in DOMAIN q : q[i] \in Infos
      /\ obj.root \in Infos /\ obj.temp \in Infos
  <2>1. q \in Seq(Infos) /\ obj.root \in Infos /\ obj.temp \in Infos
    BY <1>2 DEF CaseOK
  <2>2. \A i \in DOMAIN q : q[i] \in Infos
    BY <2>1
  <2> QED
    BY <2>1, <2>2
<1>4. /\ DOMAIN new = Fields /\ new = [f \in Fields |-> new[f]]
      /\ new.root = Counted(obj.root, success)
      /\ new.temp = (IF g # <<>> THEN obj.temp ELSE Counted(obj.temp, success))
      /\ new.group_lst = g /\ new.dangled = (obj.dangled \/ ~Alive(obj))
      /\ new.printed = obj.printed /\ new.rows = obj.rows /\ new.totalRow = obj.totalRow
      /\ l = IF g # <<>>
             THEN [i \in DOMAIN q |-> IF q[i].id \in Range(g) THEN Counted(q[i], success) ELSE q[i]]
             ELSE q
  BY <1>1, <1>2 DEF AddResult, CaseOK, Fields, CountedIn, Alive
<1>5. g = <<>> => Range(g) = {}
  BY DEF Range
<1>6. /\ DOMAIN l = DOMAIN q /\ l = [i \in DOMAIN q |-> l[i]]
      /\ \A i \in DOMAIN q : l[i] = IF q[i].id \in Range(g) THEN Counted(q[i], success) ELSE q[i]
  BY <1>3, <1>4, <1>5
<1>7. \A i \in DOMAIN q : l[i] \in Infos
  BY <1>3, <1>6, InfoFacts
<1>8. l \in Seq(Infos) /\ Len(l) = Len(q)
  BY <1>3, <1>6, <1>7, ListMapped
<1>9. /\ new.root \in Infos /\ new.temp \in Infos
      /\ new.root.failed = IF success THEN obj.root.failed ELSE obj.root.failed + 1
  BY <1>3, <1>4, InfoFacts
<1>10. CaseOK(new)
  BY <1>2, <1>4, <1>8, <1>9 DEF CaseOK
<1> QED
  BY <1>1, <1>2, <1>4, <1>6, <1>8, <1>9, <1>10

\* logconsole changes no count.
LEMMA LogAdded ==
  ASSUME NEW obj, CaseOK(obj), NEW line \in Int
  PROVE  LET new == AddLog(obj, line)
         IN SameResults(new, obj) /\ SameCounts(new.log_lst, obj.log_lst)
<1>1. PICK new : new = AddLog(obj, line)
  OBVIOUS
<1>2. /\ obj.temp \in Infos /\ obj.log_lst \in Seq(Infos)
      /\ DOMAIN obj = Fields /\ obj = [f \in Fields |-> obj[f]]
  BY DEF CaseOK
<1>3. CASE obj.log_lst = <<>>
  <2>1. new = [obj EXCEPT !.temp = Logged(@, line)]
    BY <1>1, <1>3 DEF AddLog
  <2>2. Logged(obj.temp, line) \in Infos
    BY <1>2, InfoFacts
  <2>3. CaseOK(new) /\ new.log_lst = obj.log_lst /\ SameResults(new, obj)
    BY <2>1, <2>2 DEF CaseOK, Fields, SameResults
  <2> QED
    BY <1>1, <2>3 DEF SameCounts
<1>4. CASE obj.log_lst # <<>>
  <2>1. PICK q, n, l : q = obj.log_lst /\ n = Len(q) /\ l = new.log_lst
    OBVIOUS
  <2>2. q \in Seq(Infos) /\ n \in DOMAIN q /\ \A i \in DOMAIN q : q[i] \in Infos
    BY <1>2, <1>4, <2>1
  <2>3. PICK c : c = Logged(q[n], line)
    OBVIOUS
  <2>4. /\ c \in Infos /\ c.id = q[n].id /\ c.total = q[n].total /\ c.failed = q[n].failed
    BY <2>2, <2>3, InfoFacts
  <2>5. new = [obj EXCEPT !.log_lst[n] = Logged(@, line)]
    BY <1>1, <1>4, <2>1 DEF AddLog
  <2>6. l = [q EXCEPT ![n] = c]
    BY <1>2, <2>1, <2>3, <2>5 DEF Fields
  <2>7. /\ DOMAIN new = Fields /\ new = [f \in Fields |-> new[f]]
        /\ new.root = obj.root /\ new.temp = obj.temp /\ new.group_lst = obj.group_lst
        /\ new.dangled = obj.dangled
        /\ new.printed = obj.printed /\ new.rows = obj.rows /\ new.totalRow = obj.totalRow
    BY <1>2, <2>5 DEF Fields
  <2>8. l = [i \in DOMAIN q |-> l[i]] /\ \A i \in DOMAIN q : l[i] = IF i = n THEN c ELSE q[i]
    BY <2>2, <2>6
  <2>9. l \in Seq(Infos) /\ Len(l) = Len(q) /\ DOMAIN l = DOMAIN q
    BY <2>2, <2>4, <2>8, ListMapped
  <2>10. CaseOK(new)
    BY <2>1, <2>7, <2>9 DEF CaseOK
  <2>11. SameCounts(l, q)
    BY <2>4, <2>8, <2>9 DEF SameCounts
  <2> QED
    BY <1>1, <2>1, <2>7, <2>10, <2>11 DEF SameResults
<1> QED
  BY <1>3, <1>4

\* Rows of the memory table are reports.
LEMMA RowFacts ==
  ASSUME NEW info \in Infos
  PROVE  Row(info) \in Seq(Nat)
BY DEF Row, Infos

\* m_temp is printed: no count of a group or of m_root changes.
LEMMA TempDumped ==
  ASSUME NEW obj, CaseOK(obj)
  PROVE  LET new == DumpTemp(obj)
         IN SameResults(new, obj) /\ new.log_lst = obj.log_lst /\ new.root = obj.root
<1>1. PICK new, temp : new = DumpTemp(obj) /\ temp = obj.temp
  OBVIOUS
<1>2. /\ DOMAIN obj = Fields /\ obj = [f \in Fields |-> obj[f]] /\ temp \in Infos
      /\ temp.logs \in Seq(Int) /\ Row(temp) \in Seq(Nat)
  BY <1>1, RowFacts DEF CaseOK, Infos
<1>3. CASE ~is_logging(temp)
  BY <1>1, <1>3 DEF DumpTemp, SameResults
<1>4. CASE is_logging(temp)
  <2>1. /\ DOMAIN new = Fields /\ new = [f \in Fields |-> new[f]]
        /\ new.root = obj.root /\ new.temp = Cleared(temp)
        /\ new.group_lst = obj.group_lst /\ new.log_lst = obj.log_lst
        /\ new.dangled = obj.dangled /\ new.totalRow = obj.totalRow
        /\ new.printed = obj.printed \o temp.logs /\ new.rows = obj.rows \o Row(temp)
    BY <1>1, <1>2, <1>4 DEF DumpTemp, Fields
  <2>2. new.printed \in Seq(Int) /\ new.rows \in Seq(Nat)
    BY <1>2, <2>1, ConcatFacts DEF CaseOK
  <2>3. Cleared(temp) \in Infos
    BY <1>2, InfoFacts
  <2>4. CaseOK(new)
    BY <2>1, <2>2, <2>3 DEF CaseOK
  <2> QED
    BY <1>1, <2>1, <2>4 DEF SameResults
<1> QED
  BY <1>3, <1>4

\* So it is at the end of a phase.
LEMMA EndDumped ==
  ASSUME NEW obj, CaseOK(obj)
  PROVE  LET new == DumpEnd(obj)
         IN SameResults(new, obj) /\ new.log_lst = obj.log_lst
<1>1. PICK new, temp, total1 : /\ new = DumpEnd(obj) /\ temp = DumpTemp(obj)
                               /\ total1 = obj.root.memory
  OBVIOUS
<1>2. SameResults(temp, obj) /\ temp.log_lst = obj.log_lst
  BY <1>1, TempDumped
<1>3. CASE Phase # "MEMORY"
  BY <1>1, <1>2, <1>3 DEF DumpEnd
<1>4. CASE Phase = "MEMORY"
  <2>1. DOMAIN temp = Fields /\ temp = [f \in Fields |-> temp[f]]
    BY <1>2 DEF SameResults, CaseOK
  <2>2. new = [temp EXCEPT !.totalRow = total1]
    BY <1>1, <1>4 DEF DumpEnd
  <2>3. total1 \in Seq(Nat)
    BY <1>1 DEF CaseOK, Infos
  <2>4. /\ DOMAIN new = Fields /\ new = [f \in Fields |-> new[f]] /\ new.totalRow = total1
        /\ \A f \in Fields \ {"totalRow"} : new[f] = temp[f]
    BY <2>1, <2>2 DEF Fields
  <2>5. /\ new.root = temp.root /\ new.temp = temp.temp /\ new.group_lst = temp.group_lst
        /\ new.log_lst = temp.log_lst /\ new.printed = temp.printed /\ new.rows = temp.rows
        /\ new.dangled = temp.dangled
    BY <2>4 DEF Fields
  <2>6. CaseOK(new)
    BY <1>2, <2>3, <2>4, <2>5 DEF CaseOK, SameResults
  <2> QED
    BY <1>1, <1>2, <2>5, <2>6 DEF SameResults
<1> QED
  BY <1>3, <1>4

\* dump_group_end frees the groups.
LEMMA GroupsDumped ==
  ASSUME NEW obj, CaseOK(obj)
  PROVE  LET new == DumpGroupEnd(obj)
         IN SameResults(new, obj) /\ new.log_lst = <<>>
<1>1. PICK new, temp, q : new = DumpGroupEnd(obj) /\ temp = DumpTemp(obj) /\ q = obj.log_lst
  OBVIOUS
<1>2. SameResults(temp, obj)
  BY <1>1, TempDumped
<1>3. PICK ll, rr : ll = [i \in DOMAIN q |-> q[i].logs] /\ rr = [i \in DOMAIN q |-> Row(q[i])]
  OBVIOUS
<1>4. q \in Seq(Infos)
  BY <1>1 DEF CaseOK
<1>5. ll \in Seq(Seq(Int)) /\ rr \in Seq(Seq(Nat))
  <2>1. \A i \in DOMAIN q : q[i] \in Infos
    BY <1>4
  <2>2. /\ \A i \in DOMAIN q : ll[i] = q[i].logs /\ rr[i] = Row(q[i])
        /\ ll = [i \in DOMAIN q |-> ll[i]] /\ rr = [i \in DOMAIN q |-> rr[i]]
    BY <1>3
  <2>3. \A i \in DOMAIN q : ll[i] \in Seq(Int) /\ rr[i] \in Seq(Nat)
    BY <2>1, <2>2, RowFacts DEF Infos
  <2>4. \A S : ll = [i \in DOMAIN q |-> ll[i]] /\ (\A i \in DOMAIN q : ll[i] \in S) => ll \in Seq(S)
    BY <1>4, ListMapped
  <2>5. \A S : rr = [i \in DOMAIN q |-> rr[i]] /\ (\A i \in DOMAIN q : rr[i] \in S) => rr \in Seq(S)
    BY <1>4, ListMapped
  <2> QED
    BY <2>2, <2>3, <2>4, <2>5
<1>6. FlattenSeq(ll) \in Seq(Int) /\ FlattenSeq(rr) \in Seq(Nat)
  BY <1>5, FlattenFacts
<1>7. new = [temp EXCEPT !.printed = @ \o FlattenSeq(ll), !.rows = @ \o FlattenSeq(rr),
                         !.log_lst = <<>>]
  BY <1>1, <1>3 DEF DumpGroupEnd, GroupLines
<1>8. DOMAIN temp = Fields /\ temp = [f \in Fields |-> temp[f]]
  BY <1>2 DEF SameResults, CaseOK
<1>9. /\ DOMAIN new = Fields /\ new = [f \in Fields |-> new[f]]
      /\ new.root = temp.root /\ new.temp = temp.temp /\ new.group_lst = temp.group_lst
      /\ new.log_lst = <<>> /\ new.totalRow = temp.totalRow /\ new.dangled = temp.dangled
      /\ new.printed = temp.printed \o FlattenSeq(ll) /\ new.rows = temp.rows \o FlattenSeq(rr)
  BY <1>7, <1>8 DEF Fields
<1>10. new.printed \in Seq(Int) /\ new.rows \in Seq(Nat) /\ <<>> \in Seq(Infos)
  <2>1. temp.printed \in Seq(Int) /\ temp.rows \in Seq(Nat)
    BY <1>2 DEF CaseOK, SameResults
  <2>2. temp.printed \o FlattenSeq(ll) \in Seq(Int) /\ temp.rows \o FlattenSeq(rr) \in Seq(Nat)
    BY <1>6, <2>1, ConcatFacts
  <2>3. \A S : <<>> \in Seq(S)
    OBVIOUS
  <2>4. new.printed \in Seq(Int) /\ new.rows \in Seq(Nat)
    BY <1>9, <2>2
  <2> QED
    BY <2>3, <2>4
<1>11. CaseOK(new)
  BY <1>2, <1>9, <1>10 DEF CaseOK, SameResults
<1> QED
  BY <1>1, <1>2, <1>9, <1>11 DEF SameResults

\* change_type takes the counts of the phase before away.
LEMMA TypeChanged ==
  ASSUME NEW obj, CaseOK(obj)
  PROVE  LET new == ChangeType(obj)
         IN /\ CaseOK(new) /\ new.group_lst = obj.group_lst /\ new.log_lst = obj.log_lst
            /\ new.dangled = obj.dangled /\ new.root.failed = 0
<1>1. PICK new, root, temp : /\ new = ChangeType(obj)
                             /\ root = Cleared(obj.root) /\ temp = Cleared(obj.temp)
  OBVIOUS
<1>2. root \in Infos /\ temp \in Infos /\ root.failed = 0
  BY <1>1, InfoFacts DEF CaseOK
<1>3. DOMAIN obj = Fields /\ obj = [f \in Fields |-> obj[f]]
  BY DEF CaseOK
<1>4. /\ DOMAIN new = Fields /\ new = [f \in Fields |-> new[f]]
      /\ new.root = root /\ new.temp = temp /\ new.group_lst = obj.group_lst
      /\ new.log_lst = obj.log_lst /\ new.dangled = obj.dangled
      /\ new.printed = obj.printed /\ new.rows = obj.rows /\ new.totalRow = obj.totalRow
  BY <1>1, <1>3 DEF ChangeType, Fields
<1>5. CaseOK(new)
  BY <1>2, <1>4 DEF CaseOK
<1> QED
  BY <1>1, <1>2, <1>4, <1>5

\* A failed hook is counted like a failed assertion.
LEMMA HookCounted ==
  ASSUME NEW obj, CaseOK(obj), NEW line \in Int
  PROVE  LET new == FixtureFailed(obj, line)
         IN /\ CaseOK(new) /\ new.group_lst = obj.group_lst
            /\ new.root.failed = obj.root.failed + 1
            /\ new.dangled = (obj.dangled \/ ~Alive(obj))
            /\ obj.log_lst = <<>> => new.log_lst = <<>>
<1>1. PICK new, c, temp : /\ new = FixtureFailed(obj, line) /\ c = AddResult(obj, FALSE)
                          /\ temp = Logged(c.temp, line)
  OBVIOUS
<1>2. /\ CaseOK(c) /\ c.group_lst = obj.group_lst
      /\ c.root.failed = obj.root.failed + 1
      /\ c.dangled = (obj.dangled \/ ~Alive(obj))
      /\ Len(c.log_lst) = Len(obj.log_lst)
  BY <1>1, ResultAdded
<1>3. obj.log_lst = <<>> => c.log_lst = <<>>
  <2>1. c.log_lst \in Seq(Infos)
    BY <1>2 DEF CaseOK
  <2> QED
    BY <1>2, <2>1
<1>4. temp \in Infos /\ DOMAIN c = Fields /\ c = [f \in Fields |-> c[f]]
  BY <1>1, <1>2, InfoFacts DEF CaseOK
<1>5. new = [c EXCEPT !.temp = temp]
  BY <1>1 DEF FixtureFailed
<1>6. /\ DOMAIN new = Fields /\ new = [f \in Fields |-> new[f]]
      /\ new.root = c.root /\ new.temp = temp /\ new.group_lst = c.group_lst
      /\ new.log_lst = c.log_lst /\ new.dangled = c.dangled
      /\ new.printed = c.printed /\ new.rows = c.rows /\ new.totalRow = c.totalRow
  BY <1>4, <1>5 DEF Fields
<1>7. CaseOK(new)
  BY <1>2, <1>4, <1>6 DEF CaseOK
<1> QED
  BY <1>1, <1>2, <1>3, <1>6, <1>7

\* A failed assertion under fail-stop.
LEMMA StopDumped ==
  ASSUME NEW obj, CaseOK(obj), NEW line \in Int
  PROVE  LET new == DumpGroupEnd(AddLog(AddResult(obj, FALSE), line))
         IN /\ CaseOK(new) /\ new.group_lst = obj.group_lst /\ new.log_lst = <<>>
            /\ new.root.failed = obj.root.failed + 1
            /\ new.dangled = (obj.dangled \/ ~Alive(obj))
<1>1. PICK c, l : c = AddResult(obj, FALSE) /\ l = AddLog(c, line)
  OBVIOUS
<1>2. /\ CaseOK(c) /\ c.group_lst = obj.group_lst
      /\ c.root.failed = obj.root.failed + 1
      /\ c.dangled = (obj.dangled \/ ~Alive(obj))
  BY <1>1, ResultAdded
<1>3. SameResults(l, c)
  BY <1>1, <1>2, LogAdded
<1>4. SameResults(DumpGroupEnd(l), l) /\ DumpGroupEnd(l).log_lst = <<>>
  BY <1>3, GroupsDumped DEF SameResults
<1> QED
  BY <1>1, <1>2, <1>3, <1>4 DEF SameResults

\* Last(group_lst) is one of the pointers, and good if they all are.
LEMMA InnermostGroup ==
  ASSUME NEW obj, CaseOK(obj), obj.group_lst # <<>>
  PROVE  Last(obj.group_lst) \in Range(obj.group_lst)
<1>1. PICK g, n : g = obj.group_lst /\ n = Len(g)
  OBVIOUS
<1>2. g \in Seq(Nat) /\ g # <<>>
  BY <1>1 DEF CaseOK
<1>3. n \in DOMAIN g
  BY <1>1, <1>2
<1> QED
  BY <1>1, <1>3 DEF Last, Range

\* A time measurement logs a line and changes no count.
LEMMA TimeAdded ==
  ASSUME NEW obj, CaseOK(obj), NEW line \in Int
  PROVE  LET new == AddTime(CountedTime(obj), line)
         IN /\ CaseOK(new) /\ new.root.failed = obj.root.failed
            /\ new.group_lst = obj.group_lst
            /\ SameCounts(new.log_lst, obj.log_lst)
            /\ Alive(obj) => new.dangled = obj.dangled
<1>1. PICK c, new : c = CountedTime(obj) /\ new = AddTime(c, line)
  OBVIOUS
<1>2. DOMAIN obj = Fields /\ obj = [f \in Fields |-> obj[f]] /\ obj.root \in Infos
  BY DEF CaseOK
<1>3. /\ CaseOK(c) /\ c.root.failed = obj.root.failed /\ c.group_lst = obj.group_lst
      /\ c.log_lst = obj.log_lst /\ c.dangled = obj.dangled /\ c.temp = obj.temp
  <2>1. CASE Phase # "MEASURE"
    BY <1>1, <2>1 DEF CountedTime
  <2>2. CASE Phase = "MEASURE"
    <3>1. PICK r : r = [obj.root EXCEPT !.measure = @ + 1]
      OBVIOUS
    <3>2. r = [id |-> obj.root.id, total |-> obj.root.total, failed |-> obj.root.failed,
               measure |-> obj.root.measure + 1, logs |-> obj.root.logs,
               memory |-> obj.root.memory]
      BY <1>2, <3>1 DEF Infos
    <3>3. r \in Infos /\ r.failed = obj.root.failed
      BY <1>2, <3>2 DEF Infos
    <3>4. c = [obj EXCEPT !.root = r]
      BY <1>1, <1>2, <2>2, <3>1 DEF CountedTime, Fields
    <3>5. /\ DOMAIN c = Fields /\ c = [f \in Fields |-> c[f]]
          /\ c.root = r /\ c.temp = obj.temp /\ c.group_lst = obj.group_lst
          /\ c.log_lst = obj.log_lst /\ c.dangled = obj.dangled
          /\ c.printed = obj.printed /\ c.rows = obj.rows /\ c.totalRow = obj.totalRow
      BY <1>2, <3>4 DEF Fields
    <3>6. CaseOK(c)
      BY <3>3, <3>5 DEF CaseOK
    <3> QED
      BY <3>3, <3>5, <3>6
  <2> QED
    BY <2>1, <2>2
<1>4. CASE obj.group_lst = <<>>
  <2>1. PICK temp : temp = Logged(c.temp, line)
    OBVIOUS
  <2>2. temp \in Infos /\ DOMAIN c = Fields /\ c = [f \in Fields |-> c[f]]
    BY <1>3, <2>1, InfoFacts DEF CaseOK
  <2>3. new = [c EXCEPT !.temp = temp]
    BY <1>1, <1>3, <1>4, <2>1 DEF AddTime
  <2>4. /\ DOMAIN new = Fields /\ new = [f \in Fields |-> new[f]]
        /\ new.root = c.root /\ new.temp = temp /\ new.group_lst = c.group_lst
        /\ new.log_lst = c.log_lst /\ new.dangled = c.dangled
        /\ new.printed = c.printed /\ new.rows = c.rows /\ new.totalRow = c.totalRow
    BY <2>2, <2>3 DEF Fields
  <2>5. CaseOK(new)
    BY <1>3, <2>2, <2>4 DEF CaseOK
  <2> QED
    BY <1>1, <1>3, <2>4, <2>5 DEF SameCounts
<1>5. CASE obj.group_lst # <<>>
  <2>1. PICK q, g, l : q = obj.log_lst /\ g = Last(obj.group_lst) /\ l = new.log_lst
    OBVIOUS
  <2>13. q \in Seq(Infos) /\ DOMAIN c = Fields /\ c = [f \in Fields |-> c[f]]
    BY <1>3, <2>1 DEF CaseOK
  <2>2. \A i \in DOMAIN q : q[i] \in Infos
    BY <2>13
  <2>3. new = [c EXCEPT !.log_lst = [i \in DOMAIN @ |-> IF @[i].id = g THEN Logged(@[i], line) ELSE @[i]],
                        !.dangled = @ \/ g \notin Owned(c)]
    BY <1>1, <1>3, <1>5, <2>1 DEF AddTime
  <2>4. /\ DOMAIN new = Fields /\ new = [f \in Fields |-> new[f]]
        /\ new.root = c.root /\ new.temp = c.temp /\ new.group_lst = c.group_lst
        /\ l = [i \in DOMAIN q |-> IF q[i].id = g THEN Logged(q[i], line) ELSE q[i]]
        /\ new.dangled = (c.dangled \/ g \notin Owned(c))
        /\ new.printed = c.printed /\ new.rows = c.rows /\ new.totalRow = c.totalRow
    BY <1>3, <2>1, <2>13, <2>3 DEF Fields
  <2>5. /\ l = [i \in DOMAIN q |-> l[i]] /\ DOMAIN l = DOMAIN q
        /\ \A i \in DOMAIN q : l[i] = IF q[i].id = g THEN Logged(q[i], line) ELSE q[i]
    BY <2>4
  <2>6. \A i \in DOMAIN q : /\ l[i] \in Infos /\ l[i].id = q[i].id
                            /\ l[i].total = q[i].total /\ l[i].failed = q[i].failed
    <3>1. ASSUME NEW i \in DOMAIN q
          PROVE  /\ l[i] \in Infos /\ l[i].id = q[i].id
                 /\ l[i].total = q[i].total /\ l[i].failed = q[i].failed
      <4>1. PICK k : k = Logged(q[i], line)
        OBVIOUS
      <4>2. k \in Infos /\ k.id = q[i].id /\ k.total = q[i].total /\ k.failed = q[i].failed
        BY <2>2, <4>1, InfoFacts
      <4> QED
        BY <2>2, <2>5, <4>1, <4>2
    <3> QED
      BY <3>1
  <2>7. l \in Seq(Infos) /\ Len(l) = Len(q)
    BY <2>13, <2>5, <2>6, ListMapped
  <2>8. CaseOK(new)
    BY <1>3, <2>1, <2>4, <2>7 DEF CaseOK
  <2>9. Alive(obj) => g \in Owned(c)
    BY <1>3, <1>5, <2>1, InnermostGroup DEF Alive, Owned
  <2>10. c.dangled \in BOOLEAN
    BY <1>3 DEF CaseOK
  <2>11. Alive(obj) => new.dangled = c.dangled
    BY <2>4, <2>9, <2>10
  <2>12. SameCounts(l, q)
    BY <2>5, <2>6, <2>7 DEF SameCounts
  <2> QED
    BY <1>1, <1>3, <2>1, <2>4, <2>8, <2>11, <2>12
<1> QED
  BY <1>4, <1>5

\* A memory report changes no count either.
LEMMA MemoryAdded ==
  ASSUME NEW obj, CaseOK(obj), obj.group_lst # <<>>, NEW n \in Nat
  PROVE  LET new == AddMemory(obj, n)
         IN /\ CaseOK(new) /\ new.root.failed = obj.root.failed
            /\ new.group_lst = obj.group_lst
            /\ SameCounts(new.log_lst, obj.log_lst)
            /\ Alive(obj) => new.dangled = obj.dangled
<1> DEFINE merged(info) == [info EXCEPT !.memory = Append(@, n)]
<1>1. PICK new, q, g, l, root : /\ new = AddMemory(obj, n) /\ q = obj.log_lst
                                /\ g = Last(obj.group_lst) /\ l = new.log_lst
                                /\ root = merged(obj.root)
  OBVIOUS
<1>2. /\ DOMAIN obj = Fields /\ obj = [f \in Fields |-> obj[f]] /\ obj.root \in Infos
      /\ q \in Seq(Infos) /\ \A i \in DOMAIN q : q[i] \in Infos
  BY <1>1 DEF CaseOK
<1>3. \A info \in Infos : LET c == merged(info)
                          IN c \in Infos /\ c.id = info.id /\ c.total = info.total /\ c.failed = info.failed
  BY InfoFacts
<1> HIDE DEF merged
<1>4. TalliedIn(obj) = {g}
  BY <1>1 DEF TalliedIn
<1>5. new = [obj EXCEPT !.root = merged(@),
                        !.log_lst = [i \in DOMAIN @ |-> IF @[i].id = g THEN merged(@[i]) ELSE @[i]],
                        !.dangled = @ \/ g \notin Owned(obj)]
  <2>1. new = [obj EXCEPT !.root = merged(@), !.temp = @,
                          !.log_lst = [i \in DOMAIN @ |-> IF @[i].id \in {g} THEN merged(@[i]) ELSE @[i]],
                          !.dangled = @ \/ ~({g} \subseteq Owned(obj))]
    BY <1>1, <1>4 DEF AddMemory, merged
  <2> QED
    BY <1>2, <2>1 DEF Fields
<1>6. /\ DOMAIN new = Fields /\ new = [f \in Fields |-> new[f]]
      /\ new.root = root /\ new.temp = obj.temp /\ new.group_lst = obj.group_lst
      /\ l = [i \in DOMAIN q |-> IF q[i].id = g THEN merged(q[i]) ELSE q[i]]
      /\ new.dangled = (obj.dangled \/ g \notin Owned(obj))
      /\ new.printed = obj.printed /\ new.rows = obj.rows /\ new.totalRow = obj.totalRow
  <2>1. PICK l0, d0 : /\ l0 = [i \in DOMAIN q |-> IF q[i].id = g THEN merged(q[i]) ELSE q[i]]
                      /\ d0 = (obj.dangled \/ g \notin Owned(obj))
    OBVIOUS
  <2>2. new = [obj EXCEPT !.root = root, !.log_lst = l0, !.dangled = d0]
    BY <1>1, <1>2, <1>5, <2>1 DEF Fields
  <2> QED
    BY <1>1, <1>2, <2>1, <2>2 DEF Fields
<1>7. /\ l = [i \in DOMAIN q |-> l[i]] /\ DOMAIN l = DOMAIN q
      /\ \A i \in DOMAIN q : l[i] = IF q[i].id = g THEN merged(q[i]) ELSE q[i]
  BY <1>6
<1>8. \A i \in DOMAIN q : /\ l[i] \in Infos /\ l[i].id = q[i].id
                          /\ l[i].total = q[i].total /\ l[i].failed = q[i].failed
  BY <1>2, <1>3, <1>7
<1>9. l \in Seq(Infos) /\ Len(l) = Len(q)
  BY <1>2, <1>7, <1>8, ListMapped
<1>10. root \in Infos /\ root.failed = obj.root.failed
  BY <1>1, <1>2, <1>3
<1>11. CaseOK(new)
  BY <1>1, <1>6, <1>9, <1>10 DEF CaseOK
<1>12. Alive(obj) => g \in Owned(obj)
  BY <1>1, InnermostGroup DEF Alive
<1>13. obj.dangled \in BOOLEAN
  BY DEF CaseOK
<1>14. Alive(obj) => new.dangled = obj.dangled
  BY <1>6, <1>12, <1>13
<1>15. SameCounts(l, q)
  BY <1>7, <1>8, <1>9 DEF SameCounts
<1> QED
  BY <1>1, <1>6, <1>10, <1>11, <1>14, <1>15

\* What comes after a hook or a body at the end of a phase, groups gone.
LEMMA PhaseEnded ==
  ASSUME NEW obj, CaseOK(obj), obj.log_lst = <<>>, NEW value \in BOOLEAN, NEW line \in Int,
         NEW left, value => left = obj, ~value => left = FixtureFailed(obj, line)
  PROVE  /\ CaseOK(DumpEnd(left)) /\ CaseOK(ChangeType(DumpEnd(left)))
         /\ ChangeType(DumpEnd(left)).root.failed = 0
         /\ \A new \in {DumpEnd(left), ChangeType(DumpEnd(left))} :
              /\ new.group_lst = obj.group_lst /\ new.log_lst = <<>>
              /\ new.dangled = (obj.dangled \/ (~value /\ ~Alive(obj)))
<1>1. /\ CaseOK(left) /\ left.group_lst = obj.group_lst /\ left.log_lst = <<>>
      /\ left.dangled = (obj.dangled \/ (~value /\ ~Alive(obj)))
  <2>1. CASE value
    <3>1. obj.dangled \in BOOLEAN
      BY DEF CaseOK
    <3> QED
      BY <2>1, <3>1
  <2>2. CASE ~value
    BY <2>2, HookCounted
  <2> QED
    BY <2>1, <2>2
<1>2. PICK new : new = DumpEnd(left)
  OBVIOUS
<1>3. CaseOK(new) /\ new.group_lst = left.group_lst /\ new.log_lst = left.log_lst /\ new.dangled = left.dangled
  BY <1>1, <1>2, EndDumped DEF SameResults
<1>4. PICK type : type = ChangeType(new)
  OBVIOUS
<1>5. /\ CaseOK(type) /\ type.group_lst = new.group_lst /\ type.log_lst = new.log_lst
      /\ type.dangled = new.dangled /\ type.root.failed = 0
  BY <1>3, <1>4, TypeChanged
<1> QED
  BY <1>1, <1>2, <1>3, <1>4, <1>5

\* A test case as it is constructed.
LEMMA NewCaseFacts ==
  ASSUME NEW lines \in Seq(Int)
  PROVE  LET new == [NewCase EXCEPT !.printed = lines]
         IN /\ CaseOK(new) /\ new.root.failed = 0 /\ new.group_lst = <<>> /\ new.log_lst = <<>>
            /\ ~new.dangled
<1>1. PICK new : new = [NewCase EXCEPT !.printed = lines]
  OBVIOUS
<1>2. new = [root |-> NoInfo, temp |-> NoInfo, group_lst |-> <<>>, log_lst |-> <<>>,
             printed |-> lines, rows |-> <<>>, totalRow |-> <<>>, dangled |-> FALSE]
  BY <1>1 DEF NewCase
<1>3. /\ DOMAIN new = Fields /\ new = [f \in Fields |-> new[f]]
      /\ new.root = NoInfo /\ new.temp = NoInfo /\ new.group_lst = <<>> /\ new.log_lst = <<>>
      /\ new.printed = lines /\ new.rows = <<>> /\ new.totalRow = <<>> /\ new.dangled = FALSE
  BY <1>2 DEF Fields
<1>4. \A S : <<>> \in Seq(S)
  OBVIOUS
<1>5. NoInfo \in Infos /\ NoInfo.failed = 0
  BY InfoFacts DEF NoInfo
<1>6. CaseOK(new)
  BY <1>3, <1>4, <1>5 DEF CaseOK
<1> QED
  BY <1>1, <1>3, <1>5, <1>6

\* There are four phases.
LEMMA DueFacts ==
  ASSUME NEW c
  PROVE  /\ Due(c) \in Seq(Range(PhaseOrder)) /\ Len(Due(c)) \in 0..4
         /\ Due(c) # <<>> => Len(Due(c)) >= 1
<1> DEFINE taken(p) == IF p \in asked /\ (p \in {"STRESS", "MEMORY"} => p \in Offers[c])
                       THEN <<p>> ELSE <<>>
           P == Range(PhaseOrder)
<1>1. P = {"BASIC", "MEASURE", "STRESS", "MEMORY"}
  <2>1. DOMAIN PhaseOrder = 1..4 /\ PhaseOrder[1] = "BASIC" /\ PhaseOrder[2] = "MEASURE"
        /\ PhaseOrder[3] = "STRESS" /\ PhaseOrder[4] = "MEMORY"
    BY DEF PhaseOrder
  <2> QED
    BY <2>1 DEF Range
<1>2. \A p \in P : taken(p) \in Seq(P) /\ Len(taken(p)) \in 0..1
  <2>1. \A p \in P : <<p>> \in Seq(P) /\ Len(<<p>>) = 1
    OBVIOUS
  <2>2. <<>> \in Seq(P) /\ Len(<<>>) = 0
    OBVIOUS
  <2> HIDE DEF P
  <2> QED
    BY <2>1, <2>2
<1>3. PICK a, b, d, e : /\ a = taken("BASIC") /\ b = taken("MEASURE")
                        /\ d = taken("STRESS") /\ e = taken("MEMORY")
  OBVIOUS
<1>4. Due(c) = a \o b \o d \o e
  BY <1>3 DEF Due
<1>5. /\ a \in Seq(P) /\ b \in Seq(P) /\ d \in Seq(P) /\ e \in Seq(P)
      /\ Len(a) \in 0..1 /\ Len(b) \in 0..1 /\ Len(d) \in 0..1 /\ Len(e) \in 0..1
  <2> HIDE DEF taken, P
  <2> QED
    BY <1>1, <1>2, <1>3
<1> HIDE DEF taken, P
<1>6. a \o b \in Seq(P) /\ Len(a \o b) = Len(a) + Len(b)
  <2>1. a \in Seq(P) /\ b \in Seq(P)
    BY <1>5
  <2> QED
    BY <2>1
<1>7. a \o b \o d \in Seq(P) /\ Len(a \o b \o d) = Len(a) + Len(b) + Len(d)
  <2>1. PICK x : x = a \o b
    OBVIOUS
  <2>2. x \in Seq(P) /\ d \in Seq(P) /\ Len(x) = Len(a) + Len(b)
    BY <1>5, <1>6, <2>1
  <2>3. x \o d \in Seq(P) /\ Len(x \o d) = Len(x) + Len(d)
    BY <2>2
  <2> QED
    BY <2>1, <2>2, <2>3
<1>8. a \o b \o d \o e \in Seq(P) /\ Len(a \o b \o d \o e) = Len(a) + Len(b) + Len(d) + Len(e)
  <2>1. PICK x : x = a \o b \o d
    OBVIOUS
  <2>2. x \in Seq(P) /\ e \in Seq(P) /\ Len(x) = Len(a) + Len(b) + Len(d)
    BY <1>5, <1>7, <2>1
  <2>3. x \o e \in Seq(P) /\ Len(x \o e) = Len(x) + Len(e)
    BY <2>2
  <2> QED
    BY <2>1, <2>2, <2>3
<1>9. \A q \in Seq(P) : q # <<>> => Len(q) >= 1
  OBVIOUS
<1>10. P = Range(PhaseOrder)
  BY DEF P
<1>11. PICK q : q = a \o b \o d \o e
  OBVIOUS
<1>12. q \in Seq(P) /\ Len(q) \in 0..4 /\ Due(c) = q
  <2>1. q \in Seq(P) /\ Len(q) = Len(a) + Len(b) + Len(d) + Len(e)
    BY <1>8, <1>11
  <2>2. PICK i, j, k, m : i = Len(a) /\ j = Len(b) /\ k = Len(d) /\ m = Len(e)
    OBVIOUS
  <2>3. i \in 0..1 /\ j \in 0..1 /\ k \in 0..1 /\ m \in 0..1
    BY <1>5, <2>2
  <2>4. Len(q) = i + j + k + m
    BY <2>1, <2>2
  <2> QED
    BY <1>4, <1>11, <2>1, <2>3, <2>4
<1>13. q # <<>> => Len(q) >= 1
  BY <1>9, <1>12
<1> QED
  BY <1>10, <1>12, <1>13

-----------------------------------------------------------------------------
(* The invariant of the runner. *)

InCase == pc \in {"setUp", "body", "tearDown"}

RunTypes ==
  /\ stop \in BOOLEAN /\ selected \subseteq 1..Cases /\ asked \subseteq Range(PhaseOrder)
  /\ pc \in {"main", "next", "setUp", "body", "tearDown", "done"}
  /\ case \in 0..Cases /\ phase \in 0..Len(PhaseOrder)
  /\ CaseOK(o)
  /\ ret \in {0, 1} /\ stopped \in BOOLEAN
  /\ truth \in Seq(Infos)
  /\ checks \in 0..MaxChecks /\ failures \in Nat
  /\ times \in 0..MaxTimes /\ tallied \in 0..MaxTallies
  /\ InCase => case > 0

\* Where there are groups, and whether the pointers to them are good.
GroupsPlaced ==
  /\ pc # "body" \/ o.group_lst = <<>> => o.log_lst = <<>>
  /\ pc = "body" => Alive(o)
  /\ stopped => pc = "tearDown"
  /\ pc \in {"main", "setUp", "tearDown"} /\ ~stopped => o.group_lst = <<>>
  /\ "stopped" \notin TearDownChecks \union TearDownFails => ~o.dangled

\* The counts of the groups, and of those that have ended.
GroupsCount ==
  /\ \A i, j \in DOMAIN o.group_lst : /\ o.group_lst[i] \in DOMAIN truth
                                      /\ o.group_lst[i] = o.group_lst[j] => i = j
  /\ \A i \in DOMAIN o.log_lst :
       LET info == o.log_lst[i]
       IN /\ info.id \in DOMAIN truth
          /\ info.total = truth[info.id].total /\ info.failed = truth[info.id].failed
  /\ results \in Seq(Range(results)) /\ ended \in Seq(Nat) /\ Len(results) = Len(ended)
  /\ \A i \in DOMAIN ended :
       LET info == results[i]
       IN /\ ended[i] \in DOMAIN truth /\ ended[i] \notin Range(o.group_lst)
          /\ info.id = ended[i]
          /\ info.total = truth[info.id].total /\ info.failed = truth[info.id].failed

\* Cases that testAll has done with.
Past == IF InCase THEN case - 1 ELSE case

\* A tearDown that is not under fail-stop makes no assertions, or there is none.
Judged == stop \/ "noStop" \notin TearDownChecks

\* Where the failures so far are to be seen.
FailuresSeen ==
  /\ pc \in {"main", "next", "done"} => (failures > 0 <=> fail > 0)
  /\ pc \in {"setUp", "body"} => (failures > 0 <=> fail > 0 \/ ret = 0 \/ o.root.failed > 0)
  /\ pc = "tearDown" => (failures > 0 <=> fail > 0 \/ ret = 0)

Tallied ==
  /\ total \in Nat /\ fail \in Nat /\ scnt \in Nat /\ n_run \in Nat
  /\ total = fail + scnt + n_run /\ total <= Past
  /\ n_run > 0 => fail > 0
  /\ total = 0 <=> selected \intersect (1..Past) = {}
  /\ InCase => case \in selected
  /\ stopped => stop /\ ret = 0
  /\ pc = "main" => case = 0 /\ failures = 0
  /\ pc = "done" => case = Cases
  /\ Judged => FailuresSeen

RunInv == RunTypes /\ GroupsPlaced /\ GroupsCount /\ Tallied

-----------------------------------------------------------------------------
(* Steps of the runner keep it. *)

\* Nothing is asserted and no group starts or ends.
LEMMA CountsKept ==
  ASSUME RunTypes, GroupsCount, UNCHANGED <<truth, results, ended>>,
         CaseOK(o'), o'.group_lst = o.group_lst,
         SameCounts(o'.log_lst, o.log_lst) \/ o'.log_lst = <<>>
  PROVE  GroupsCount'
<1>1. PICK l, q, g : l = o'.log_lst /\ q = o.log_lst /\ g = o.group_lst
  OBVIOUS
<1>2. \A i, j \in DOMAIN g : g[i] \in DOMAIN truth /\ (g[i] = g[j] => i = j)
  BY <1>1 DEF GroupsCount
<1>3. \A i \in DOMAIN q : /\ q[i].id \in DOMAIN truth
                          /\ q[i].total = truth[q[i].id].total
                          /\ q[i].failed = truth[q[i].id].failed
  BY <1>1 DEF GroupsCount
<1>4. \A i \in DOMAIN l : /\ l[i].id \in DOMAIN truth
                          /\ l[i].total = truth[l[i].id].total
                          /\ l[i].failed = truth[l[i].id].failed
  <2>1. CASE l = <<>>
    BY <2>1
  <2>2. CASE SameCounts(l, q)
    <3>1. ASSUME NEW i \in DOMAIN l
          PROVE  /\ l[i].id \in DOMAIN truth
                 /\ l[i].total = truth[l[i].id].total
                 /\ l[i].failed = truth[l[i].id].failed
      <4>1. i \in DOMAIN q /\ l[i].id = q[i].id /\ l[i].total = q[i].total /\ l[i].failed = q[i].failed
        BY <2>2 DEF SameCounts
      <4> QED
        BY <1>3, <4>1
    <3> QED
      BY <3>1
  <2> QED
    BY <1>1, <2>1, <2>2
<1> QED
  BY <1>1, <1>2, <1>4 DEF GroupsCount

\* An assertion is counted in the groups that are open, and in truth.
LEMMA CountsCounted ==
  ASSUME RunTypes, GroupsCount, NEW success \in BOOLEAN, InTruth(success),
         UNCHANGED <<results, ended>>, CaseOK(o'), o'.group_lst = o.group_lst,
         SameCounts(o'.log_lst, AddResult(o, success).log_lst) \/ o'.log_lst = <<>>
  PROVE  truth' \in Seq(Infos) /\ GroupsCount'
<1>1. PICK l, q, g, c : /\ l = o'.log_lst /\ q = o.log_lst /\ g = o.group_lst
                        /\ c = AddResult(o, success).log_lst
  OBVIOUS
<1>2. \A i, j \in DOMAIN g : g[i] \in DOMAIN truth /\ (g[i] = g[j] => i = j)
  BY <1>1 DEF GroupsCount
<1>3. \A i \in DOMAIN q : /\ q[i].id \in DOMAIN truth
                          /\ q[i].total = truth[q[i].id].total
                          /\ q[i].failed = truth[q[i].id].failed
  BY <1>1 DEF GroupsCount
<1>4. /\ DOMAIN c = DOMAIN q
      /\ \A i \in DOMAIN q : c[i] = IF q[i].id \in Range(g) THEN Counted(q[i], success) ELSE q[i]
  <2>1. CaseOK(o)
    BY DEF RunTypes
  <2> QED
    BY <1>1, <2>1, ResultAdded
<1>5. /\ truth' = [k \in DOMAIN truth |-> truth'[k]] /\ DOMAIN truth' = DOMAIN truth
      /\ \A k \in DOMAIN truth : truth'[k] = IF k \in Range(g) THEN Counted(truth[k], success) ELSE truth[k]
  BY <1>1 DEF InTruth
<1>6. truth \in Seq(Infos) /\ q \in Seq(Infos)
  BY <1>1 DEF RunTypes, CaseOK
<1>7. \A info \in Infos : LET d == Counted(info, success)
                          IN /\ d \in Infos /\ d.id = info.id /\ d.total = info.total + 1
                             /\ d.failed = IF success THEN info.failed ELSE info.failed + 1
  BY InfoFacts
<1>8. \A i \in DOMAIN q : q[i] \in Infos
  BY <1>6
<1>9. \A k \in DOMAIN truth : truth[k] \in Infos
  BY <1>6
<1>10. truth' \in Seq(Infos)
  <2>1. \A k \in DOMAIN truth : truth'[k] \in Infos
    BY <1>5, <1>7, <1>9
  <2> QED
    BY <1>5, <1>6, <2>1, ListMapped
<1>11. \A i \in DOMAIN c : /\ c[i].id \in DOMAIN truth'
                           /\ c[i].total = truth'[c[i].id].total
                           /\ c[i].failed = truth'[c[i].id].failed
  <2>1. ASSUME NEW i \in DOMAIN c
        PROVE  /\ c[i].id \in DOMAIN truth'
               /\ c[i].total = truth'[c[i].id].total
               /\ c[i].failed = truth'[c[i].id].failed
    <3>1. PICK k : k = q[i].id
      OBVIOUS
    <3>2. /\ i \in DOMAIN q /\ k \in DOMAIN truth /\ q[i] \in Infos /\ truth[k] \in Infos
          /\ q[i].total = truth[k].total /\ q[i].failed = truth[k].failed
      BY <1>3, <1>4, <1>8, <1>9, <3>1
    <3>3. CASE k \in Range(g)
      <4>1. c[i] = Counted(q[i], success) /\ truth'[k] = Counted(truth[k], success)
        BY <1>4, <1>5, <3>1, <3>2, <3>3
      <4>2. /\ c[i].id = k /\ c[i].total = q[i].total + 1
            /\ c[i].failed = IF success THEN q[i].failed ELSE q[i].failed + 1
        BY <1>7, <3>1, <3>2, <4>1
      <4>3. /\ truth'[k].total = truth[k].total + 1
            /\ truth'[k].failed = IF success THEN truth[k].failed ELSE truth[k].failed + 1
        BY <1>7, <3>2, <4>1
      <4> QED
        BY <1>5, <3>2, <4>2, <4>3
    <3>4. CASE k \notin Range(g)
      BY <1>4, <1>5, <3>1, <3>2, <3>4
    <3> QED
      BY <3>3, <3>4
  <2> QED
    BY <2>1
<1>12. \A i \in DOMAIN l : /\ l[i].id \in DOMAIN truth'
                           /\ l[i].total = truth'[l[i].id].total
                           /\ l[i].failed = truth'[l[i].id].failed
  <2>1. CASE l = <<>>
    BY <2>1
  <2>2. CASE SameCounts(l, c)
    <3>1. ASSUME NEW i \in DOMAIN l
          PROVE  /\ l[i].id \in DOMAIN truth'
                 /\ l[i].total = truth'[l[i].id].total
                 /\ l[i].failed = truth'[l[i].id].failed
      <4>1. i \in DOMAIN c /\ l[i].id = c[i].id /\ l[i].total = c[i].total /\ l[i].failed = c[i].failed
        BY <2>2 DEF SameCounts
      <4> QED
        BY <1>11, <4>1
    <3> QED
      BY <3>1
  <2> QED
    BY <1>1, <2>1, <2>2
<1>13. \A i \in DOMAIN ended : /\ ended[i] \in DOMAIN truth /\ ended[i] \notin Range(g)
                               /\ truth'[ended[i]] = truth[ended[i]]
  <2>1. \A i \in DOMAIN ended : ended[i] \in DOMAIN truth /\ ended[i] \notin Range(g)
    BY <1>1 DEF GroupsCount
  <2> QED
    BY <1>5, <2>1
<1>14. /\ results' = results /\ ended' = ended /\ o'.group_lst = g
       /\ results \in Seq(Range(results)) /\ ended \in Seq(Nat) /\ Len(results) = Len(ended)
       /\ \A i \in DOMAIN ended :
            /\ results[i].id = ended[i]
            /\ results[i].total = truth[results[i].id].total
            /\ results[i].failed = truth[results[i].id].failed
  BY <1>1 DEF GroupsCount
<1>15. \A i \in DOMAIN ended : /\ ended[i] \in DOMAIN truth' /\ ended[i] \notin Range(g)
                               /\ results[i].id = ended[i]
                               /\ results[i].total = truth'[results[i].id].total
                               /\ results[i].failed = truth'[results[i].id].failed
  BY <1>5, <1>13, <1>14
<1> QED
  BY <1>1, <1>2, <1>5, <1>10, <1>12, <1>14, <1>15 DEF GroupsCount

\* One more case is past.
LEMMA OneMore ==
  ASSUME NEW S, NEW n \in Nat
  PROVE  S \intersect (1..n + 1) = {} <=> S \intersect (1..n) = {} /\ n + 1 \notin S
<1>1. 1..n + 1 = (1..n) \union {n + 1}
  OBVIOUS
<1> QED
  BY <1>1

LEMMA RunInvInit ==
  ASSUME Init
  PROVE  RunInv
<1> USE DEF Init
<1>1. o = [NewCase EXCEPT !.printed = <<>>] /\ <<>> \in Seq(Int)
  <2>1. /\ DOMAIN NewCase = Fields /\ NewCase = [f \in Fields |-> NewCase[f]]
        /\ NewCase.printed = <<>>
    BY DEF NewCase, Fields
  <2>2. NewCase = [NewCase EXCEPT !.printed = <<>>]
    BY <2>1 DEF Fields
  <2> QED
    BY <2>2
<1>2. CaseOK(o) /\ o.root.failed = 0 /\ o.group_lst = <<>> /\ o.log_lst = <<>> /\ ~o.dangled
  BY <1>1, NewCaseFacts
<1>3. \A S : <<>> \in Seq(S)
  OBVIOUS
<1>4. RunTypes
  <2>1. Len(PhaseOrder) = 4
    BY DEF PhaseOrder
  <2>2. Cases \in Nat /\ MaxChecks \in Nat /\ MaxTimes \in Nat /\ MaxTallies \in Nat
    BY RunnerAssumption
  <2>3. /\ stop \in BOOLEAN /\ selected \subseteq 1..Cases /\ asked \subseteq Range(PhaseOrder)
        /\ ret \in {0, 1} /\ stopped \in BOOLEAN /\ truth \in Seq(Infos)
    BY <1>3
  <2> QED
    BY <1>2, <2>1, <2>2, <2>3 DEF RunTypes, InCase
<1>5. GroupsPlaced
  BY <1>2 DEF GroupsPlaced
<1>6. GroupsCount
  BY <1>2, <1>3 DEF GroupsCount
<1>7. Tallied
  BY DEF Tallied, Past, InCase, FailuresSeen
<1> QED
  BY <1>4, <1>5, <1>6, <1>7 DEF RunInv

\* testAll starts, with what the command line selects.
LEMMA CallKeeps ==
  ASSUME RunInv, NEW b \in BOOLEAN, NEW m \in SUBSET (1..Cases),
         NEW ph \in SUBSET Range(PhaseOrder), testAll(b, m, ph)
  PROVE  RunInv'
<1> USE DEF testAll
<1>0. o' = o /\ UNCHANGED <<case, phase, o, ret, stopped, tallyVars, results, history>>
  OBVIOUS
<1>1. RunTypes'
  BY DEF RunInv, RunTypes, InCase, history, noted, measured
<1>2. GroupsPlaced'
  <2>1. GroupsPlaced
    BY DEF RunInv
  <2> QED
    BY <2>1 DEF GroupsPlaced
<1>3. GroupsCount'
  BY <1>0 DEF RunInv, GroupsCount, history, noted
<1>4. Tallied'
  <2>1. /\ case = 0 /\ failures = 0 /\ total = 0 /\ fail = 0 /\ scnt = 0 /\ n_run = 0
        /\ stopped = FALSE
    BY DEF RunInv, Tallied, GroupsPlaced, RunTypes, Past, InCase
  <2>2. 1..0 = {}
    OBVIOUS
  <2> QED
    BY <1>0, <2>1, <2>2 DEF Tallied, Past, InCase, FailuresSeen, tallyVars, history, noted
<1> QED
  BY <1>1, <1>2, <1>3, <1>4 DEF RunInv

\* Between two cases, or at the end.
LEMMA BetweenKeeps ==
  ASSUME RunInv, CountNotRun \/ PassOver \/ RunNothing \/ Finish
  PROVE  RunInv'
<1> USE DEF CountNotRun, PassOver, RunNothing, Finish, chosen, tallyVars, noted, measured, history
<1>0. /\ RunTypes /\ GroupsPlaced /\ GroupsCount /\ Tallied /\ Cases \in Nat
      /\ pc = "next" /\ pc' \in {"next", "done"} /\ ~stopped
      /\ case \in Nat
  BY RunnerAssumption DEF RunInv, RunTypes, GroupsPlaced
<1>1. /\ UNCHANGED <<chosen, phase, o, stopped, results, noted>> /\ ret' \in {ret, 1}
      /\ case' \in {case, case + 1}
  OBVIOUS
<1>2. RunTypes'
  BY <1>0, <1>1 DEF RunTypes, InCase
<1>3. GroupsPlaced'
  BY <1>0, <1>1 DEF GroupsPlaced
<1>4. GroupsCount'
  BY <1>0, <1>1 DEF GroupsCount
<1>5. /\ total \in Nat /\ fail \in Nat /\ scnt \in Nat /\ n_run \in Nat
      /\ total = fail + scnt + n_run /\ total <= case
      /\ n_run > 0 => fail > 0
      /\ total = 0 <=> selected \intersect (1..case) = {}
      /\ Judged => (failures > 0 <=> fail > 0)
  BY <1>0 DEF Tallied, Past, InCase, FailuresSeen
<1>6. case' = case + 1 => (selected \intersect (1..case') = {} <=>
                             selected \intersect (1..case) = {} /\ case + 1 \notin selected)
  BY <1>0, OneMore
<1>7. /\ total' \in Nat /\ fail' \in Nat /\ scnt' \in Nat /\ n_run' \in Nat
      /\ total' = fail' + scnt' + n_run' /\ total' <= case'
      /\ n_run' > 0 => fail' > 0
      /\ total' = 0 <=> selected \intersect (1..case') = {}
      /\ fail' = fail
  <2>1. CASE CountNotRun
    BY <1>0, <1>5, <1>6, <2>1 DEF FailStopped
  <2>2. CASE PassOver
    BY <1>0, <1>5, <1>6, <2>2
  <2>3. CASE RunNothing
    BY <1>0, <1>5, <1>6, <2>3
  <2>4. CASE Finish
    BY <1>0, <1>5, <2>4
  <2> QED
    BY <2>1, <2>2, <2>3, <2>4
<1>8. Past' = case' /\ ~InCase'
  BY <1>0 DEF Past, InCase
<1>9. pc' = "done" => case' = Cases
  BY <1>0
<1>10. Judged' <=> Judged
  BY <1>1 DEF Judged
<1>11. Tallied'
  BY <1>0, <1>1, <1>5, <1>7, <1>8, <1>9, <1>10 DEF Tallied, FailuresSeen
<1> QED
  BY <1>2, <1>3, <1>4, <1>11 DEF RunInv

\* A new test case object.
LEMMA BeginKeeps ==
  ASSUME RunInv, BeginCase
  PROVE  RunInv'
<1> USE DEF BeginCase, chosen, tallyVars
<1>0. /\ RunTypes /\ GroupsPlaced /\ GroupsCount /\ Tallied /\ Cases \in Nat
      /\ ~stopped /\ case \in Nat /\ o.printed \in Seq(Int)
  <2>1. RunTypes /\ GroupsPlaced /\ GroupsCount /\ Tallied
    BY DEF RunInv
  <2>2. CaseOK(o) /\ case \in Nat
    BY <2>1 DEF RunTypes
  <2>3. o.printed \in Seq(Int)
    BY <2>2 DEF CaseOK
  <2>4. ~stopped
    BY <2>1 DEF GroupsPlaced
  <2> QED
    BY <2>1, <2>2, <2>3, <2>4, RunnerAssumption
<1>1. /\ CaseOK(o') /\ o'.root.failed = 0 /\ o'.group_lst = <<>> /\ o'.log_lst = <<>>
      /\ ~o'.dangled
  BY <1>0, NewCaseFacts
<1>2. RunTypes'
  <2>1. /\ pc' = "setUp" /\ phase' = 1 /\ case' = case + 1 /\ ret' = 1 /\ case < Cases
        /\ UNCHANGED <<stop, selected, asked, stopped, truth, checks, failures, times>>
        /\ tallied' = 0
    OBVIOUS
  <2>2. Len(PhaseOrder) = 4
    BY DEF PhaseOrder
  <2>3. phase' \in 0..Len(PhaseOrder) /\ case' \in 0..Cases /\ tallied' \in 0..MaxTallies
    BY <1>0, <2>1, <2>2, RunnerAssumption
  <2> HIDE DEF BeginCase, chosen, tallyVars
  <2> QED
    BY <1>0, <1>1, <2>1, <2>3 DEF RunTypes, InCase
<1>3. GroupsPlaced'
  BY <1>0, <1>1 DEF GroupsPlaced
<1>4. GroupsCount'
  BY <1>0, <1>1 DEF GroupsCount, Range
<1>5. Past' = case /\ InCase' /\ Past = case
  BY <1>0 DEF Past, InCase
<1>6. Judged' <=> Judged
  BY DEF Judged
<1>7. Tallied'
  BY <1>0, <1>1, <1>5, <1>6 DEF Tallied, FailuresSeen, FailStopped
<1> QED
  BY <1>2, <1>3, <1>4, <1>7 DEF RunInv

\* A setUp that fails ends the case, which is counted as failed.
LEMMA SetUpFails ==
  ASSUME RunTypes, GroupsPlaced, Tallied, pc = "setUp",
         NEW obj, CaseOK(obj), obj.group_lst = o.group_lst, obj.log_lst = <<>>,
         obj.dangled = o.dangled, NEW line \in Nat \ {0}, SetUpFailed(obj, line),
         UNCHANGED <<chosen, case, stopped, times, tallied>>,
         checks' \in 0..MaxChecks, truth' \in Seq(Infos)
  PROVE  /\ RunTypes' /\ GroupsPlaced' /\ Tallied'
         /\ CaseOK(o') /\ o'.group_lst = o.group_lst /\ o'.log_lst = <<>>
<1> USE DEF SetUpFailed, EndCase, chosen
<1>1. o' = DumpEnd(FixtureFailed(obj, line)) /\ line \in Int
  OBVIOUS
<1>2. /\ CaseOK(o') /\ o'.group_lst = o.group_lst /\ o'.log_lst = <<>>
      /\ o'.dangled = (o.dangled \/ ~Alive(obj))
  <2>1. PICK left, v : /\ left = FixtureFailed(obj, line) /\ v = FALSE /\ v \in BOOLEAN
                       /\ (v => left = obj) /\ (~v => left = FixtureFailed(obj, line))
    OBVIOUS
  <2>2. /\ CaseOK(DumpEnd(left))
        /\ \A new \in {DumpEnd(left), ChangeType(DumpEnd(left))} :
             /\ new.group_lst = obj.group_lst /\ new.log_lst = <<>>
             /\ new.dangled = (obj.dangled \/ (~v /\ ~Alive(obj)))
    BY <1>1, <2>1, PhaseEnded
  <2> QED
    BY <1>1, <2>1, <2>2
<1>3. ~stopped /\ o.group_lst = <<>> /\ case \in Nat /\ case > 0 /\ Cases \in Nat
  BY RunnerAssumption DEF GroupsPlaced, RunTypes, InCase
<1>4. Alive(obj)
  BY <1>3 DEF Alive, Range
<1>5. RunTypes'
  BY <1>2, <1>3 DEF RunTypes, InCase
<1>6. o.dangled \in BOOLEAN
  BY DEF RunTypes, CaseOK
<1>7. GroupsPlaced'
  BY <1>2, <1>3, <1>4, <1>6 DEF GroupsPlaced
<1>8. Past' = case /\ ~InCase' /\ Past = case - 1 /\ InCase /\ pc' = "next"
  BY DEF Past, InCase
<1>9. total' = total + 1 /\ fail' = fail + 1 /\ scnt' = scnt /\ n_run' = n_run /\ failures' = line
  OBVIOUS
<1>10. case \in selected \intersect (1..case) /\ selected' = selected /\ case' = case
  BY <1>3, <1>8 DEF Tallied
<1>11. Tallied'
  BY <1>3, <1>8, <1>9, <1>10 DEF Tallied, FailuresSeen
<1> QED
  BY <1>2, <1>5, <1>7, <1>11

\* After a tearDown the next phase begins or the case ends.
LEMMA LeaveKeeps ==
  ASSUME RunTypes, GroupsPlaced, Tallied, pc = "tearDown",
         NEW obj, CaseOK(obj), obj.group_lst = o.group_lst, obj.log_lst = <<>>,
         "stopped" \notin TearDownChecks \union TearDownFails => ~obj.dangled,
         NEW value \in BOOLEAN, NEW line \in Nat,
         IF value THEN line = failures
         ELSE line > 0 /\ Situation \in TearDownChecks \union TearDownFails,
         Leave(obj, value, line),
         UNCHANGED <<chosen, case, times, tallied>>,
         checks' \in 0..MaxChecks, truth' \in Seq(Infos)
  PROVE  /\ RunTypes' /\ GroupsPlaced' /\ Tallied'
         /\ CaseOK(o') /\ o'.group_lst = o.group_lst /\ o'.log_lst = <<>>
<1> DEFINE more == ~stopped /\ phase < Len(Due(case))
           verdict1 == IF value THEN ret ELSE 0
           over == IF stopped THEN 0 ELSE verdict1
<1>1. PICK left : left = IF value THEN obj ELSE FixtureFailed(obj, line)
  OBVIOUS
<1>2. /\ failures' = line /\ stopped' = FALSE /\ ret' = verdict1
      /\ IF more THEN /\ o' = ChangeType(DumpEnd(left)) /\ phase' = phase + 1 /\ pc' = "setUp"
                      /\ UNCHANGED tallyVars
         ELSE o' = DumpEnd(left) /\ EndCase(over) /\ UNCHANGED <<phase, n_run>>
  BY <1>1 DEF Leave
<1>3. /\ CaseOK(o') /\ o'.group_lst = o.group_lst /\ o'.log_lst = <<>>
      /\ o'.dangled = (obj.dangled \/ (~value /\ ~Alive(obj)))
      /\ more => o'.root.failed = 0
  <2>1. line \in Int /\ (value => left = obj) /\ (~value => left = FixtureFailed(obj, line))
    BY <1>1
  <2>2. /\ CaseOK(DumpEnd(left)) /\ CaseOK(ChangeType(DumpEnd(left)))
        /\ ChangeType(DumpEnd(left)).root.failed = 0
        /\ \A new \in {DumpEnd(left), ChangeType(DumpEnd(left))} :
             /\ new.group_lst = obj.group_lst /\ new.log_lst = <<>>
             /\ new.dangled = (obj.dangled \/ (~value /\ ~Alive(obj)))
    BY <2>1, PhaseEnded
  <2>3. /\ o' \in {DumpEnd(left), ChangeType(DumpEnd(left))}
        /\ more => o' = ChangeType(DumpEnd(left))
    BY <1>2
  <2> HIDE DEF more
  <2> QED
    BY <2>2, <2>3
<1>4. /\ case \in Nat /\ case > 0 /\ Cases \in Nat /\ case \in 0..Cases
      /\ phase \in 0..4 /\ Len(PhaseOrder) = 4 /\ Len(Due(case)) \in 0..4
  BY DueFacts, RunnerAssumption DEF RunTypes, InCase, PhaseOrder
<1>5. /\ phase' \in 0..4 /\ ret \in {0, 1} /\ verdict1 \in {0, 1} /\ over \in {0, 1}
      /\ pc' \in {"setUp", "next"} /\ (more <=> pc' = "setUp")
  <2>1. ret \in {0, 1}
    BY DEF RunTypes
  <2>4. verdict1 \in {0, 1} /\ over \in {0, 1}
    BY <2>1
  <2>5. more => phase + 1 \in 0..4
    <3>1. PICK n, k : n = Len(Due(case)) /\ k = phase
      OBVIOUS
    <3>2. n \in 0..4 /\ k \in 0..4 /\ (more => k < n)
      BY <1>4, <3>1
    <3> HIDE DEF more
    <3>3. more => k + 1 \in 0..4
      BY <3>2
    <3> QED
      BY <3>1, <3>3
  <2> HIDE DEF over, verdict1, more
  <2>2. CASE more
    BY <1>2, <1>4, <2>1, <2>2, <2>4, <2>5
  <2>3. CASE ~more
    BY <1>2, <1>4, <2>1, <2>3, <2>4 DEF EndCase
  <2> QED
    BY <2>2, <2>3
<1>6. RunTypes'
  BY <1>2, <1>3, <1>4, <1>5 DEF RunTypes, InCase, chosen
<1>7. GroupsPlaced'
  <2>1. more => o.group_lst = <<>>
    BY DEF GroupsPlaced
  <2>2. ASSUME "stopped" \notin TearDownChecks \union TearDownFails PROVE ~o'.dangled
    <3>1. CASE value
      BY <1>3, <2>2, <3>1
    <3>2. CASE ~value
      <4>1. ~stopped
        BY <2>2, <3>2 DEF Situation
      <4>2. obj.group_lst = <<>>
        BY <4>1 DEF GroupsPlaced
      <4>3. Alive(obj)
        BY <4>2 DEF Alive, Range
      <4> QED
        BY <1>3, <2>2, <4>3
    <3> QED
      BY <3>1, <3>2
  <2> HIDE DEF more
  <2> QED
    BY <1>2, <1>3, <1>5, <2>1, <2>2 DEF GroupsPlaced
<1>8. /\ InCase /\ Past = case - 1 /\ case' = case /\ selected' = selected /\ stop' = stop
      /\ case \in selected /\ case \in 1..case
  BY <1>4 DEF InCase, Past, Tallied, chosen
<1>9. Judged' <=> Judged
  BY <1>8 DEF Judged
<1>10. CASE more
  <2>1. /\ UNCHANGED <<total, fail, scnt, n_run>> /\ Past' = case - 1 /\ InCase' /\ pc' = "setUp"
    BY <1>2, <1>5, <1>8, <1>10 DEF InCase, Past, tallyVars
  <2>2. Judged => FailuresSeen'
    <3>1. Judged => (failures > 0 <=> fail > 0 \/ ret = 0)
      BY DEF Tallied, FailuresSeen
    <3>2. o'.root.failed = 0 /\ ret' = verdict1 /\ failures' = line
      BY <1>2, <1>3, <1>10
    <3> QED
      BY <2>1, <3>1, <3>2 DEF FailuresSeen
  <2>3. Tallied'
    BY <1>2, <1>8, <1>9, <2>1, <2>2 DEF Tallied
  <2> QED
    BY <1>3, <1>6, <1>7, <2>3
<1>11. CASE ~more
  <2>1. /\ total' = total + 1 /\ n_run' = n_run /\ pc' = "next" /\ Past' = case /\ ~InCase'
        /\ fail' = (IF over = 0 THEN fail + 1 ELSE fail)
        /\ scnt' = (IF over = 1 THEN scnt + 1 ELSE scnt)
    BY <1>2, <1>8, <1>11 DEF EndCase, InCase, Past
  <2>2. case \in selected \intersect (1..case)
    BY <1>8
  <2>3. /\ total \in Nat /\ fail \in Nat /\ scnt \in Nat /\ n_run \in Nat
        /\ total = fail + scnt + n_run /\ total <= case - 1
        /\ n_run > 0 => fail > 0
        /\ stopped => stop /\ ret = 0
        /\ Judged => (failures > 0 <=> fail > 0 \/ ret = 0)
    BY <1>8 DEF Tallied, FailuresSeen
  <2>4. Judged => (failures' > 0 <=> fail' > 0)
    BY <1>2, <1>5, <2>1, <2>3 DEF RunTypes
  <2>5. /\ total' \in Nat /\ fail' \in Nat /\ scnt' \in Nat /\ n_run' \in Nat
        /\ total' = fail' + scnt' + n_run' /\ total' <= case /\ total' # 0
        /\ n_run' > 0 => fail' > 0
    <3> HIDE DEF over
    <3>1. CASE over = 0
      BY <1>4, <2>1, <2>3, <3>1
    <3>2. CASE over = 1
      BY <1>4, <2>1, <2>3, <3>2
    <3> QED
      BY <1>5, <3>1, <3>2
  <2>6. Tallied'
    BY <1>2, <1>8, <1>9, <2>1, <2>2, <2>4, <2>5 DEF Tallied, FailuresSeen
  <2> QED
    BY <1>3, <1>6, <1>7, <2>6
<1> QED
  BY <1>10, <1>11

LEMMA SetUpKeeps ==
  ASSUME RunInv, SetUp
  PROVE  RunInv'
<1>0. /\ RunTypes /\ GroupsPlaced /\ GroupsCount /\ Tallied /\ pc = "setUp" /\ ~stopped
      /\ UNCHANGED <<chosen, case, stopped, results, measured, truth, ended>>
  BY DEF RunInv, SetUp, RunTypes, GroupsPlaced
<1>1. CASE /\ pc' = "body" /\ calls' = Called("setUp")
           /\ UNCHANGED <<phase, o, ret, tallyVars, failures>>
  <2>1. RunTypes'
    BY <1>0, <1>1 DEF RunTypes, InCase, chosen, measured
  <2>2. GroupsPlaced'
    <3>1. o.group_lst = <<>>
      BY <1>0 DEF GroupsPlaced
    <3> QED
      BY <1>0, <1>1, <3>1 DEF GroupsPlaced, Alive, Range
  <2>3. GroupsCount'
    BY <1>0, <1>1 DEF GroupsCount
  <2>4. /\ Past' = Past /\ InCase /\ InCase' /\ stop' = stop /\ selected' = selected /\ case' = case
        /\ total' = total /\ fail' = fail /\ scnt' = scnt /\ n_run' = n_run
    BY <1>0, <1>1 DEF Past, InCase, chosen, tallyVars
  <2>5. Tallied'
    BY <1>0, <1>1, <2>4 DEF Tallied, FailuresSeen, Judged
  <2> QED
    BY <2>1, <2>2, <2>3, <2>5 DEF RunInv
<1>2. CASE SetUpFailed(o, failures + 1)
  <2>1. /\ CaseOK(o) /\ o.log_lst = <<>> /\ failures + 1 \in Nat \ {0}
        /\ checks' \in 0..MaxChecks /\ truth' \in Seq(Infos) /\ UNCHANGED <<times, tallied>>
    BY <1>0 DEF RunTypes, GroupsPlaced, measured
  <2>2. /\ RunTypes' /\ GroupsPlaced' /\ Tallied'
        /\ CaseOK(o') /\ o'.group_lst = o.group_lst /\ o'.log_lst = <<>>
    BY <1>0, <1>2, <2>1, SetUpFails
  <2>3. GroupsCount'
    BY <1>0, <2>2, CountsKept
  <2> QED
    BY <2>2, <2>3 DEF RunInv
<1> QED
  BY <1>0, <1>1, <1>2 DEF SetUp

\* The groups are closed, or the body would not return here.
LEMMA EndBodyKeeps ==
  ASSUME RunInv, EndBody
  PROVE  RunInv'
<1> USE DEF EndBody, BodyReturned
<1>0. /\ RunTypes /\ GroupsPlaced /\ GroupsCount /\ Tallied /\ pc = "body" /\ ~stopped
      /\ UNCHANGED <<chosen, case, phase, o, tallyVars, results, measured, failures, truth, ended>>
      /\ pc' = "tearDown" /\ stopped' = (o.root.failed # 0 /\ stop)
      /\ ret' = IF o.root.failed = 0 THEN ret ELSE 0
  BY DEF RunInv, RunTypes, GroupsPlaced, result
<1>1. stopped' \in BOOLEAN /\ ret' \in {0, 1}
  BY <1>0 DEF RunTypes
<1>2. RunTypes'
  BY <1>0, <1>1 DEF RunTypes, InCase, chosen, measured
<1>3. GroupsPlaced'
  BY <1>0 DEF GroupsPlaced
<1>4. GroupsCount'
  BY <1>0 DEF GroupsCount
<1>5. /\ Past' = Past /\ InCase /\ InCase' /\ stop' = stop /\ selected' = selected /\ case' = case
      /\ total' = total /\ fail' = fail /\ scnt' = scnt /\ n_run' = n_run
  BY <1>0 DEF Past, InCase, chosen, tallyVars
<1>6. o.root.failed \in Nat
  BY <1>0 DEF RunTypes, CaseOK, Infos
<1>7. Judged => (failures > 0 <=> fail > 0 \/ ret = 0 \/ o.root.failed > 0)
  BY <1>0 DEF Tallied, FailuresSeen
<1>8. (ret' = 0 <=> ret = 0 \/ o.root.failed > 0) /\ (stopped' => stop' /\ ret' = 0)
  <2>1. PICK n : n = o.root.failed
    OBVIOUS
  <2>2. n \in Nat /\ stopped' = (n # 0 /\ stop) /\ ret' = IF n = 0 THEN ret ELSE 0
    BY <1>0, <1>6, <2>1
  <2>3. ret' = 0 <=> ret = 0 \/ n > 0
    BY <2>2
  <2>4. stopped' => stop' /\ ret' = 0
    BY <1>5, <2>2
  <2> QED
    BY <2>1, <2>3, <2>4
<1>9. Judged' => FailuresSeen'
  BY <1>0, <1>5, <1>7, <1>8 DEF FailuresSeen, Judged
<1>10. Tallied'
  BY <1>0, <1>5, <1>8, <1>9 DEF Tallied
<1> QED
  BY <1>2, <1>3, <1>4, <1>10 DEF RunInv

LEMMA TearDownKeeps ==
  ASSUME RunInv, TearDown
  PROVE  RunInv'
<1>0. /\ RunTypes /\ GroupsPlaced /\ GroupsCount /\ Tallied /\ pc = "tearDown"
      /\ UNCHANGED <<chosen, case, results, measured, truth, ended, calls>>
  BY DEF RunInv, TearDown
<1>1. PICK value \in BOOLEAN : /\ ~value => Situation \in TearDownFails
                               /\ Leave(o, value, IF value THEN failures ELSE failures + 1)
  BY DEF TearDown
<1>2. PICK line : line = IF value THEN failures ELSE failures + 1
  OBVIOUS
<1>3. /\ CaseOK(o) /\ o.log_lst = <<>> /\ line \in Nat
      /\ "stopped" \notin TearDownChecks \union TearDownFails => ~o.dangled
      /\ IF value THEN line = failures
         ELSE line > 0 /\ Situation \in TearDownChecks \union TearDownFails
      /\ checks' \in 0..MaxChecks /\ truth' \in Seq(Infos) /\ UNCHANGED <<times, tallied>>
      /\ Leave(o, value, line)
  BY <1>0, <1>1, <1>2 DEF RunTypes, GroupsPlaced, measured
<1>4. /\ RunTypes' /\ GroupsPlaced' /\ Tallied'
      /\ CaseOK(o') /\ o'.group_lst = o.group_lst /\ o'.log_lst = <<>>
  BY <1>0, <1>3, LeaveKeeps
<1>5. GroupsCount'
  BY <1>0, <1>4, CountsKept
<1> QED
  BY <1>4, <1>5 DEF RunInv

\* What an assertion leaves of o: in tearDown after a stopped body, the pointers
\* may be bad.
LEMMA AssertionPlaced ==
  ASSUME RunTypes, GroupsPlaced, MayCheck
  PROVE  "stopped" \notin TearDownChecks \union TearDownFails \/ ~stopped => Alive(o)
<1>1. SUFFICES ASSUME "stopped" \notin TearDownChecks \union TearDownFails \/ ~stopped
               PROVE  Alive(o)
  OBVIOUS
<1>2. pc = "tearDown" => Situation \in TearDownChecks
  BY DEF MayCheck
<1>3. pc \in {"setUp", "body", "tearDown"}
  BY DEF MayCheck
<1>4. ~stopped
  BY <1>1, <1>2 DEF Situation, GroupsPlaced
<1>5. CASE pc = "body"
  BY <1>5 DEF GroupsPlaced
<1>6. CASE pc # "body"
  <2>1. o.group_lst = <<>>
    BY <1>3, <1>4, <1>6 DEF GroupsPlaced
  <2> QED
    BY <2>1 DEF Alive, Range
<1> QED
  BY <1>5, <1>6

LEMMA CheckKeeps ==
  ASSUME RunInv, CheckPasses \/ CheckFails
  PROVE  RunInv'
<1>0. /\ RunTypes /\ GroupsPlaced /\ GroupsCount /\ Tallied /\ MayCheck
      /\ UNCHANGED <<chosen, pc, case, phase, ret, stopped, tallyVars, results, times, tallied, ended>>
      /\ checks' = checks + 1
  BY DEF RunInv, CheckPasses, CheckFails
<1>1. PICK success \in BOOLEAN :
        /\ InTruth(success)
        /\ o' = IF success THEN AddResult(o, TRUE) ELSE AddLog(AddResult(o, FALSE), failures + 1)
        /\ failures' = IF success THEN failures ELSE failures + 1
        /\ success \/ ~stop
  <2>1. CASE CheckPasses
    BY <2>1 DEF CheckPasses
  <2>2. CASE CheckFails
    BY <2>2 DEF CheckFails
  <2> QED
    BY <2>1, <2>2
<1>2. PICK c : c = AddResult(o, success)
  OBVIOUS
<1>3. CaseOK(o) /\ failures \in Nat /\ failures + 1 \in Int
  BY <1>0 DEF RunTypes
<1>4. /\ CaseOK(c) /\ c.group_lst = o.group_lst
      /\ c.root.failed = (IF success THEN o.root.failed ELSE o.root.failed + 1)
      /\ c.dangled = (o.dangled \/ ~Alive(o))
      /\ DOMAIN c.log_lst = DOMAIN o.log_lst /\ Len(c.log_lst) = Len(o.log_lst)
      /\ \A i \in DOMAIN o.log_lst : c.log_lst[i].id = o.log_lst[i].id
  <2>1. /\ CaseOK(c) /\ c.group_lst = o.group_lst
        /\ c.root.failed = (IF success THEN o.root.failed ELSE o.root.failed + 1)
        /\ c.dangled = (o.dangled \/ ~Alive(o))
        /\ DOMAIN c.log_lst = DOMAIN o.log_lst /\ Len(c.log_lst) = Len(o.log_lst)
        /\ \A i \in DOMAIN o.log_lst :
             c.log_lst[i] = IF o.log_lst[i].id \in Range(o.group_lst)
                            THEN Counted(o.log_lst[i], success) ELSE o.log_lst[i]
    BY <1>2, <1>3, ResultAdded
  <2>2. \A i \in DOMAIN o.log_lst : o.log_lst[i] \in Infos
    <3>1. o.log_lst \in Seq(Infos)
      BY <1>3 DEF CaseOK
    <3> QED
      BY <3>1
  <2>3. \A info \in Infos : Counted(info, success).id = info.id
    BY InfoFacts
  <2> QED
    BY <2>1, <2>2, <2>3
<1>5. SameResults(o', c) /\ SameCounts(o'.log_lst, c.log_lst)
  <2>1. CASE success
    BY <1>1, <1>2, <1>4, <2>1 DEF SameResults, SameCounts
  <2>2. CASE ~success
    BY <1>1, <1>2, <1>3, <1>4, <2>2, LogAdded
  <2> QED
    BY <2>1, <2>2
<1>6. CaseOK(o') /\ o'.group_lst = o.group_lst
  BY <1>4, <1>5 DEF SameResults
<1>7. truth' \in Seq(Infos) /\ GroupsCount'
  BY <1>0, <1>1, <1>2, <1>5, <1>6, CountsCounted
<1>8. RunTypes'
  <2>1. checks' \in 0..MaxChecks /\ failures' \in Nat
    BY <1>0, <1>1, RunnerAssumption DEF RunTypes, MayCheck
  <2> QED
    BY <1>0, <1>6, <1>7, <2>1 DEF RunTypes, InCase, chosen
<1>9. GroupsPlaced'
  <2>1. /\ DOMAIN o'.log_lst = DOMAIN o.log_lst /\ Len(o'.log_lst) = Len(o.log_lst)
        /\ \A i \in DOMAIN o.log_lst : o'.log_lst[i].id = o.log_lst[i].id
    BY <1>4, <1>5 DEF SameCounts
  <2>2. o.log_lst = <<>> => o'.log_lst = <<>>
    <3>1. o'.log_lst \in Seq(Infos)
      BY <1>6 DEF CaseOK
    <3> QED
      BY <2>1, <3>1
  <2>3. Alive(o) => Alive(o')
    BY <1>6, <2>1 DEF Alive, Owned
  <2>4. o'.dangled = (o.dangled \/ ~Alive(o))
    BY <1>4, <1>5 DEF SameResults
  <2>5. "stopped" \notin TearDownChecks \union TearDownFails => Alive(o)
    BY <1>0, AssertionPlaced
  <2> QED
    BY <1>0, <1>6, <2>2, <2>3, <2>4, <2>5 DEF GroupsPlaced
<1>10. Tallied'
  <2>1. /\ Past' = Past /\ (InCase' <=> InCase) /\ stop' = stop /\ selected' = selected
        /\ case' = case /\ total' = total /\ fail' = fail /\ scnt' = scnt /\ n_run' = n_run
        /\ pc' = pc /\ ret' = ret /\ stopped' = stopped
    BY <1>0 DEF Past, InCase, chosen, tallyVars
  <2>2. o'.root.failed = (IF success THEN o.root.failed ELSE o.root.failed + 1)
    BY <1>4, <1>5 DEF SameResults
  <2>3. o.root.failed \in Nat
    BY <1>3 DEF CaseOK, Infos
  <2>4. Judged /\ ~success => pc \in {"setUp", "body"}
    BY <1>0, <1>1 DEF MayCheck, Situation, Judged, Tallied
  <2>5. Judged => FailuresSeen'
    <3>1. Judged => FailuresSeen
      BY <1>0 DEF Tallied
    <3>2. PICK n, n1 : n = o.root.failed /\ n1 = o'.root.failed
      OBVIOUS
    <3>3. n \in Nat /\ n1 = (IF success THEN n ELSE n + 1) /\ pc \in {"setUp", "body", "tearDown"}
      BY <1>0, <2>2, <2>3, <3>2 DEF MayCheck
    <3>4. ASSUME Judged
          PROVE  /\ pc \in {"setUp", "body"} => (failures' > 0 <=> fail > 0 \/ ret = 0 \/ n1 > 0)
                 /\ pc = "tearDown" => (failures' > 0 <=> fail > 0 \/ ret = 0)
      <4>1. /\ pc \in {"setUp", "body"} => (failures > 0 <=> fail > 0 \/ ret = 0 \/ n > 0)
            /\ pc = "tearDown" => (failures > 0 <=> fail > 0 \/ ret = 0)
        BY <3>1, <3>2, <3>4 DEF FailuresSeen
      <4>2. CASE success
        BY <1>1, <3>3, <4>1, <4>2
      <4>3. CASE ~success
        <5>1. pc \in {"setUp", "body"} /\ n1 > 0 /\ failures' > 0
          BY <1>1, <1>3, <2>4, <3>3, <3>4, <4>3
        <5> QED
          BY <5>1
      <4> QED
        BY <4>2, <4>3
    <3> QED
      BY <2>1, <3>2, <3>3, <3>4 DEF FailuresSeen
  <2>6. pc # "main"
    BY <1>0 DEF MayCheck
  <2>7. Judged' <=> Judged
    BY <2>1 DEF Judged
  <2> QED
    BY <1>0, <2>1, <2>5, <2>6, <2>7 DEF Tallied
<1> QED
  BY <1>7, <1>8, <1>9, <1>10 DEF RunInv

\* What is noted of the groups stays a list of groups.
LEMMA TruthTyped ==
  ASSUME RunTypes, NEW success \in BOOLEAN, InTruth(success)
  PROVE  truth' \in Seq(Infos)
<1>1. PICK g : g = Range(o.group_lst)
  OBVIOUS
<1>2. /\ truth' = [k \in DOMAIN truth |-> truth'[k]] /\ DOMAIN truth' = DOMAIN truth
      /\ \A k \in DOMAIN truth : truth'[k] = IF k \in g THEN Counted(truth[k], success) ELSE truth[k]
  BY <1>1 DEF InTruth
<1>3. truth \in Seq(Infos)
  BY DEF RunTypes
<1>4. \A k \in DOMAIN truth : truth[k] \in Infos
  BY <1>3
<1>5. \A k \in DOMAIN truth : truth'[k] \in Infos
  BY <1>2, <1>4, InfoFacts
<1> QED
  BY <1>2, <1>3, <1>5, ListMapped

\* A failed assertion under fail-stop, wherever it is made.
LEMMA StopKeeps ==
  ASSUME RunInv, CheckStops
  PROVE  RunInv'
<1>0. /\ RunTypes /\ GroupsPlaced /\ GroupsCount /\ Tallied /\ MayCheck /\ stop
      /\ UNCHANGED <<chosen, case, results, times, tallied, ended>>
      /\ checks' = checks + 1 /\ InTruth(FALSE)
  BY DEF RunInv, CheckStops
<1>1. PICK dumped : dumped = DumpGroupEnd(AddLog(AddResult(o, FALSE), failures + 1))
  OBVIOUS
<1>2. /\ pc \in {"setUp", "body", "tearDown"}
      /\ pc = "body" => /\ failures' = failures + 1 /\ o' = dumped /\ BodyReturned(FALSE)
                        /\ UNCHANGED <<phase, tallyVars>>
      /\ pc = "setUp" => SetUpFailed(dumped, failures + 2) /\ UNCHANGED stopped
      /\ pc = "tearDown" => Leave(dumped, FALSE, failures + 2) /\ UNCHANGED calls
  BY <1>1 DEF CheckStops
<1>3. CaseOK(o) /\ failures \in Nat /\ failures + 1 \in Int
  BY <1>0 DEF RunTypes
<1>4. /\ CaseOK(dumped) /\ dumped.group_lst = o.group_lst /\ dumped.log_lst = <<>>
      /\ dumped.dangled = (o.dangled \/ ~Alive(o))
  BY <1>1, <1>3, StopDumped
<1>5. truth' \in Seq(Infos) /\ checks' \in 0..MaxChecks
  <2>1. checks \in 0..MaxChecks /\ checks < MaxChecks /\ MaxChecks \in Nat
    BY <1>0, RunnerAssumption DEF RunTypes, MayCheck
  <2>2. checks' \in 0..MaxChecks
    BY <1>0, <2>1
  <2> QED
    BY <1>0, <2>2, TruthTyped
<1>6. o.dangled \in BOOLEAN
  BY <1>3 DEF CaseOK
<1>7. "stopped" \notin TearDownChecks \union TearDownFails \/ ~stopped => Alive(o)
  BY <1>0, AssertionPlaced
<1>8. ASSUME RunTypes', GroupsPlaced', Tallied', CaseOK(o'), o'.group_lst = o.group_lst, o'.log_lst = <<>>
      PROVE  RunInv'
  <2>1. GroupsCount'
    BY <1>0, <1>8, CountsCounted
  <2> QED
    BY <1>8, <2>1 DEF RunInv
<1>9. CASE pc = "body"
  <2>1. /\ failures' = failures + 1 /\ o' = dumped /\ UNCHANGED <<phase, tallyVars>>
        /\ pc' = "tearDown" /\ stopped' = TRUE /\ ret' = 0
    BY <1>0, <1>2, <1>9 DEF BodyReturned
  <2>2. ~stopped /\ case > 0
    BY <1>0, <1>9 DEF GroupsPlaced, RunTypes, InCase
  <2>3. RunTypes'
    BY <1>0, <1>3, <1>4, <1>5, <2>1, <2>2 DEF RunTypes, InCase, chosen
  <2>4. GroupsPlaced'
    BY <1>0, <1>4, <1>6, <1>7, <2>1 DEF GroupsPlaced
  <2>5. /\ Past' = Past /\ InCase /\ InCase' /\ stop' = stop /\ selected' = selected
        /\ case' = case /\ total' = total /\ fail' = fail /\ scnt' = scnt /\ n_run' = n_run
    BY <1>0, <1>9, <2>1 DEF Past, InCase, chosen, tallyVars
  <2>6. failures' > 0
    BY <1>3, <2>1
  <2>7. FailuresSeen'
    BY <2>1, <2>6 DEF FailuresSeen
  <2>8. Tallied'
    BY <1>0, <2>1, <2>5, <2>7 DEF Tallied
  <2> QED
    BY <1>4, <1>8, <2>1, <2>3, <2>4, <2>8
<1>10. CASE pc = "setUp"
  <2>1. SetUpFailed(dumped, failures + 2) /\ UNCHANGED stopped
    BY <1>2, <1>10
  <2>2. ~stopped
    BY <1>0, <1>10 DEF GroupsPlaced
  <2>3. dumped.dangled = o.dangled
    BY <1>4, <1>6, <1>7, <2>2
  <2>4. failures + 2 \in Nat \ {0}
    BY <1>3
  <2>5. UNCHANGED <<chosen, case, stopped, times, tallied>>
    BY <1>0, <2>1
  <2> QED
    BY <1>0, <1>4, <1>5, <1>8, <1>10, <2>1, <2>3, <2>4, <2>5, SetUpFails
<1>11. CASE pc = "tearDown"
  <2>1. Leave(dumped, FALSE, failures + 2)
    BY <1>2, <1>11
  <2>2. Situation \in TearDownChecks \union TearDownFails
    BY <1>0, <1>11 DEF MayCheck
  <2>3. "stopped" \notin TearDownChecks \union TearDownFails => ~dumped.dangled
    BY <1>0, <1>4, <1>7 DEF GroupsPlaced
  <2>4. failures + 2 \in Nat /\ failures + 2 > 0
    BY <1>3
  <2>5. UNCHANGED <<chosen, case, times, tallied>>
    BY <1>0
  <2> QED
    BY <1>0, <1>4, <1>5, <1>8, <1>11, <2>1, <2>2, <2>3, <2>4, <2>5, LeaveKeeps
<1> QED
  BY <1>2, <1>9, <1>10, <1>11

\* Measuring, and recording the memory of a block, change no count.
LEMMA MeasureKeeps ==
  ASSUME RunInv, MeasureTime \/ RecordMemory
  PROVE  RunInv'
<1>0. /\ RunTypes /\ GroupsPlaced /\ GroupsCount /\ Tallied /\ pc = "body"
      /\ UNCHANGED <<chosen, pc, case, phase, ret, stopped, tallyVars, results, checks, failures,
                     truth, ended>>
  BY DEF RunInv, MeasureTime, RecordMemory
<1>1. CaseOK(o) /\ Alive(o)
  BY <1>0 DEF RunTypes, GroupsPlaced
<1>2. /\ CaseOK(o') /\ o'.root.failed = o.root.failed /\ o'.group_lst = o.group_lst
      /\ SameCounts(o'.log_lst, o.log_lst) /\ o'.dangled = o.dangled
      /\ times' \in 0..MaxTimes /\ tallied' \in 0..MaxTallies
  <2>1. times \in 0..MaxTimes /\ tallied \in 0..MaxTallies /\ MaxTimes \in Nat /\ MaxTallies \in Nat
    BY <1>0, RunnerAssumption DEF RunTypes
  <2>2. CASE MeasureTime
    <3>1. /\ o' = AddTime(CountedTime(o), -(times + 1)) /\ -(times + 1) \in Int
          /\ times' \in 0..MaxTimes /\ tallied' = tallied
      BY <2>1, <2>2 DEF MeasureTime
    <3> QED
      BY <1>1, <2>1, <3>1, TimeAdded
  <2>3. CASE RecordMemory
    <3>1. /\ o' = AddMemory(o, tallied + 1) /\ tallied + 1 \in Nat /\ o.group_lst # <<>>
          /\ times' = times /\ tallied' \in 0..MaxTallies
      BY <2>1, <2>3 DEF RecordMemory
    <3> QED
      BY <1>1, <2>1, <3>1, MemoryAdded
  <2> QED
    BY <2>2, <2>3
<1>3. RunTypes'
  BY <1>0, <1>2 DEF RunTypes, InCase, chosen
<1>4. GroupsPlaced'
  <2>1. o.log_lst = <<>> => o'.log_lst = <<>>
    <3>1. o'.log_lst \in Seq(Infos) /\ Len(o'.log_lst) = Len(o.log_lst)
      BY <1>2 DEF CaseOK, SameCounts
    <3> QED
      BY <3>1
  <2>2. Alive(o')
    BY <1>1, <1>2 DEF Alive, Owned, SameCounts
  <2> QED
    BY <1>0, <1>2, <2>1, <2>2 DEF GroupsPlaced
<1>5. GroupsCount'
  BY <1>0, <1>2, CountsKept
<1>6. /\ Past' = Past /\ (InCase' <=> InCase) /\ stop' = stop /\ selected' = selected
      /\ case' = case /\ total' = total /\ fail' = fail /\ scnt' = scnt /\ n_run' = n_run
  BY <1>0 DEF Past, InCase, chosen, tallyVars
<1>7. Tallied'
  BY <1>0, <1>2, <1>6 DEF Tallied, FailuresSeen, Judged
<1> QED
  BY <1>3, <1>4, <1>5, <1>7 DEF RunInv


\* A list with one more at the end.
LEMMA RangeOfMore ==
  ASSUME NEW s, NEW t, NEW n, n \in DOMAIN t, \A i \in DOMAIN t : i \in DOMAIN s \/ i = n,
         \A i \in DOMAIN s : i \in DOMAIN t /\ t[i] = s[i]
  PROVE  Range(t) = Range(s) \union {t[n]}
<1>3. DOMAIN t = DOMAIN s \union {n}
  OBVIOUS
<1>1. Range(t) = {t[i] : i \in DOMAIN s \union {n}} /\ Range(s) = {s[i] : i \in DOMAIN s}
  BY <1>3 DEF Range
<1>2. {t[i] : i \in DOMAIN s \union {n}} = {s[i] : i \in DOMAIN s} \union {t[n]}
  OBVIOUS
<1> QED
  BY <1>1, <1>2

\* The same of a list whose elements are of any kind.
AnyList(s) == s \in Seq(Range(s))

Longer(t, s, v) ==
  /\ Len(t) = Len(s) + 1 /\ Len(s) \in Nat /\ DOMAIN s = 1..Len(s)
  /\ DOMAIN t = DOMAIN s \union {Len(s) + 1}
  /\ t[Len(s) + 1] = v /\ \A i \in DOMAIN s : t[i] = s[i]

LEMMA AppendFacts ==
  ASSUME NEW s, AnyList(s), NEW v
  PROVE  AnyList(Append(s, v)) /\ Longer(Append(s, v), s, v)
<1>1. PICK R, t, n : R = Range(s) \union {v} /\ t = Append(s, v) /\ n = Len(s)
  OBVIOUS
<1>2. s \in Seq(R) /\ v \in R
  <2>1. PICK S : S = Range(s)
    OBVIOUS
  <2> QED
    BY <1>1, <2>1 DEF AnyList
<1>3. /\ t \in Seq(R) /\ Len(t) = n + 1 /\ n \in Nat
      /\ DOMAIN s = 1..n /\ DOMAIN t = DOMAIN s \union {n + 1}
      /\ t[n + 1] = v /\ \A i \in DOMAIN s : t[i] = s[i]
  BY <1>1, <1>2
<1>4. Range(t) = R
  <2>1. PICK m : m = n + 1
    OBVIOUS
  <2>2. /\ \A i \in DOMAIN t : i \in DOMAIN s \/ i = m
        /\ m \in DOMAIN t /\ \A i \in DOMAIN s : i \in DOMAIN t /\ t[i] = s[i]
    BY <1>3, <2>1
  <2>3. Range(t) = Range(s) \union {t[m]}
    BY <2>2, RangeOfMore
  <2> QED
    BY <1>1, <1>3, <2>1, <2>3
<1>5. AnyList(t)
  BY <1>3, <1>4 DEF AnyList
<1>6. Longer(t, s, v)
  BY <1>1, <1>3 DEF Longer
<1> QED
  BY <1>1, <1>5, <1>6

\* A group that starts is the innermost, and counts nothing yet.
LEMMA StartKeeps ==
  ASSUME RunInv, startGroup
  PROVE  RunInv'
<1>1. PICK g, q, l, info, n, k : /\ g = Len(truth) + 1 /\ q = o.group_lst /\ l = o.log_lst
                                 /\ info = [NoInfo EXCEPT !.id = g]
                                 /\ n = Len(q) /\ k = Len(l)
  OBVIOUS
<1>0. /\ RunTypes /\ GroupsPlaced /\ GroupsCount /\ Tallied /\ pc = "body"
      /\ UNCHANGED <<chosen, pc, case, phase, ret, stopped, tallyVars, results, measured,
                     failures, ended>>
      /\ o' = [o EXCEPT !.log_lst = Append(@, info), !.group_lst = Append(@, g)]
      /\ truth' = Append(truth, info)
  BY <1>1 DEF RunInv, startGroup
<1>2. /\ truth \in Seq(Infos) /\ q \in Seq(Nat) /\ l \in Seq(Infos) /\ g \in Nat \ {0}
      /\ n \in Nat /\ k \in Nat
      /\ CaseOK(o) /\ DOMAIN o = Fields /\ o = [f \in Fields |-> o[f]]
  BY <1>0, <1>1 DEF RunTypes, CaseOK
<1>3. info \in Infos /\ info.id = g /\ info.total = 0 /\ info.failed = 0
  <2>1. \A S : <<>> \in Seq(S)
    OBVIOUS
  <2>2. info = [id |-> g, total |-> 0, failed |-> 0, measure |-> 0, logs |-> <<>>, memory |-> <<>>]
    BY <1>1 DEF NoInfo
  <2> QED
    BY <1>2, <2>1, <2>2 DEF Infos
<1>4. PICK q1, l1 : q1 = Append(q, g) /\ l1 = Append(l, info)
  OBVIOUS
<1>5. /\ o' = [o EXCEPT !.log_lst = l1, !.group_lst = q1]
      /\ DOMAIN o' = Fields /\ o' = [f \in Fields |-> o'[f]]
      /\ o'.root = o.root /\ o'.temp = o.temp /\ o'.group_lst = q1 /\ o'.log_lst = l1
      /\ o'.dangled = o.dangled
      /\ o'.printed = o.printed /\ o'.rows = o.rows /\ o'.totalRow = o.totalRow
  BY <1>0, <1>1, <1>2, <1>4 DEF Fields
<1>6. /\ q1 \in Seq(Nat) /\ DOMAIN q1 = DOMAIN q \union {n + 1} /\ q1[n + 1] = g
      /\ DOMAIN q = 1..n /\ \A i \in 1..n : q1[i] = q[i]
      /\ l1 \in Seq(Infos) /\ DOMAIN l1 = DOMAIN l \union {k + 1} /\ l1[k + 1] = info
      /\ DOMAIN l = 1..k /\ \A i \in 1..k : l1[i] = l[i]
      /\ q1 # <<>> /\ Range(q1) = Range(q) \union {g}
  <2>1. /\ q \in Seq(Nat) /\ g \in Nat /\ n = Len(q) /\ q1 = Append(q, g)
        /\ l \in Seq(Infos) /\ info \in Infos /\ k = Len(l) /\ l1 = Append(l, info)
    BY <1>1, <1>2, <1>3, <1>4
  <2>2. /\ q1 \in Seq(Nat) /\ DOMAIN q1 = DOMAIN q \union {n + 1} /\ q1[n + 1] = g
        /\ DOMAIN q = 1..n /\ \A i \in DOMAIN q : q1[i] = q[i]
        /\ q1 # <<>>
    BY <2>1
  <2>3. /\ l1 \in Seq(Infos) /\ DOMAIN l1 = DOMAIN l \union {k + 1} /\ l1[k + 1] = info
        /\ DOMAIN l = 1..k /\ \A i \in DOMAIN l : l1[i] = l[i]
    BY <2>1
  <2>4. PICK m : m = n + 1
    OBVIOUS
  <2>5. /\ \A i \in DOMAIN q1 : i \in DOMAIN q \/ i = m
        /\ m \in DOMAIN q1 /\ \A i \in DOMAIN q : i \in DOMAIN q1 /\ q1[i] = q[i]
    BY <2>2, <2>4
  <2>7. Range(q1) = Range(q) \union {q1[m]}
    BY <2>5, RangeOfMore
  <2>6. Range(q1) = Range(q) \union {g}
    BY <2>2, <2>4, <2>7
  <2> QED
    BY <2>2, <2>3, <2>6
<1>7. /\ truth' \in Seq(Infos) /\ DOMAIN truth' = DOMAIN truth \union {g} /\ g \notin DOMAIN truth
      /\ truth'[g] = info /\ \A j \in DOMAIN truth : truth'[j] = truth[j]
  BY <1>0, <1>1, <1>2, <1>3
<1>8. CaseOK(o')
  BY <1>2, <1>5, <1>6 DEF CaseOK
<1>9. RunTypes'
  BY <1>0, <1>7, <1>8 DEF RunTypes, InCase, chosen, measured
<1>10. GroupsPlaced'
  <2>1. ASSUME NEW i \in DOMAIN q1 PROVE \E j \in DOMAIN l1 : l1[j].id = q1[i]
    <3>1. CASE i = n + 1
      <4>1. k + 1 \in DOMAIN l1 /\ l1[k + 1].id = q1[i]
        BY <1>2, <1>3, <1>6, <3>1
      <4> QED
        BY <4>1
    <3>2. CASE i # n + 1
      <4>1. i \in 1..n
        BY <1>2, <1>6, <2>1, <3>2
      <4>5. q[i] \in Range(q) /\ Range(q) \subseteq Owned(o) /\ Owned(o) = {l[j].id : j \in DOMAIN l}
        <5>0. DOMAIN q = 1..n
          BY <1>1, <1>2
        <5>1. q[i] \in Range(q)
          BY <4>1, <5>0 DEF Range
        <5>2. Alive(o)
          BY <1>0 DEF GroupsPlaced
        <5>3. Range(q) \subseteq Owned(o)
          BY <1>1, <5>2 DEF Alive
        <5>4. Owned(o) = {l[j].id : j \in DOMAIN l}
          BY <1>1 DEF Owned
        <5> QED
          BY <5>1, <5>3, <5>4
      <4>2. PICK j \in DOMAIN l : l[j].id = q[i]
        BY <4>5
      <4>3. DOMAIN l = 1..k
        BY <1>1, <1>2
      <4>4. j \in DOMAIN l1 /\ l1[j] = l[j]
        BY <1>2, <1>6, <4>3
      <4> QED
        BY <1>6, <4>1, <4>2, <4>4
    <3> QED
      BY <3>1, <3>2
  <2>2. Alive(o')
    BY <1>5, <2>1 DEF Alive, Owned, Range
  <2>3. o'.group_lst = q1 /\ o'.dangled = o.dangled
    BY <1>5
  <2>4. pc = "body" /\ pc' = "body" /\ ~stopped'
    BY <1>0 DEF GroupsPlaced
  <2> QED
    BY <1>0, <2>2, <2>3, <2>4 DEF GroupsPlaced
<1>11. GroupsCount'
  <2>1. \A i, j \in DOMAIN q : q[i] \in DOMAIN truth /\ (q[i] = q[j] => i = j)
    BY <1>0, <1>1 DEF GroupsCount
  <2>2. \A i, j \in DOMAIN q1 : q1[i] \in DOMAIN truth' /\ (q1[i] = q1[j] => i = j)
    <3>1. \A i \in DOMAIN q1 : i = n + 1 \/ i \in 1..n
      BY <1>2, <1>6
    <3>2. \A i \in 1..n : q1[i] \in DOMAIN truth
      BY <1>6, <2>1
    <3>3. \A i, j \in 1..n : q1[i] = q1[j] => i = j
      BY <1>6, <2>1
    <3> QED
      BY <1>6, <1>7, <3>1, <3>2, <3>3
  <2>3. \A i \in DOMAIN l : /\ l[i].id \in DOMAIN truth
                            /\ l[i].total = truth[l[i].id].total
                            /\ l[i].failed = truth[l[i].id].failed
    BY <1>0, <1>1 DEF GroupsCount
  <2>4. \A i \in DOMAIN l1 : /\ l1[i].id \in DOMAIN truth'
                             /\ l1[i].total = truth'[l1[i].id].total
                             /\ l1[i].failed = truth'[l1[i].id].failed
    <3>1. \A i \in DOMAIN l1 : i = k + 1 \/ i \in 1..k
      BY <1>2, <1>6
    <3> QED
      BY <1>3, <1>6, <1>7, <2>3, <3>1
  <2>5. /\ results' = results /\ ended' = ended
        /\ results \in Seq(Range(results)) /\ ended \in Seq(Nat) /\ Len(results) = Len(ended)
        /\ \A i \in DOMAIN ended :
             /\ ended[i] \in DOMAIN truth /\ ended[i] \notin Range(q)
             /\ results[i].id = ended[i]
             /\ results[i].total = truth[results[i].id].total
             /\ results[i].failed = truth[results[i].id].failed
    BY <1>0, <1>1 DEF GroupsCount
  <2>6. Range(q1) = Range(q) \union {g}
    BY <1>6
  <2>7. \A i \in DOMAIN ended :
          /\ ended[i] \in DOMAIN truth' /\ ended[i] \notin Range(q1)
          /\ results[i].id = ended[i]
          /\ results[i].total = truth'[results[i].id].total
          /\ results[i].failed = truth'[results[i].id].failed
    BY <1>7, <2>5, <2>6
  <2> QED
    BY <1>5, <2>2, <2>4, <2>5, <2>7 DEF GroupsCount
<1>12. Tallied'
  <2>1. /\ Past' = Past /\ (InCase' <=> InCase) /\ stop' = stop /\ selected' = selected
        /\ case' = case /\ total' = total /\ fail' = fail /\ scnt' = scnt /\ n_run' = n_run
    BY <1>0 DEF Past, InCase, chosen, tallyVars
  <2> QED
    BY <1>0, <1>5, <2>1 DEF Tallied, FailuresSeen, Judged
<1> QED
  BY <1>9, <1>10, <1>11, <1>12 DEF RunInv


\* A list without its last element, when none is there twice.
LEMMA FrontFacts ==
  ASSUME NEW q \in Seq(Nat), q # <<>>, \A i, j \in DOMAIN q : q[i] = q[j] => i = j
  PROVE  /\ Front(q) \in Seq(Nat) /\ Last(q) \in Range(q)
         /\ DOMAIN Front(q) \subseteq DOMAIN q /\ \A i \in DOMAIN Front(q) : Front(q)[i] = q[i]
         /\ Range(Front(q)) = Range(q) \ {Last(q)}
         /\ Len(q) = 1 <=> Front(q) = <<>>
<1>1. PICK n, f, g : n = Len(q) /\ f = Front(q) /\ g = Last(q)
  OBVIOUS
<1>2. n \in Nat /\ n >= 1 /\ DOMAIN q = 1..n /\ n \in DOMAIN q /\ g = q[n]
  BY <1>1 DEF Last
<1>3. f = [i \in 1..n - 1 |-> q[i]]
  <2>1. f = SubSeq(q, 1, n - 1)
    BY <1>1 DEF Front
  <2> QED
    BY <1>2, <2>1
<1>4. f \in Seq(Nat) /\ DOMAIN f = 1..n - 1 /\ \A i \in 1..n - 1 : f[i] = q[i]
  BY <1>2, <1>3
<1>5. \A i : i \in DOMAIN q <=> i \in DOMAIN f \/ i = n
  BY <1>2, <1>4
<1>6. n \notin DOMAIN f
  BY <1>2, <1>4
<1>7. \A i \in DOMAIN f : i \in DOMAIN q /\ f[i] = q[i] /\ q[i] # g
  BY <1>2, <1>4, <1>5, <1>6
<1>8. Range(f) = Range(q) \ {g}
  <2>1. ASSUME NEW x \in Range(f) PROVE x \in Range(q) \ {g}
    <3>1. PICK i \in DOMAIN f : x = f[i]
      BY <2>1 DEF Range
    <3> QED
      BY <1>7, <3>1 DEF Range
  <2>2. ASSUME NEW x \in Range(q) \ {g} PROVE x \in Range(f)
    <3>1. PICK i \in DOMAIN q : x = q[i]
      BY <2>2 DEF Range
    <3>2. i \in DOMAIN f
      BY <1>2, <1>5, <2>2, <3>1
    <3> QED
      BY <1>7, <3>1, <3>2 DEF Range
  <2> QED
    BY <2>1, <2>2
<1>9. g \in Range(q)
  BY <1>2 DEF Range
<1>10. n = 1 <=> f = <<>>
  <2>1. Len(f) = n - 1
    BY <1>2, <1>4
  <2>2. f = <<>> <=> Len(f) = 0
    BY <1>4
  <2> QED
    BY <1>2, <2>1, <2>2
<1> QED
  BY <1>1, <1>4, <1>7, <1>8, <1>9, <1>10

\* The innermost group ends: its result is kept, and with the outermost group
\* they all go.
LEMMA EndGroupKeeps ==
  ASSUME RunInv, endGroup
  PROVE  RunInv'
<1>1. PICK g, q, l, info, dumped, r :
        /\ g = Last(o.group_lst) /\ q = o.group_lst /\ l = o.log_lst /\ info = Find(o, g)
        /\ dumped = IF Outermost(o) THEN DumpGroupEnd(o) ELSE o
        /\ r = [case |-> case, phase |-> Phase, id |-> g, total |-> info.total,
                failed |-> info.failed, detail |-> IF info.failed > 0 THEN info.logs ELSE <<>>]
  OBVIOUS
<1>0. /\ RunTypes /\ GroupsPlaced /\ GroupsCount /\ Tallied /\ pc = "body" /\ q # <<>>
      /\ UNCHANGED <<chosen, pc, case, phase, ret, stopped, tallyVars, measured, failures, truth>>
      /\ results' = Append(results, r)
      /\ o' = [dumped EXCEPT !.group_lst = Front(@)]
      /\ ended' = Append(ended, g)
  BY <1>1 DEF RunInv, endGroup
<1>2. /\ q \in Seq(Nat) /\ l \in Seq(Infos) /\ CaseOK(o)
      /\ \A i, j \in DOMAIN q : q[i] \in DOMAIN truth /\ (q[i] = q[j] => i = j)
      /\ Alive(o) /\ Range(q) \subseteq Owned(o)
  BY <1>0, <1>1 DEF RunTypes, CaseOK, GroupsCount, GroupsPlaced, Alive
<1>3. PICK f : f = Front(q)
  OBVIOUS
<1>4. /\ f \in Seq(Nat) /\ g \in Range(q) /\ DOMAIN f \subseteq DOMAIN q
      /\ \A i \in DOMAIN f : f[i] = q[i]
      /\ Range(f) = Range(q) \ {g} /\ (Len(q) = 1 <=> f = <<>>)
  BY <1>0, <1>1, <1>2, <1>3, FrontFacts
<1>5. /\ CaseOK(dumped) /\ dumped.group_lst = q /\ dumped.root.failed = o.root.failed
      /\ dumped.dangled = o.dangled
      /\ f = <<>> => dumped.log_lst = <<>>
      /\ f # <<>> => dumped.log_lst = l
  <2>1. CASE Outermost(o)
    <3>1. SameResults(DumpGroupEnd(o), o) /\ DumpGroupEnd(o).log_lst = <<>>
      BY <1>2, GroupsDumped
    <3>2. f = <<>>
      BY <1>1, <1>4, <2>1 DEF Outermost
    <3> QED
      BY <1>1, <2>1, <3>1, <3>2 DEF SameResults
  <2>2. CASE ~Outermost(o)
    <3>1. f # <<>> /\ dumped = o
      BY <1>1, <1>4, <2>2 DEF Outermost
    <3> QED
      BY <1>1, <1>2, <3>1
  <2> QED
    BY <2>1, <2>2
<1>6. /\ o' = [dumped EXCEPT !.group_lst = f]
      /\ DOMAIN o' = Fields /\ o' = [x \in Fields |-> o'[x]]
      /\ o'.root = dumped.root /\ o'.temp = dumped.temp /\ o'.group_lst = f
      /\ o'.log_lst = dumped.log_lst /\ o'.dangled = dumped.dangled
      /\ o'.printed = dumped.printed /\ o'.rows = dumped.rows /\ o'.totalRow = dumped.totalRow
  <2>1. DOMAIN dumped = Fields /\ dumped = [x \in Fields |-> dumped[x]]
    BY <1>5 DEF CaseOK
  <2>2. o' = [dumped EXCEPT !.group_lst = f]
    BY <1>0, <1>3, <1>5, <2>1 DEF Fields
  <2> QED
    BY <2>1, <2>2 DEF Fields
<1>7. CaseOK(o')
  BY <1>4, <1>5, <1>6 DEF CaseOK
<1>8. RunTypes'
  BY <1>0, <1>7 DEF RunTypes, InCase, chosen, measured
<1>9. GroupsPlaced'
  <2>1. Alive(o')
    <3>1. CASE f = <<>>
      BY <1>6, <3>1 DEF Alive, Range
    <3>2. CASE f # <<>>
      <4>1. Owned(o') = Owned(o)
        BY <1>1, <1>5, <1>6, <3>2 DEF Owned
      <4> QED
        BY <1>2, <1>4, <1>6, <4>1 DEF Alive
    <3> QED
      BY <3>1, <3>2
  <2> QED
    BY <1>0, <1>5, <1>6, <2>1 DEF GroupsPlaced
<1>10. /\ info \in Infos /\ info.id = g /\ g \in DOMAIN truth /\ g \in Nat
       /\ info.total = truth[g].total /\ info.failed = truth[g].failed
  <2>1. PICK i : i = CHOOSE j \in DOMAIN l : l[j].id = g
    OBVIOUS
  <2>2. \E j \in DOMAIN l : l[j].id = g
    <3>1. g \in {l[j].id : j \in DOMAIN l}
      BY <1>1, <1>2, <1>4 DEF Owned
    <3> QED
      BY <3>1
  <2>3. i \in DOMAIN l /\ l[i].id = g
    BY <2>1, <2>2
  <2>4. info = l[i]
    BY <1>1, <2>1 DEF Find
  <2>5. \A j \in DOMAIN l : /\ l[j].id \in DOMAIN truth
                            /\ l[j].total = truth[l[j].id].total
                            /\ l[j].failed = truth[l[j].id].failed
    BY <1>0, <1>1 DEF GroupsCount
  <2>6. l[i] \in Infos
    BY <1>2, <2>3
  <2>7. g \in Nat
    BY <2>3, <2>6 DEF Infos
  <2> QED
    BY <2>3, <2>4, <2>5, <2>6, <2>7
<1>11. r.id = g /\ r.total = info.total /\ r.failed = info.failed
  BY <1>1
<1>12. GroupsCount'
  <2>1. PICK n, rs, es : n = Len(ended) /\ rs = results' /\ es = ended'
    OBVIOUS
  <2>2. /\ results \in Seq(Range(results)) /\ ended \in Seq(Nat) /\ Len(results) = n
        /\ \A i \in DOMAIN ended :
             /\ ended[i] \in DOMAIN truth /\ ended[i] \notin Range(q)
             /\ results[i].id = ended[i]
             /\ results[i].total = truth[results[i].id].total
             /\ results[i].failed = truth[results[i].id].failed
    BY <1>0, <1>1, <2>1 DEF GroupsCount
  <2>3. /\ rs \in Seq(Range(rs)) /\ Len(rs) = n + 1 /\ n \in Nat
        /\ DOMAIN results = 1..n /\ rs[n + 1] = r /\ \A i \in DOMAIN results : rs[i] = results[i]
    <3>1. AnyList(results)
      BY <2>2 DEF AnyList
    <3>2. AnyList(rs) /\ Longer(rs, results, r)
      BY <1>0, <2>1, <3>1, AppendFacts
    <3> QED
      BY <2>2, <3>2 DEF AnyList, Longer
  <2>4. /\ es \in Seq(Nat) /\ Len(es) = n + 1 /\ DOMAIN es = 1..n + 1 /\ DOMAIN ended = 1..n
        /\ es[n + 1] = g /\ \A i \in 1..n : es[i] = ended[i]
    BY <1>0, <1>10, <2>1, <2>2
  <2>5. ASSUME NEW i \in DOMAIN es
        PROVE  /\ es[i] \in DOMAIN truth /\ es[i] \notin Range(f)
               /\ rs[i].id = es[i]
               /\ rs[i].total = truth[rs[i].id].total
               /\ rs[i].failed = truth[rs[i].id].failed
    <3>1. CASE i = n + 1
      BY <1>4, <1>10, <1>11, <2>3, <2>4, <3>1
    <3>2. CASE i # n + 1
      <4>1. i \in 1..n
        BY <2>3, <2>4, <2>5, <3>2
      <4>2. es[i] = ended[i] /\ rs[i] = results[i] /\ i \in DOMAIN ended
        BY <2>3, <2>4, <4>1
      <4> QED
        BY <1>4, <2>2, <4>2
    <3> QED
      BY <3>1, <3>2
  <2>6. \A i, j \in DOMAIN f : f[i] \in DOMAIN truth /\ (f[i] = f[j] => i = j)
    BY <1>2, <1>4
  <2>7. \A i \in DOMAIN dumped.log_lst :
          LET x == dumped.log_lst[i]
          IN /\ x.id \in DOMAIN truth
             /\ x.total = truth[x.id].total /\ x.failed = truth[x.id].failed
    <3>1. \A i \in DOMAIN l :
            LET x == l[i]
            IN /\ x.id \in DOMAIN truth
               /\ x.total = truth[x.id].total /\ x.failed = truth[x.id].failed
      BY <1>0, <1>1 DEF GroupsCount
    <3>2. CASE f = <<>>
      BY <1>5, <3>2
    <3>3. CASE f # <<>>
      BY <1>5, <3>1, <3>3
    <3> QED
      BY <3>2, <3>3
  <2> QED
    BY <1>0, <1>6, <2>1, <2>3, <2>4, <2>5, <2>6, <2>7 DEF GroupsCount
<1>13. Tallied'
  <2>1. /\ Past' = Past /\ (InCase' <=> InCase) /\ stop' = stop /\ selected' = selected
        /\ case' = case /\ total' = total /\ fail' = fail /\ scnt' = scnt /\ n_run' = n_run
    BY <1>0 DEF Past, InCase, chosen, tallyVars
  <2>2. o'.root.failed = o.root.failed
    BY <1>5, <1>6
  <2> QED
    BY <1>0, <2>1, <2>2 DEF Tallied, FailuresSeen, Judged
<1> QED
  BY <1>8, <1>9, <1>12, <1>13 DEF RunInv


\* Every step of the runner keeps its invariant.
LEMMA StepsKeep ==
  ASSUME RunInv, Steps \/ UNCHANGED vars
  PROVE  RunInv'
<1>1. CASE UNCHANGED vars
  <2>1. UNCHANGED <<stop, selected, asked, pc, case, phase, o, ret, stopped, total, fail, scnt,
                    n_run, results, checks, times, tallied, failures, truth, ended>>
    BY <1>1 DEF vars, chosen, tallyVars, history, noted, measured
  <2>2. RunTypes' /\ GroupsPlaced'
    BY <2>1 DEF RunInv, RunTypes, GroupsPlaced, InCase
  <2>3. GroupsCount'
    BY <2>1 DEF RunInv, GroupsCount
  <2>4. Tallied'
    BY <2>1 DEF RunInv, Tallied, Past, InCase, FailuresSeen, Judged
  <2> QED
    BY <2>2, <2>3, <2>4 DEF RunInv
<1>2. CASE Steps
  BY <1>2, BetweenKeeps, BeginKeeps, SetUpKeeps, EndBodyKeeps, TearDownKeeps, CheckKeeps,
     StopKeeps, MeasureKeeps, StartKeeps, EndGroupKeeps DEF Steps
<1> QED
  BY <1>1, <1>2

-----------------------------------------------------------------------------
(* The command line, up to what it asks testAll for. *)

Paths == {""} \union {a.path : a \in Arguments}

Settings ==
  [phases : SUBSET AllPhases, loop : 1..MaxLoop, stop : BOOLEAN, detail : BOOLEAN,
   help : BOOLEAN, wantList : BOOLEAN, basicOnly : BOOLEAN, timeOnly : BOOLEAN,
   command : DOMAIN Matching \union {""}, junitPath : Paths]

\* What is read of an argument.
LEMMA ReadFacts ==
  ASSUME NEW s \in Settings, NEW arg \in Arguments, arg.is # "option", NEW new \in Read(s, arg)
  PROVE  new \in Settings
<1>1. /\ {"MEMORY"} \subseteq AllPhases /\ {"STRESS"} \subseteq AllPhases
      /\ {"MEASURE"} \subseteq AllPhases /\ {"BASIC"} \subseteq AllPhases
  BY DEF AllPhases
<1>2. CASE arg.is = "report"
  <2>1. new = [s EXCEPT !.junitPath = arg.path] /\ arg.path \in Paths
    BY <1>2 DEF Read, Paths
  <2> QED
    BY <2>1 DEF Settings
<1>3. CASE arg.is = "mem"
  <2>1. new = [s EXCEPT !.phases = {"MEMORY"}]
    BY <1>3 DEF Read
  <2> QED
    BY <1>1, <2>1 DEF Settings
<1>4. CASE arg.is = "stress"
  <2>1. new = [s EXCEPT !.phases = {"STRESS"}]
    BY <1>4 DEF Read
  <2> QED
    BY <1>1, <2>1 DEF Settings
<1>5. CASE arg.is \in {"list", "help", "no_stop", "detail"}
  <2>1. \/ new = [s EXCEPT !.wantList = TRUE] \/ new = [s EXCEPT !.help = TRUE]
        \/ new = [s EXCEPT !.stop = FALSE] \/ new = [s EXCEPT !.detail = TRUE]
    BY <1>5 DEF Read
  <2> QED
    BY <2>1 DEF Settings
<1>6. CASE arg.is = "measure"
  <2>1. new = [s EXCEPT !.timeOnly = TRUE, !.phases = {"MEASURE"}]
    BY <1>6 DEF Read
  <2> QED
    BY <1>1, <2>1 DEF Settings
<1>7. CASE arg.is = "basic"
  <2>1. new = [s EXCEPT !.basicOnly = TRUE, !.phases = {"BASIC"}]
    BY <1>7 DEF Read
  <2> QED
    BY <1>1, <2>1 DEF Settings
<1>8. CASE arg.is = "phases"
  <2>1. PICK p : p = Picked(s, arg)
    OBVIOUS
  <2>2. new = Only(s, p) /\ arg.names \subseteq AllPhases
    BY <1>8, <2>1 DEF Read
  <2>3. p \subseteq AllPhases
    BY <2>1, <2>2 DEF Picked, Settings
  <2>4. PICK b, m : b = (p = {"BASIC"}) /\ m = (p = {"MEASURE"})
    OBVIOUS
  <2>5. b \in BOOLEAN /\ m \in BOOLEAN
    BY <2>4
  <2>6. new = [s EXCEPT !.phases = p, !.basicOnly = b, !.timeOnly = m]
    BY <2>2, <2>4 DEF Only
  <2> QED
    BY <2>3, <2>5, <2>6 DEF Settings
<1>9. CASE arg.is = "times"
  <2>1. PICK n \in 1..MaxLoop : new = [s EXCEPT !.loop = n]
    BY <1>9 DEF Read
  <2> QED
    BY <2>1 DEF Settings
<1>10. CASE arg.is = "unknown"
  BY <1>10 DEF Read
<1>11. CASE arg.is = "case"
  <2>1. new = [s EXCEPT !.command = arg.name] /\ arg.name \in DOMAIN Matching \union {""}
    BY <1>11, ProgramAssumption DEF Read
  <2> QED
    BY <2>1 DEF Settings
<1> QED
  BY <1>2, <1>3, <1>4, <1>5, <1>6, <1>7, <1>8, <1>9, <1>10, <1>11, CommandLineAssumption


\* What the command line has made of the settings and the options.
Tuned == {ScaleOption, StopAfterOption}

ScanInv ==
  /\ ScanTypes
  /\ settings \in Settings
  /\ \A at \in Tuned : optionValue[at] \in Option(at).min..Option(at).max

\* An option that is found is one of the registry's.
LEMMA FoundIsOption ==
  ASSUME NEW arg
  PROVE  findOption(arg) \subseteq Options
<1>1. \A S : First(S) \subseteq S
  BY DEF First
<1>2. SUFFICES ASSUME NEW at \in findOption(arg) PROVE at \in Options
  OBVIOUS
<1> DEFINE named == {g \in DOMAIN Registry : Registry[g].name = arg.group}
           keyed(g) == {j \in DOMAIN Registry[g].options : Registry[g].options[j].key = arg.key}
<1>3. PICK g \in First(named) : at \in {<<g, i>> : i \in First(keyed(g))}
  BY <1>2 DEF findOption
<1>4. PICK i \in First(keyed(g)) : at = <<g, i>>
  BY <1>3
<1>5. First(named) \subseteq named /\ First(keyed(g)) \subseteq keyed(g)
  BY <1>1
<1>6. g \in DOMAIN Registry /\ i \in DOMAIN Registry[g].options
  BY <1>3, <1>4, <1>5
<1> QED
  BY <1>4, <1>6 DEF Options

LEMMA ScanKeeps ==
  ASSUME ScanInv, Scan
  PROVE  ScanInv'
<1>0. /\ given \in Seq(Arguments) /\ stage \in {"scan", "run", "exit"}
      /\ DOMAIN optionValue = Options /\ optionSet \subseteq Options
      /\ exit \in {0, 1} /\ verdict \in {"none", "told", "rejected", "empty", "run"}
      /\ settings \in Settings
      /\ \A at \in Tuned : optionValue[at] \in Option(at).min..Option(at).max
  BY DEF ScanInv, ScanTypes
<1>1. \A s \in Settings : s.phases \subseteq AllPhases /\ s.loop \in 1..MaxLoop
  BY DEF Settings
<1>2. ASSUME NEW arg \in Arguments, MayRead(arg)
      PROVE  given' \in Seq(Arguments)
  BY <1>0, <1>2 DEF MayRead
<1>3. ASSUME NEW arg \in Arguments, AppliesOption(arg)
      PROVE  ScanInv'
  <2>6. PICK at \in findOption(arg) : \E value \in Assigned(Option(at), arg) :
          /\ optionValue' = [optionValue EXCEPT ![at] = value]
          /\ optionSet' = optionSet \union {at}
    BY <1>3 DEF AppliesOption
  <2>1. PICK value \in Assigned(Option(at), arg) :
          /\ optionValue' = [optionValue EXCEPT ![at] = value]
          /\ optionSet' = optionSet \union {at}
    BY <2>6
  <2>2. at \in Options
    BY FoundIsOption
  <2>3. UNCHANGED <<stage, settings, exit, verdict>> /\ given' \in Seq(Arguments)
    BY <1>2, <1>3 DEF AppliesOption
  <2>4. ASSUME NEW tuned \in Tuned
        PROVE  optionValue'[tuned] \in Option(tuned).min..Option(tuned).max
    <3>1. tuned \in Options /\ Option(tuned).kind = "int"
      BY ProgramAssumption DEF Tuned
    <3>2. CASE at = tuned
      <4>1. optionValue'[tuned] = value
        BY <1>0, <2>1, <2>2, <3>2
      <4>2. PICK option : option = Option(tuned)
        OBVIOUS
      <4>3. option.kind = "int" /\ value \in Assigned(option, arg)
        BY <3>1, <3>2, <4>2
      <4>4. value \in option.min..option.max
        BY <4>3 DEF Assigned
      <4> QED
        BY <4>1, <4>2, <4>4
    <3>3. CASE at # tuned
      BY <1>0, <2>1, <3>1, <3>3
    <3> QED
      BY <3>2, <3>3
  <2>5. DOMAIN optionValue' = Options /\ optionSet' \subseteq Options
    BY <1>0, <2>1, <2>2
  <2> QED
    BY <1>0, <1>1, <2>3, <2>4, <2>5 DEF ScanInv, ScanTypes
<1>4. ASSUME NEW arg \in Arguments, RejectsOption(arg) \/ RejectsArgument(arg)
      PROVE  ScanInv'
  <2>1. /\ stage' = "exit" /\ exit' = 1 /\ verdict' = "rejected"
        /\ UNCHANGED <<settings, optionValue, optionSet>> /\ given' \in Seq(Arguments)
    BY <1>2, <1>4 DEF RejectsOption, RejectsArgument, Exits
  <2> QED
    BY <1>0, <1>1, <2>1 DEF ScanInv, ScanTypes
<1>5. ASSUME NEW arg \in Arguments, AcceptsArgument(arg)
      PROVE  ScanInv'
  <2>1. /\ UNCHANGED <<stage, optionValue, optionSet, exit, verdict>> /\ given' \in Seq(Arguments)
        /\ settings' \in Read(settings, arg) /\ arg.is # "option"
    BY <1>2, <1>5 DEF AcceptsArgument
  <2>2. settings' \in Settings
    BY <1>0, <2>1, ReadFacts
  <2> QED
    BY <1>0, <1>1, <2>1, <2>2 DEF ScanInv, ScanTypes
<1>6. CASE ListsOrHelps \/ NothingToRun
  <2>1. /\ stage' = "exit" /\ exit' \in {0, 1} /\ verdict' \in {"told", "empty"}
        /\ UNCHANGED <<given, settings, optionValue, optionSet>>
    BY <1>6 DEF ListsOrHelps, NothingToRun, Exits
  <2> QED
    BY <1>0, <1>1, <2>1 DEF ScanInv, ScanTypes
<1> QED
  BY <1>3, <1>4, <1>5, <1>6 DEF Scan

\* Where the program is: the runner moves while testAll runs, and nothing after
\* the exit.
Staged ==
  /\ stage = "scan" => pc = "main" /\ verdict = "none" /\ file = NoReport
  /\ stage = "run" => pc # "main" /\ verdict = "run" /\ file = NoReport
  /\ loop # "idle" => stage = "run" /\ pc = "body" /\ Phase = "STRESS"
  /\ Len(file) <= 1

ProgramInv == RunInv /\ ScanInv /\ Staged

LEMMA ProgramInvInit ==
  ASSUME ProgramInit
  PROVE  ProgramInv
<1>1. RunInv
  BY RunInvInit DEF ProgramInit
<1>2. ScanInv
  <2>1. /\ given = <<>> /\ stage = "scan" /\ settings = Defaults
        /\ optionValue = [at \in Options |-> Option(at).default]
        /\ optionSet = {} /\ exit = 0 /\ verdict = "none"
    BY DEF ProgramInit, ScanInit
  <2>2. Defaults \in Settings
    BY CommandLineAssumption DEF Defaults, Settings, Paths, DefaultPhases, AllPhases
  <2>3. Defaults.phases \subseteq AllPhases /\ Defaults.loop \in 1..MaxLoop
    BY <2>2 DEF Settings
  <2>4. \A at \in Tuned : optionValue[at] \in Option(at).min..Option(at).max
    <3>1. ASSUME NEW at \in Tuned PROVE optionValue[at] \in Option(at).min..Option(at).max
      <4>1. at \in Options /\ Option(at).default \in Option(at).min..Option(at).max
        BY ProgramAssumption DEF Tuned
      <4>2. optionValue[at] = Option(at).default
        BY <2>1, <4>1
      <4> QED
        BY <4>1, <4>2
    <3> QED
      BY <3>1
  <2>5. <<>> \in Seq(Arguments)
    OBVIOUS
  <2> QED
    BY <2>1, <2>2, <2>3, <2>4, <2>5 DEF ScanInv, ScanTypes
<1>3. Staged
  BY DEF Staged, ProgramInit, ScanInit, Init, StressInit, NoReport
<1> QED
  BY <1>1, <1>2, <1>3 DEF ProgramInv


\* testAll is called once.
LEMMA OnceStarted ==
  ASSUME Steps
  PROVE  pc # "main" /\ pc' # "main"
<1>1. CASE CountNotRun \/ PassOver \/ BeginCase \/ RunNothing \/ Finish
  BY <1>1 DEF CountNotRun, PassOver, BeginCase, RunNothing, Finish
<1>2. CASE SetUp
  BY <1>2 DEF SetUp, SetUpFailed, EndCase
<1>3. CASE EndBody
  BY <1>3 DEF EndBody, BodyReturned
<1>4. CASE TearDown
  BY <1>4 DEF TearDown, Leave, EndCase
<1>5. CASE CheckPasses \/ CheckFails
  BY <1>5 DEF CheckPasses, CheckFails, MayCheck
<1>6. CASE CheckStops
  BY <1>6 DEF CheckStops, BodyReturned, SetUpFailed, Leave, EndCase
<1>7. CASE MeasureTime \/ RecordMemory \/ startGroup \/ endGroup
  BY <1>7 DEF MeasureTime, RecordMemory, startGroup, endGroup
<1> QED
  BY <1>1, <1>2, <1>3, <1>4, <1>5, <1>6, <1>7 DEF Steps

LEMMA SamePhase ==
  ASSUME UNCHANGED vars
  PROVE  Phase' = Phase /\ pc' = pc
<1>1. asked' = asked /\ case' = case /\ phase' = phase /\ pc' = pc
  BY DEF vars, chosen
<1>2. \A c : Due(c)' = Due(c)
  BY <1>1 DEF Due
<1> QED
  BY <1>1, <1>2 DEF Phase, Due

\* Every step of the program, seen by the runner.
LEMMA ProgramStep ==
  ASSUME ProgramInv, [ProgramNext]_programVars
  PROVE  \/ Steps \/ UNCHANGED vars
         \/ \E b \in BOOLEAN, m \in SUBSET (1..Cases), ph \in SUBSET Range(PhaseOrder) :
              testAll(b, m, ph)
<1>1. CASE CallTestAll
  <2>1. PICK m : m = IF settings.command = "" THEN 1..Cases ELSE Matching[settings.command]
    OBVIOUS
  <2>2. testAll(settings.stop, m, settings.phases)
    BY <1>1, <2>1 DEF CallTestAll
  <2>3. settings \in Settings
    BY DEF ProgramInv, ScanInv
  <2>4. settings.stop \in BOOLEAN /\ settings.command \in DOMAIN Matching \union {""}
    BY <2>3 DEF Settings
  <2>5. m \in SUBSET (1..Cases)
    BY <2>1, <2>4, ProgramAssumption
  <2>6. settings.phases \in SUBSET Range(PhaseOrder)
    <3>1. AllPhases \subseteq Range(PhaseOrder)
      <4>1. DOMAIN PhaseOrder = 1..4 /\ PhaseOrder[1] = "BASIC" /\ PhaseOrder[2] = "MEASURE"
            /\ PhaseOrder[3] = "STRESS" /\ PhaseOrder[4] = "MEMORY"
        BY DEF PhaseOrder
      <4> QED
        BY <4>1 DEF Range, AllPhases
    <3>2. settings.phases \subseteq AllPhases
      BY <2>3 DEF Settings
    <3> QED
      BY <3>1, <3>2
  <2> QED
    BY <2>2, <2>4, <2>5, <2>6
<1>2. CASE ScanArgument \/ RunnerStep
  BY <1>2 DEF ScanArgument, RunnerStep
<1>3. CASE StressCheck \/ StressRun
  BY <1>3 DEF StressCheck, StressRun
<1>4. CASE StressAsserted
  BY <1>4 DEF StressAsserted, Steps
<1>5. CASE WriteReport \/ ExitWithout
  BY <1>5 DEF WriteReport, ExitWithout
<1>6. CASE Exited \/ UNCHANGED programVars
  BY <1>6 DEF Exited, programVars
<1> QED
  BY <1>1, <1>2, <1>3, <1>4, <1>5, <1>6 DEF ProgramNext

LEMMA ProgramInvNext ==
  ASSUME ProgramInv, [ProgramNext]_programVars
  PROVE  ProgramInv'
<1>0. RunInv /\ ScanInv /\ Staged
  BY DEF ProgramInv
<1>1. RunInv'
  BY <1>0, ProgramStep, StepsKeep, CallKeeps
<1>2. ASSUME UNCHANGED scanVars
      PROVE  ScanInv'
  BY <1>0, <1>2 DEF scanVars, ScanInv, ScanTypes
<1>3. CASE ScanArgument
  <2>1. ScanInv'
    BY <1>0, <1>3, ScanKeeps DEF ScanArgument
  <2>2. /\ stage = "scan" /\ stage' \in {"scan", "exit"}
        /\ stage' = "scan" => verdict' = verdict
    BY <1>3 DEF ScanArgument, Scan, AppliesOption, RejectsOption, AcceptsArgument, RejectsArgument,
         ListsOrHelps, NothingToRun, MayRead, Exits
  <2>3. loop' = loop /\ file' = file /\ pc' = pc
    BY <1>3 DEF ScanArgument, stressVars, vars
  <2>4. Staged'
    BY <1>0, <2>2, <2>3 DEF Staged, NoReport
  <2> QED
    BY <1>1, <2>1, <2>4 DEF ProgramInv
<1>4. CASE CallTestAll
  <2>1. /\ stage = "scan" /\ stage' = "run" /\ verdict' = "run" /\ given' = <<>> /\ pc' = "next"
        /\ settings' = [Defaults EXCEPT !.junitPath = settings.junitPath]
        /\ UNCHANGED <<optionValue, optionSet, exit, loop, file>>
    BY <1>4 DEF CallTestAll, MayRun, testAll, stressVars
  <2>2. settings' \in Settings
    <3>1. Defaults \in Settings
      BY CommandLineAssumption DEF Defaults, Settings, Paths, DefaultPhases, AllPhases
    <3>2. settings.junitPath \in Paths
      BY <1>0 DEF ScanInv, Settings
    <3> QED
      BY <2>1, <3>1, <3>2 DEF Settings
  <2>3. settings'.phases \subseteq AllPhases /\ settings'.loop \in 1..MaxLoop
    BY <2>2 DEF Settings
  <2>4. <<>> \in Seq(Arguments)
    OBVIOUS
  <2>5. ScanInv'
    BY <1>0, <2>1, <2>2, <2>3, <2>4 DEF ScanInv, ScanTypes
  <2>6. Staged'
    BY <1>0, <2>1 DEF Staged, NoReport
  <2> QED
    BY <1>1, <2>5, <2>6 DEF ProgramInv
<1>5. CASE RunnerStep \/ StressAsserted
  <2>1. /\ stage = "run" /\ Steps /\ UNCHANGED <<scanVars, file>> /\ loop' = "idle"
    BY <1>0, <1>5 DEF RunnerStep, StressAsserted, EndRepeat, Steps, stressVars, Staged
  <2>2. Staged'
    BY <1>0, <2>1, OnceStarted DEF Staged, scanVars, NoReport
  <2> QED
    BY <1>1, <1>2, <2>1, <2>2 DEF ProgramInv
<1>6. CASE StressCheck \/ StressRun
  <2>1. UNCHANGED <<scanVars, vars, file>>
    BY <1>6 DEF StressCheck, StressRun
  <2>2. stage = "run" /\ pc = "body" /\ Phase = "STRESS"
    BY <1>0, <1>6 DEF StressCheck, StressRun, oneRun, Staged
  <2>3. Staged'
    BY <1>0, <2>1, <2>2, SamePhase DEF Staged, scanVars, NoReport
  <2> QED
    BY <1>1, <1>2, <2>1, <2>3 DEF ProgramInv
<1>7. CASE WriteReport \/ ExitWithout
  <2>1. /\ stage = "run" /\ pc = "done" /\ stage' = "exit" /\ exit' \in {0, 1}
        /\ UNCHANGED <<given, settings, optionValue, optionSet, verdict, vars, stressVars>>
        /\ Len(file') <= 1
    <3>1. ExitStatus \in {0, 1}
      BY DEF ExitStatus
    <3>2. CASE WriteReport
      <4>1. file' \in {<<writeJUnit>>, <<>>}
        BY <3>2 DEF WriteReport, NoReport
      <4>2. Len(file') <= 1
        BY <4>1
      <4> QED
        BY <3>1, <3>2, <4>2 DEF WriteReport, Exits
    <3>3. CASE ExitWithout
      BY <1>0, <3>1, <3>3 DEF ExitWithout, Exits, Staged
    <3> QED
      BY <1>7, <3>2, <3>3
  <2>2. ScanInv'
    BY <1>0, <2>1 DEF ScanInv, ScanTypes
  <2>3. loop' = "idle"
    BY <1>0, <2>1 DEF Staged, stressVars
  <2>4. Staged'
    BY <2>1, <2>3 DEF Staged
  <2> QED
    BY <1>1, <2>2, <2>4 DEF ProgramInv
<1>8. CASE Exited \/ UNCHANGED programVars
  <2>1. UNCHANGED <<scanVars, vars, stressVars, file>>
    BY <1>8 DEF Exited, programVars
  <2>2. Staged'
    BY <1>0, <2>1, SamePhase DEF Staged, scanVars, stressVars, NoReport
  <2> QED
    BY <1>1, <1>2, <2>1, <2>2 DEF ProgramInv
<1> QED
  BY <1>3, <1>4, <1>5, <1>6, <1>7, <1>8 DEF ProgramNext

LEMMA ProgramInvariant == ProgramSpec => []ProgramInv
<1>1. ProgramInit => ProgramInv
  BY ProgramInvInit
<1>2. ProgramInv /\ [ProgramNext]_programVars => ProgramInv'
  BY ProgramInvNext
<1> QED
  BY <1>1, <1>2, PTL DEF ProgramSpec


-----------------------------------------------------------------------------
(* What the runner's properties need of the invariant. *)

\* testAll's result is 0 exactly when a case was selected and nothing failed,
\* for any number of cases, phases and assertions, when no tearDown makes
\* assertions without fail-stop.
THEOREM VerdictIsExact ==
  ASSUME "noStop" \notin TearDownChecks
  PROVE  ProgramSpec => []VerdictExact
<1>1. ASSUME ProgramInv PROVE VerdictExact
  <2>1. RunTypes /\ Tallied /\ Judged
    BY <1>1 DEF ProgramInv, RunInv, Judged
  <2>2. SUFFICES ASSUME pc = "done"
                 PROVE  rc = 0 <=> selected # {} /\ failures = 0
    BY DEF VerdictExact
  <2>3. Past = Cases /\ selected \subseteq 1..Cases
    BY <2>1, <2>2 DEF Past, InCase, Tallied, RunTypes
  <2>4. total = 0 <=> selected = {}
    BY <2>1, <2>3 DEF Tallied
  <2>5. (failures > 0 <=> fail > 0) /\ total \in Nat /\ fail \in Nat /\ failures \in Nat
    BY <2>1, <2>2 DEF Tallied, FailuresSeen, RunTypes
  <2> QED
    BY <2>4, <2>5 DEF rc
<1> QED
  BY <1>1, ProgramInvariant, PTL

\* Fail-stop starts no case after a failure of any kind, a hook's included.
THEOREM NoCaseIsStarted == ProgramSpec => NoCaseAfterFailure
<1> DEFINE NoStart == stop /\ failures > 0 => ~(pc = "next" /\ pc' = "setUp")
<1>1. ASSUME ProgramInv, [ProgramNext]_programVars
      PROVE  [NoStart]_vars
  <2>1. SUFFICES ASSUME stop, failures > 0, pc = "next", pc' = "setUp"
                 PROVE  FALSE
    OBVIOUS
  <2>2. fail > 0
    BY <1>1, <2>1 DEF ProgramInv, RunInv, Tallied, Judged, FailuresSeen
  <2>3. Steps
    BY <1>1, <2>1, ProgramStep, SamePhase DEF testAll
  <2>4. ~MayCheck
    BY <2>1 DEF MayCheck
  <2>5. BeginCase
    <3>1. ~(CountNotRun \/ PassOver \/ RunNothing \/ Finish)
      BY <2>1 DEF CountNotRun, PassOver, RunNothing, Finish
    <3>2. ~(SetUp \/ EndBody \/ TearDown)
      BY <2>1 DEF SetUp, EndBody, TearDown
    <3>3. ~(CheckPasses \/ CheckFails \/ CheckStops)
      BY <2>4 DEF CheckPasses, CheckFails, CheckStops
    <3>4. ~(MeasureTime \/ RecordMemory \/ startGroup \/ endGroup)
      BY <2>1 DEF MeasureTime, RecordMemory, startGroup, endGroup
    <3> QED
      BY <2>3, <3>1, <3>2, <3>3, <3>4 DEF Steps
  <2> QED
    BY <2>1, <2>2, <2>5 DEF BeginCase, FailStopped
<1>2. ProgramSpec => [][NoStart]_vars
  BY <1>1, ProgramInvariant, PTL DEF ProgramSpec
<1> QED
  BY <1>2 DEF NoCaseAfterFailure

\* add_result, add_memory and log_time_result never follow a pointer to a group
\* that is gone, when no tearDown asserts or fails after fail-stop has cut its
\* body.
THEOREM GroupsStayAlive ==
  ASSUME "stopped" \notin TearDownChecks \union TearDownFails
  PROVE  ProgramSpec => []GroupsAlive
<1>1. ProgramInv => GroupsAlive
  BY DEF ProgramInv, RunInv, GroupsPlaced, GroupsAlive
<1> QED
  BY <1>1, ProgramInvariant, PTL

\* Every group, nested in any way, counts the assertions made inside it, while
\* it runs and in its result, with no assumption on what the test cases do.
THEOREM GroupsAreCounted == ProgramSpec => []GroupCountsExact
<1>1. ASSUME ProgramInv PROVE GroupCountsExact
  <2>1. GroupsCount
    BY <1>1 DEF ProgramInv, RunInv
  <2>2. /\ results \in Seq(Range(results)) /\ ended \in Seq(Nat) /\ Len(results) = Len(ended)
        /\ \A i \in DOMAIN ended :
             /\ results[i].id = ended[i]
             /\ results[i].total = truth[results[i].id].total
             /\ results[i].failed = truth[results[i].id].failed
    BY <2>1 DEF GroupsCount
  <2>3. PICK R : R = Range(results)
    OBVIOUS
  <2>4. results \in Seq(R)
    BY <2>2, <2>3
  <2>5. DOMAIN results = DOMAIN ended
    BY <2>2, <2>4
  <2> QED
    BY <2>1, <2>2, <2>5 DEF GroupsCount, GroupCountsExact
<1> QED
  BY <1>1, ProgramInvariant, PTL

\* The runner's variables keep their types, and its counters add up.
LEMMA RunnerTypes ==
  ASSUME RunInv
  PROVE  TypeOK
<1>1. RunTypes /\ GroupsCount /\ Tallied
  BY DEF RunInv
<1>2. /\ o.root \in Infos /\ o.temp \in Infos
      /\ o.group_lst \in Seq(Nat) /\ o.log_lst \in Seq(Infos)
      /\ o.printed \in Seq(Int) /\ o.rows \in Seq(Nat) /\ o.totalRow \in Seq(Nat)
      /\ o.dangled \in BOOLEAN
  BY <1>1 DEF RunTypes, CaseOK
<1>3. Past \in Nat /\ Past <= Cases /\ Cases \in Nat
  BY <1>1, RunnerAssumption DEF RunTypes, Past
<1>4. /\ total \in 0..Cases /\ fail \in 0..Cases /\ scnt \in 0..Cases /\ n_run \in 0..Cases
      /\ total = fail + scnt + n_run
  BY <1>1, <1>3 DEF Tallied
<1>5. Len(results) = Len(ended)
  BY <1>1 DEF GroupsCount
<1> QED
  BY <1>1, <1>2, <1>4, <1>5 DEF TypeOK, RunTypes


-----------------------------------------------------------------------------
(* Repetition under the options of the command line. *)

Failed(runs) == {i \in 1..Len(runs) : ~runs[i]}

Declared ==
  [declared : Budgets \union {0}, timed : BOOLEAN, tolerance : Tolerances \union {0}]

\* The result counts the runs, and while they go on there is a reason to.
StressInv ==
  /\ StressTypes
  /\ check \in Declared
  /\ loop # "idle" => check.declared \in Budgets /\ budget = Scaled(check.declared, percent)
  /\ IsFiniteSet(Failed(outcomes))
  /\ reps.iterations = Len(outcomes) /\ reps.failures = Cardinality(Failed(outcomes))
  /\ reps.firstFailure = IF Failed(outcomes) = {} THEN 0 ELSE Min(Failed(outcomes))
  /\ loop = "running" => /\ limit > 0 => reps.failures < limit
                         /\ ~check.timed => reps.iterations < budget
  /\ loop = "over" =>
       /\ reps.iterations >= 1
       /\ limit > 0 => reps.failures <= limit
       /\ ~check.timed =>
            /\ reps.iterations <= budget
            /\ reps.iterations < budget =>
                 limit > 0 /\ reps.failures = limit /\ ~outcomes[Len(outcomes)]

\* The options in the arithmetic of size_t.
LEMMA ScaledFacts ==
  ASSUME ScanInv, NEW declared \in Budgets
  PROVE  /\ percent \in Nat /\ limit \in Nat /\ percent \in Option(ScaleOption).min..Option(ScaleOption).max
         /\ Scaled(declared, percent) \in 1..Word - 1
<1>1. /\ percent \in Option(ScaleOption).min..Option(ScaleOption).max
      /\ limit \in Option(StopAfterOption).min..Option(StopAfterOption).max
  BY DEF ScanInv, Tuned, percent, limit
<1>2. Option(ScaleOption).min \in Nat /\ Option(StopAfterOption).min \in Nat
      /\ Option(ScaleOption).max \in Nat /\ Option(StopAfterOption).max \in Nat
  BY ProgramAssumption
<1>3. percent \in Nat /\ limit \in Nat
  BY <1>1, <1>2
<1>4. declared \in Nat /\ Word \in Nat /\ Word > 1
  BY StressAssumption
<1>5. PICK x : x = declared * percent
  OBVIOUS
<1>6. x \in Nat
  BY <1>3, <1>4, <1>5
<1>7. PICK y : y = x % Word
  OBVIOUS
<1>8. y \in 0..Word - 1
  BY <1>4, <1>6, <1>7
<1>9. y \div 100 \in 0..Word - 1
  BY <1>4, <1>8
<1>10. Scaled(declared, percent) = IF y \div 100 = 0 THEN 1 ELSE y \div 100
  BY <1>5, <1>7 DEF Scaled
<1> QED
  BY <1>1, <1>3, <1>4, <1>9, <1>10

\* A set of naturals has a least one.
LEMMA LeastNat ==
  ASSUME NEW S \in SUBSET Nat, S # {}
  PROVE  \E x \in S : \A y \in S : x =< y
<1>1. SUFFICES ASSUME \A x \in S : \E y \in S : y < x
               PROVE  FALSE
  OBVIOUS
<1> DEFINE T == {n \in Nat : \A m \in 0..n : m \notin S}
<1>2. 0 \in T
  BY <1>1
<1>3. \A n \in T : n + 1 \in T
  <2>1. SUFFICES ASSUME NEW n \in T, n + 1 \in S
                 PROVE  FALSE
    OBVIOUS
  <2>2. PICK y \in S : y < n + 1
    BY <1>1, <2>1
  <2>3. y \in 0..n
    BY <2>2
  <2> QED
    BY <2>3
<1>4. T = Nat
  <2> HIDE DEF T
  <2>1. T \subseteq Nat
    BY DEF T
  <2> QED
    BY <1>2, <1>3, <2>1, NatSet
<1>5. \A n \in Nat : n \notin S
  BY <1>4
<1> QED
  BY <1>5

\* One more run is counted once.
LEMMA RunCounted ==
  ASSUME NEW q \in Seq(BOOLEAN), IsFiniteSet(Failed(q)), NEW ok \in BOOLEAN
  PROVE  LET f == Failed(q)
             n == Len(q) + 1
             g == Failed(Append(q, ok))
         IN /\ IsFiniteSet(g) /\ Append(q, ok)[n] = ok /\ Len(Append(q, ok)) = n
            /\ ok => g = f
            /\ ~ok => Cardinality(g) = Cardinality(f) + 1 /\ g # {}
            /\ ~ok => Min(g) = IF f = {} THEN n ELSE Min(f)
<1>1. PICK f, n, r, g : f = Failed(q) /\ n = Len(q) + 1 /\ r = Append(q, ok) /\ g = Failed(r)
  OBVIOUS
<1>2. /\ n \in Nat \ {0} /\ r \in Seq(BOOLEAN) /\ Len(r) = n /\ r[n] = ok
      /\ \A i \in 1..n - 1 : r[i] = q[i]
  BY <1>1
<1>3. f = {i \in 1..n - 1 : ~q[i]} /\ g = {i \in 1..n : ~r[i]}
  BY <1>1, <1>2 DEF Failed
<1>4. \A i \in f : i \in 1..n - 1
  BY <1>3
<1>5. g = IF ok THEN f ELSE f \union {n}
  <2>1. \A i : i \in 1..n <=> i \in 1..n - 1 \/ i = n
    BY <1>2
  <2>2. CASE ok
    BY <1>2, <1>3, <2>1, <2>2
  <2>3. CASE ~ok
    BY <1>2, <1>3, <2>1, <2>3
  <2> QED
    BY <2>2, <2>3
<1>6. n \notin f
  BY <1>2, <1>4
<1>7. IsFiniteSet(g) /\ (~ok => Cardinality(g) = Cardinality(f) + 1)
  BY <1>1, <1>5, <1>6, FS_AddElement
<1>8. ASSUME ~ok PROVE Min(g) = IF f = {} THEN n ELSE Min(f)
  <2>1. g = f \union {n}
    BY <1>5, <1>8
  <2>2. CASE f = {}
    <3>1. g = {n}
      BY <2>1, <2>2
    <3>2. n =< n
      BY <1>2
    <3>3. Min(g) \in g
      BY <3>1, <3>2 DEF Min
    <3> QED
      BY <2>2, <3>1, <3>3
  <2>3. CASE f # {}
    <3>1. \A S \in SUBSET Nat : S # {} => Min(S) \in S /\ \A y \in S : Min(S) =< y
      <4>1. \A S \in SUBSET Nat : S # {} => \E x \in S : \A y \in S : x =< y
        BY LeastNat
      <4> QED
        BY <4>1 DEF Min
    <3>2. f \subseteq Nat /\ g \subseteq Nat /\ g # {}
      BY <1>2, <1>4, <2>1, <2>3
    <3>3. PICK a, b : a = Min(f) /\ b = Min(g)
      OBVIOUS
    <3>4. a \in f /\ (\A y \in f : a =< y) /\ b \in g /\ (\A y \in g : b =< y)
      BY <2>3, <3>1, <3>2, <3>3
    <3>5. a \in 1..n - 1 /\ b =< a
      BY <1>4, <2>1, <3>4
    <3>6. b \in f
      BY <1>2, <2>1, <3>4, <3>5
    <3>7. a = b
      BY <3>2, <3>4, <3>5, <3>6
    <3> QED
      BY <2>3, <3>3, <3>7
  <2> QED
    BY <2>2, <2>3
<1> QED
  BY <1>1, <1>2, <1>5, <1>7, <1>8

\* Before a check and after it there is nothing to count.
LEMMA StressIdle ==
  ASSUME loop = "idle", check = NoCheck, budget = 0, reps = NoResult, outcomes = <<>>
  PROVE  StressInv
<1>1. Failed(outcomes) = {}
  BY DEF Failed
<1>2. IsFiniteSet({}) /\ Cardinality({}) = 0
  BY FS_EmptySet
<1>3. check \in Declared
  BY DEF NoCheck, Declared
<1>4. StressTypes
  BY StressAssumption DEF StressTypes, NoResult
<1> QED
  BY <1>1, <1>2, <1>3, <1>4 DEF StressInv, NoResult

LEMMA StressBegins ==
  ASSUME StressInv, ScanInv, UNCHANGED scanVars, NEW d \in Declared, d.declared \in Budgets,
         BeginRepeat(d, percent)
  PROVE  StressInv'
<1>1. /\ loop' = IF d.timed \/ Scaled(d.declared, percent) > 0 THEN "running" ELSE "over"
      /\ check' = d /\ budget' = Scaled(d.declared, percent) /\ reps' = NoResult /\ outcomes' = <<>>
  BY DEF BeginRepeat
<1>2. percent' = percent /\ limit' = limit
  BY DEF scanVars, percent, limit
<1>3. PICK s : s = Scaled(d.declared, percent)
  OBVIOUS
<1>4. s \in 1..Word - 1 /\ Word \in Nat
  BY <1>3, ScaledFacts, StressAssumption
<1>5. loop' = "running"
  BY <1>1, <1>3, <1>4
<1>6. Failed(outcomes)' = {}
  BY <1>1 DEF Failed
<1>7. IsFiniteSet({}) /\ Cardinality({}) = 0
  BY FS_EmptySet
<1>8. StressTypes'
  <2>1. budget' \in 0..Word - 1 /\ NoResult \in [iterations : Nat, failures : Nat, firstFailure : Nat]
    BY <1>1, <1>3, <1>4 DEF NoResult
  <2>2. <<>> \in Seq(BOOLEAN)
    OBVIOUS
  <2> QED
    BY <1>1, <1>5, <2>1, <2>2 DEF StressTypes
<1>9. Scaled(check.declared, percent)' = s
  BY <1>1, <1>2, <1>3 DEF Scaled
<1>10. /\ IsFiniteSet(Failed(outcomes))' /\ Cardinality(Failed(outcomes))' = 0
       /\ reps'.iterations = 0 /\ reps'.failures = 0 /\ reps'.firstFailure = 0 /\ Len(outcomes)' = 0
  BY <1>1, <1>6, <1>7 DEF NoResult
<1>11. check'.declared \in Budgets /\ check' \in Declared /\ 0 < s /\ limit \in Nat /\ s \in Nat
  BY <1>1, <1>4, ScaledFacts
<1> QED
  BY <1>1, <1>2, <1>3, <1>5, <1>6, <1>8, <1>9, <1>10, <1>11 DEF StressInv

LEMMA StressRuns ==
  ASSUME StressInv, ScanInv, UNCHANGED scanVars, NEW ok \in BOOLEAN, oneRun(ok, limit)
  PROVE  StressInv'
<1>1. /\ loop = "running" /\ reps' = After(ok) /\ outcomes' = Append(outcomes, ok)
      /\ \/ MayContinue(limit, After(ok)) /\ loop' = "running"
         \/ (check.timed \/ ~MayContinue(limit, After(ok))) /\ loop' = "over"
      /\ UNCHANGED <<check, budget>>
  BY DEF oneRun
<1>2. percent' = percent /\ limit' = limit
  BY DEF scanVars, percent, limit
<1>3. /\ outcomes \in Seq(BOOLEAN) /\ budget \in 0..Word - 1 /\ IsFiniteSet(Failed(outcomes))
      /\ reps \in [iterations : Nat, failures : Nat, firstFailure : Nat]
      /\ reps.iterations = Len(outcomes) /\ reps.failures = Cardinality(Failed(outcomes))
      /\ reps.firstFailure = IF Failed(outcomes) = {} THEN 0 ELSE Min(Failed(outcomes))
      /\ limit > 0 => reps.failures < limit
      /\ ~check.timed => reps.iterations < budget
      /\ check \in Declared /\ check.declared \in Budgets /\ budget = Scaled(check.declared, percent)
  BY <1>1 DEF StressInv, StressTypes
<1>4. PICK f, g, n, r : f = Failed(outcomes) /\ n = Len(outcomes) + 1 /\ r = Append(outcomes, ok) /\ g = Failed(r)
  OBVIOUS
<1>5. /\ IsFiniteSet(g) /\ r[n] = ok /\ Len(r) = n
      /\ ok => g = f
      /\ ~ok => Cardinality(g) = Cardinality(f) + 1 /\ g # {}
      /\ ~ok => Min(g) = IF f = {} THEN n ELSE Min(f)
  BY <1>3, <1>4, RunCounted
<1>6. r \in Seq(BOOLEAN) /\ n \in Nat \ {0} /\ limit \in Nat /\ Word \in Nat
  <2>1. outcomes \in Seq(BOOLEAN)
    BY <1>3
  <2>2. r \in Seq(BOOLEAN) /\ n \in Nat \ {0}
    BY <1>4, <2>1
  <2>3. limit \in Nat
    BY <1>3, ScaledFacts
  <2> QED
    BY <2>2, <2>3, StressAssumption
<1>7. PICK a : a = After(ok)
  OBVIOUS
<1>8. /\ a.iterations = n
      /\ a.failures = IF ok THEN reps.failures ELSE reps.failures + 1
      /\ a.firstFailure = IF ~ok /\ reps.firstFailure = 0 THEN n ELSE reps.firstFailure
      /\ a \in [iterations : Nat, failures : Nat, firstFailure : Nat]
  BY <1>3, <1>4, <1>6, <1>7 DEF After
<1>9. \A i \in f : i \in Nat \ {0}
  BY <1>3, <1>4 DEF Failed
<1>10. f # {} => Min(f) \in f
  <2>1. f \in SUBSET Nat
    BY <1>9
  <2>2. \A S \in SUBSET Nat : S # {} => \E x \in S : \A y \in S : x =< y
    BY LeastNat
  <2> QED
    BY <2>1, <2>2 DEF Min
<1>11. a.failures = Cardinality(g)
  BY <1>3, <1>4, <1>5, <1>8
<1>12. a.firstFailure = IF g = {} THEN 0 ELSE Min(g)
  <2>1. PICK m : m = reps.firstFailure
    OBVIOUS
  <2>2. m = IF f = {} THEN 0 ELSE Min(f)
    BY <1>3, <1>4, <2>1
  <2>3. m = 0 <=> f = {}
    BY <1>9, <1>10, <2>2
  <2>4. CASE ok
    BY <1>5, <1>8, <2>1, <2>2, <2>4
  <2>5. CASE ~ok
    BY <1>5, <1>8, <2>1, <2>2, <2>3, <2>5
  <2> QED
    BY <2>4, <2>5
<1>13. /\ loop' = "running" => /\ limit > 0 => a.failures < limit
                               /\ ~check.timed => a.iterations < budget
       /\ loop' = "over" => (~check.timed => (limit > 0 /\ a.failures >= limit) \/ a.iterations >= budget)
  BY <1>1, <1>3, <1>6, <1>7, <1>8 DEF MayContinue, giveUp
<1>14. loop' = "over" => (limit > 0 => a.failures <= limit)
  BY <1>3, <1>6, <1>8
<1>15. ~check.timed => a.iterations <= budget
  BY <1>3, <1>4, <1>6, <1>8
<1>16. loop' = "over" /\ ~check.timed /\ a.iterations < budget => limit > 0 /\ a.failures = limit /\ ~r[n]
  BY <1>3, <1>5, <1>6, <1>8, <1>13
<1>17. Scaled(check.declared, percent)' = budget /\ Failed(outcomes)' = g /\ Len(outcomes)' = n
  BY <1>1, <1>2, <1>3, <1>4, <1>5 DEF Scaled, Failed
<1>18. StressTypes'
  BY <1>1, <1>3, <1>4, <1>6, <1>7, <1>8 DEF StressTypes
<1>19. loop' \in {"running", "over"} /\ outcomes' = r /\ reps' = a
  BY <1>1, <1>4, <1>7
<1> QED
  BY <1>1, <1>2, <1>3, <1>5, <1>6, <1>8, <1>11, <1>12, <1>13, <1>14, <1>15, <1>16, <1>17, <1>18, <1>19
     DEF StressInv

LEMMA StressEnds ==
  ASSUME EndRepeat
  PROVE  StressInv'
<1>1. loop' = "idle" /\ check' = NoCheck /\ budget' = 0 /\ reps' = NoResult /\ outcomes' = <<>>
  BY DEF EndRepeat
<1>2. Failed(outcomes)' = {}
  BY <1>1 DEF Failed
<1>3. IsFiniteSet({}) /\ Cardinality({}) = 0
  BY FS_EmptySet
<1>4. check' \in Declared
  BY <1>1 DEF NoCheck, Declared
<1>5. StressTypes'
  BY <1>1, StressAssumption DEF StressTypes, NoResult
<1> QED
  BY <1>1, <1>2, <1>3, <1>4, <1>5 DEF StressInv, NoResult

\* A step that leaves the repetition alone, and the options if one is going on.
LEMMA StressStays ==
  ASSUME StressInv, UNCHANGED stressVars, loop # "idle" => optionValue' = optionValue
  PROVE  StressInv'
<1>1. UNCHANGED <<loop, check, budget, reps, outcomes>>
  BY DEF stressVars
<1>2. Failed(outcomes)' = Failed(outcomes)
  BY <1>1 DEF Failed
<1>3. StressTypes'
  BY <1>1 DEF StressInv, StressTypes
<1>4. CASE loop = "idle"
  BY <1>1, <1>2, <1>3, <1>4 DEF StressInv
<1>5. CASE loop # "idle"
  <2>1. percent' = percent /\ limit' = limit
    BY <1>5 DEF percent, limit
  <2>2. Scaled(check.declared, percent)' = Scaled(check.declared, percent)
    BY <1>1, <2>1 DEF Scaled
  <2> QED
    BY <1>1, <1>2, <1>3, <2>1, <2>2 DEF StressInv
<1> QED
  BY <1>4, <1>5

LEMMA StressInvNext ==
  ASSUME ProgramInv, StressInv, [ProgramNext]_programVars
  PROVE  StressInv'
<1>0. ScanInv /\ Staged
  BY DEF ProgramInv
<1>1. CASE ScanArgument \/ CallTestAll
  <2>1. stage = "scan" /\ UNCHANGED stressVars
    BY <1>1 DEF ScanArgument, CallTestAll, MayRun, Scan, AppliesOption, RejectsOption,
         AcceptsArgument, RejectsArgument, ListsOrHelps, NothingToRun, MayRead
  <2>2. loop = "idle"
    BY <1>0, <2>1 DEF Staged
  <2> QED
    BY <2>1, <2>2, StressStays
<1>2. CASE RunnerStep \/ WriteReport \/ ExitWithout \/ Exited \/ UNCHANGED programVars
  <2>1. UNCHANGED stressVars /\ optionValue' = optionValue
    BY <1>2 DEF RunnerStep, WriteReport, ExitWithout, Exited, programVars, scanVars
  <2> QED
    BY <2>1, StressStays
<1>3. CASE StressCheck
  <2>1. PICK d, timed, tolerance :
          /\ d \in Budgets /\ timed \in BOOLEAN /\ tolerance \in Tolerances
          /\ BeginRepeat([declared |-> d, timed |-> timed, tolerance |-> tolerance], percent)
    BY <1>3 DEF StressCheck
  <2>2. PICK c : c = [declared |-> d, timed |-> timed, tolerance |-> tolerance]
    OBVIOUS
  <2>3. c \in Declared /\ c.declared \in Budgets
    BY <2>1, <2>2 DEF Declared
  <2>4. UNCHANGED scanVars
    BY <1>3 DEF StressCheck
  <2> QED
    BY <1>0, <2>1, <2>2, <2>3, <2>4, StressBegins
<1>4. CASE StressRun
  BY <1>0, <1>4, StressRuns DEF StressRun
<1>5. CASE StressAsserted
  BY <1>5, StressEnds DEF StressAsserted
<1> QED
  BY <1>1, <1>2, <1>3, <1>4, <1>5 DEF ProgramNext

LEMMA StressInvariant == ProgramSpec => []StressInv
<1>1. ProgramInit => StressInv
  BY StressIdle DEF ProgramInit, StressInit
<1>2. ProgramInv /\ StressInv /\ [ProgramNext]_programVars => StressInv'
  BY StressInvNext
<1> QED
  BY <1>1, <1>2, ProgramInvariant, PTL DEF ProgramSpec

\* Every variable of the program keeps its type, the runner's counters add up
\* and a body is repeated only in a STRESS phase, whatever the test cases do.
THEOREM ProgramTypes == ProgramSpec => []ProgramTypeOK
<1>1. ASSUME ProgramInv, StressInv PROVE ProgramTypeOK
  <2>1. RunInv /\ ScanInv /\ Staged
    BY <1>1 DEF ProgramInv
  <2>2. TypeOK
    BY <2>1, RunnerTypes
  <2>3. ScanTypes /\ StressTypes
    BY <1>1, <2>1 DEF ScanInv, StressInv
  <2> QED
    BY <2>1, <2>2, <2>3 DEF ProgramTypeOK, Staged
<1> QED
  BY <1>1, ProgramInvariant, StressInvariant, PTL

\* The result of a stress check is exact under the options as they were given,
\* when no budget times a percentage wraps around in the arithmetic of size_t.
THEOREM StressIsExact ==
  ASSUME \A b \in Budgets : \A p \in Option(ScaleOption).min..Option(ScaleOption).max : b * p < Word
  PROVE  ProgramSpec => []StressExact
<1>1. ASSUME ProgramInv, StressInv PROVE StressExact
  <2>1. SUFFICES ASSUME loop = "over" PROVE StressResultExact(percent, limit)
    BY DEF StressExact, StressResultExact
  <2>2. /\ outcomes \in Seq(BOOLEAN) /\ reps \in [iterations : Nat, failures : Nat, firstFailure : Nat]
        /\ check \in Declared /\ check.declared \in Budgets /\ budget = Scaled(check.declared, percent)
        /\ reps.iterations = Len(outcomes) /\ reps.failures = Cardinality(Failed(outcomes))
        /\ reps.firstFailure = IF Failed(outcomes) = {} THEN 0 ELSE Min(Failed(outcomes))
        /\ reps.iterations >= 1
        /\ limit > 0 => reps.failures <= limit
        /\ ~check.timed =>
             /\ reps.iterations <= budget
             /\ reps.iterations < budget =>
                  limit > 0 /\ reps.failures = limit /\ ~outcomes[Len(outcomes)]
    BY <1>1, <2>1 DEF StressInv, StressTypes
  <2>3. ScanInv
    BY <1>1 DEF ProgramInv
  <2>4. /\ percent \in Nat /\ limit \in Nat /\ percent \in Option(ScaleOption).min..Option(ScaleOption).max
        /\ budget \in 1..Word - 1
    <3>1. PICK d \in Budgets : budget = Scaled(d, percent)
      BY <2>2
    <3> QED
      BY <2>3, <3>1, ScaledFacts
  <2>5. PICK d, p, w : d = check.declared /\ p = percent /\ w = Max({1, (d * p) \div 100})
    OBVIOUS
  <2>6. d \in Nat /\ p \in Nat /\ Word \in Nat /\ d * p < Word
    BY <2>2, <2>4, <2>5, StressAssumption
  <2>7. PICK x : x = d * p
    OBVIOUS
  <2>8. x \in Nat /\ x < Word /\ x % Word = x
    BY <2>6, <2>7
  <2>9. PICK v : v = x \div 100
    OBVIOUS
  <2>10. v \in Nat /\ budget = IF v = 0 THEN 1 ELSE v
    BY <2>2, <2>5, <2>7, <2>8, <2>9 DEF Scaled
  <2>11. w = budget
    <3>1. w = Max({1, v})
      BY <2>5, <2>7, <2>9
    <3>2. budget \in {1, v} /\ \A y \in {1, v} : budget >= y
      BY <2>10
    <3>3. w \in {1, v} /\ \A y \in {1, v} : w >= y
      BY <3>1, <3>2 DEF Max
    <3> QED
      BY <2>10, <3>2, <3>3
  <2>12. PICK f, n : f = Failed(outcomes) /\ n = Len(outcomes)
    OBVIOUS
  <2>13. f = {i \in 1..n : ~outcomes[i]} /\ n \in Nat
    BY <2>2, <2>12 DEF Failed
  <2>14. check.tolerance \in Nat
    <3>1. check \in Declared
      BY <2>2
    <3>2. PICK t : t = check.tolerance
      OBVIOUS
    <3>3. t \in Tolerances \union {0}
      BY <3>1, <3>2 DEF Declared
    <3>4. t \in Nat
      BY <3>3, StressAssumption
    <3> QED
      BY <3>2, <3>4
  <2>15. /\ n >= 1 /\ reps.iterations = n /\ reps.failures = Cardinality(f)
         /\ reps.firstFailure = IF f = {} THEN 0 ELSE Min(f)
         /\ limit > 0 => Cardinality(f) <= limit
    BY <2>2, <2>12
  <2>16. ~check.timed =>
           /\ n <= w
           /\ n < w => Cardinality(f) = limit /\ ~outcomes[n]
           /\ Stable /\ (limit = 0 \/ limit > check.tolerance) => n = w
    <3>1. CASE n < budget /\ ~check.timed
      <4>1. reps.failures = limit /\ limit > 0
        BY <2>2, <2>12, <3>1
      <4>2. Stable => limit <= check.tolerance
        BY <4>1 DEF Stable
      <4> QED
        BY <2>2, <2>4, <2>11, <2>12, <2>13, <2>14, <3>1, <4>1, <4>2
    <3>2. CASE ~(n < budget) /\ ~check.timed
      BY <2>2, <2>4, <2>11, <2>12, <2>13, <3>2
    <3> QED
      BY <3>1, <3>2
  <2>17. w = Max({1, (check.declared * percent) \div 100})
    BY <2>5
  <2> QED
    BY <2>12, <2>13, <2>15, <2>16, <2>17 DEF StressResultExact
<1> QED
  BY <1>1, ProgramInvariant, StressInvariant, PTL

-----------------------------------------------------------------------------
(* The exit status. *)

\* Nothing happens after the exit, so what holds at the exit goes on holding.
LEMMA ExitNext ==
  ASSUME "noStop" \notin TearDownChecks, "lost" \notin Writes,
         ProgramInv, VerdictExact, ExitExact, [ProgramNext]_programVars
  PROVE  ExitExact'
<1>0. Staged
  BY DEF ProgramInv
<1>1. CASE ScanArgument
  <2>1. /\ stage = "scan" /\ UNCHANGED <<pc, file>>
        /\ stage' = "exit" => \/ exit' = 0 /\ verdict' = "told"
                              \/ exit' = 1 /\ verdict' \in {"rejected", "empty"}
    BY <1>1 DEF ScanArgument, vars, Scan, AppliesOption, RejectsOption, AcceptsArgument,
         RejectsArgument, ListsOrHelps, NothingToRun, MayRead, Exits
  <2>2. pc = "main" /\ file = NoReport
    BY <1>0, <2>1 DEF Staged
  <2>3. pc' = "main" /\ file' = NoReport
    BY <2>1, <2>2
  <2>4. CASE exit' = 0 /\ verdict' = "told"
    BY <2>3, <2>4 DEF ExitExact
  <2>5. CASE exit' = 1 /\ verdict' \in {"rejected", "empty"}
    <3>1. ~(exit' = 0) /\ ~(verdict' = "told") /\ ~(verdict' = "run")
      BY <2>5
    <3> QED
      BY <2>3, <3>1, Zenon DEF ExitExact
  <2> QED
    BY <2>1, <2>4, <2>5 DEF ExitExact
<1>2. CASE CallTestAll
  <2>1. stage' = "run"
    BY <1>2 DEF CallTestAll
  <2> QED
    BY <2>1 DEF ExitExact
<1>3. CASE RunnerStep \/ StressCheck \/ StressRun \/ StressAsserted
  <2>1. stage' = "run"
    BY <1>0, <1>3 DEF RunnerStep, StressCheck, StressRun, oneRun, StressAsserted, EndRepeat,
         Staged, scanVars
  <2> QED
    BY <2>1 DEF ExitExact
<1>4. ASSUME UNCHANGED vars
      PROVE  writeJUnit' = writeJUnit
  BY <1>4 DEF vars, writeJUnit
<1>5. CASE WriteReport \/ ExitWithout
  <2>1. /\ stage = "run" /\ pc = "done" /\ verdict' = verdict /\ settings' = settings
        /\ UNCHANGED vars
    BY <1>5 DEF WriteReport, ExitWithout
  <2>2. UNCHANGED <<selected, failures, pc>>
    BY <2>1 DEF vars, chosen, history, noted
  <2>3. verdict = "run" /\ (rc = 0 <=> selected # {} /\ failures = 0)
    BY <1>0, <2>1 DEF Staged, VerdictExact
  <2>4. CASE ExitWithout
    <3>1. settings.junitPath = "" /\ exit' = IF rc = 0 THEN 0 ELSE 1
      BY <2>4 DEF ExitWithout, Exits, ExitStatus
    <3>2. exit' = 0 <=> selected' # {} /\ failures' = 0
      <4>1. exit' = 0 <=> rc = 0
        <5>1. 0 # 1
          OBVIOUS
        <5>2. CASE rc = 0
          BY <3>1, <5>2
        <5>3. CASE rc # 0
          BY <3>1, <5>1, <5>3
        <5> QED
          BY <5>2, <5>3
      <4>2. selected' = selected /\ failures' = failures
        BY <2>2
      <4> QED
        BY <2>3, <4>1, <4>2
    <3>3. settings'.junitPath = "" /\ verdict' = "run" /\ ~(verdict' = "told")
      BY <2>1, <2>3, <3>1
    <3>4. exit' = 0 <=> \/ verdict' = "told"
                        \/ /\ verdict' = "run" /\ selected' # {} /\ failures' = 0
                           /\ settings'.junitPath # "" => file' = <<writeJUnit'>>
      BY <3>2, <3>3
    <3> QED
      BY <3>3, <3>4 DEF ExitExact
  <2>5. CASE WriteReport
    <3>1. PICK report : report = writeJUnit
      OBVIOUS
    <3>2. PICK write \in Writes :
            /\ file' = IF write = "written" THEN <<report>> ELSE NoReport
            /\ exit' = IF write = "noticed" THEN 1 ELSE IF rc = 0 THEN 0 ELSE 1
      BY <2>5, <3>1 DEF WriteReport, Exits, ExitStatus
    <3>3. settings.junitPath # "" /\ writeJUnit' = report
      BY <1>4, <2>1, <2>5, <3>1 DEF WriteReport
    <3>4. write \in {"written", "noticed"}
      BY <3>2, ProgramAssumption
    <3>5. <<report>> # NoReport
      BY DEF NoReport
    <3>6. exit' = 0 <=> /\ selected # {} /\ failures = 0
                        /\ file' = <<report>>
      BY <2>3, <3>2, <3>4, <3>5
    <3> QED
      BY <2>1, <2>2, <2>3, <3>3, <3>6 DEF ExitExact
  <2> QED
    BY <1>5, <2>4, <2>5
<1>6. CASE Exited \/ UNCHANGED programVars
  <2>1. UNCHANGED <<scanVars, vars, file>>
    BY <1>6 DEF Exited, programVars
  <2>2. UNCHANGED <<stage, exit, verdict, settings, selected, failures, pc>>
    BY <2>1 DEF scanVars, vars, chosen, history, noted
  <2> QED
    BY <1>4, <2>1, <2>2 DEF ExitExact, NoReport
<1> QED
  BY <1>1, <1>2, <1>3, <1>5, <1>6 DEF ProgramNext

\* main exits with 0 exactly when it was asked for help or the list, or some
\* case was selected, nothing failed and the report asked for is written: when
\* no tearDown makes assertions without fail-stop, and closing the report's
\* stream does not fail.
THEOREM ExitIsExact ==
  ASSUME "noStop" \notin TearDownChecks, "lost" \notin Writes
  PROVE  ProgramSpec => []ExitExact
<1>1. ProgramInit => ExitExact
  BY DEF ProgramInit, ScanInit, ExitExact
<1>2. ProgramInv /\ VerdictExact /\ ExitExact /\ [ProgramNext]_programVars => ExitExact'
  BY ExitNext
<1>3. ProgramSpec => []VerdictExact
  BY VerdictIsExact
<1> QED
  BY <1>1, <1>2, <1>3, ProgramInvariant, PTL DEF ProgramSpec

-----------------------------------------------------------------------------
(* The phases that the command line selects. *)

SelectedBy(args) == {i \in DOMAIN args : Selects(args[i])}

LastSelection(args) == IF SelectedBy(args) = {} THEN 0 ELSE Max(SelectedBy(args))

SkippedBy(args) == {i \in LastSelection(args) + 1..Len(args) : args[i].is = "phases"}

PhasesOf(args) ==
  (IF SelectedBy(args) = {} THEN DefaultPhases ELSE Selection(args[LastSelection(args)]))
     \ UNION {args[i].names : i \in SkippedBy(args)}

\* An argument of that kind with no --only= or --skip= behind it.
Alone(args, kind) ==
  \E i \in DOMAIN args : args[i].is = kind /\ \A k \in i..Len(args) : args[k].is # "phases"

Apart(args) ==
  \A i, j \in DOMAIN args :
    i < j /\ {args[i].is, args[j].is} = {"basic", "measure"} =>
      \E k \in i..j : args[k].is = "phases"

Placed(args) ==
  /\ LastSelection(args) \in 0..Len(args)
  /\ SelectedBy(args) # {} => LastSelection(args) \in SelectedBy(args)

\* The locals of main say what the arguments were: basicOnly and timeOnly are
\* what keeps -b and -m apart.
SelectionInv ==
  stage = "scan" =>
    /\ Placed(given)
    /\ settings.phases = PhasesOf(given)
    /\ Alone(given, "basic") => settings.basicOnly
    /\ Alone(given, "measure") => settings.timeOnly
    /\ Apart(given)

\* One more argument: what it selects, or what it skips of what was selected.
LEMMA PhasesOfMore ==
  ASSUME NEW q \in Seq(Arguments), Placed(q), NEW arg \in Arguments
  PROVE  LET t == Append(q, arg)
         IN /\ Placed(t)
            /\ Selects(arg) => PhasesOf(t) = Selection(arg)
            /\ ~Selects(arg) /\ arg.is = "phases" => PhasesOf(t) = PhasesOf(q) \ arg.names
            /\ ~Selects(arg) /\ arg.is # "phases" => PhasesOf(t) = PhasesOf(q)
<1>1. PICK t, n, a, b : t = Append(q, arg) /\ n = Len(q) + 1 /\ a = SelectedBy(q) /\ b = SelectedBy(t)
  OBVIOUS
<1>2. /\ n \in Nat \ {0} /\ DOMAIN q = 1..n - 1 /\ Len(q) = n - 1 /\ DOMAIN t = 1..n /\ Len(t) = n
      /\ t[n] = arg /\ \A i \in 1..n - 1 : t[i] = q[i]
  BY <1>1
<1>3. \A i : i \in 1..n <=> i \in 1..n - 1 \/ i = n
  BY <1>2
<1>4. PICK f, h : f = LastSelection(q) /\ h = LastSelection(t)
  OBVIOUS
<1>5. f \in 0..n - 1 /\ (a # {} => f \in a) /\ a \subseteq 1..n - 1
  BY <1>1, <1>2, <1>4 DEF Placed, SelectedBy
<1>6. b = IF Selects(arg) THEN a \union {n} ELSE a
  BY <1>1, <1>2, <1>3 DEF SelectedBy
<1>7. PICK s, u : s = SkippedBy(q) /\ u = SkippedBy(t)
  OBVIOUS
<1>8. s = {i \in f + 1..n - 1 : q[i].is = "phases"} /\ u = {i \in h + 1..n : t[i].is = "phases"}
  BY <1>2, <1>4, <1>7 DEF SkippedBy
<1>9. CASE Selects(arg)
  <2>1. b = a \union {n}
    BY <1>6, <1>9
  <2>2. \A y \in b : n >= y
    BY <1>2, <1>5, <2>1
  <2>3. \A x \in b : (\A y \in b : x >= y) => x = n
    BY <1>2, <1>5, <2>1
  <2>4. Max(b) = n
    BY <2>1, <2>2, <2>3 DEF Max
  <2>5. h = n
    BY <1>1, <1>4, <2>1, <2>4 DEF LastSelection
  <2>6. u = {}
    BY <1>2, <1>8, <2>5
  <2>7. PhasesOf(t) = Selection(arg)
    BY <1>1, <1>2, <1>4, <1>7, <2>1, <2>5, <2>6 DEF PhasesOf
  <2>8. Placed(t)
    BY <1>1, <1>2, <1>4, <2>1, <2>5 DEF Placed
  <2> QED
    BY <1>1, <1>9, <2>7, <2>8
<1>10. CASE ~Selects(arg)
  <2>1. b = a /\ h = f
    BY <1>1, <1>4, <1>6, <1>10 DEF LastSelection
  <2>2. Placed(t)
    BY <1>1, <1>2, <1>4, <1>5, <2>1 DEF Placed
  <2>3. u = IF arg.is = "phases" THEN s \union {n} ELSE s
    <3>1. \A i : i \in f + 1..n <=> i \in f + 1..n - 1 \/ i = n
      BY <1>2, <1>5
    <3>2. \A i \in f + 1..n - 1 : t[i] = q[i]
      BY <1>2, <1>5
    <3> QED
      BY <1>2, <1>8, <2>1, <3>1, <3>2
  <2>4. \A i \in s : t[i] = q[i]
    BY <1>2, <1>5, <1>8
  <2>5. a # {} => t[f] = q[f]
    BY <1>2, <1>5
  <2>6. PICK x : x = IF a = {} THEN DefaultPhases ELSE Selection(q[f])
    OBVIOUS
  <2>7. PhasesOf(q) = x \ UNION {q[i].names : i \in s}
    BY <1>1, <1>4, <1>7, <2>6 DEF PhasesOf
  <2>8. PhasesOf(t) = x \ UNION {t[i].names : i \in u}
    BY <1>1, <1>4, <1>7, <2>1, <2>5, <2>6 DEF PhasesOf
  <2>9. CASE arg.is = "phases"
    <3>1. UNION {t[i].names : i \in u} = (UNION {q[i].names : i \in s}) \union arg.names
      BY <1>2, <2>3, <2>4, <2>9
    <3> QED
      BY <1>1, <1>10, <2>2, <2>7, <2>8, <2>9, <3>1
  <2>10. CASE arg.is # "phases"
    <3>1. UNION {t[i].names : i \in u} = UNION {q[i].names : i \in s}
      BY <2>3, <2>4, <2>10
    <3> QED
      BY <1>1, <1>10, <2>2, <2>7, <2>8, <2>10, <3>1
  <2> QED
    BY <2>9, <2>10
<1> QED
  BY <1>9, <1>10

\* One more argument: who stands alone, and when -b and -m stay apart.
LEMMA ApartWithMore ==
  ASSUME NEW q \in Seq(Arguments), NEW arg \in Arguments, Apart(q),
         arg.is = "basic" => ~Alone(q, "measure"), arg.is = "measure" => ~Alone(q, "basic")
  PROVE  LET t == Append(q, arg)
         IN /\ Apart(t)
            /\ \A kind : Alone(t, kind) => arg.is # "phases" /\ (arg.is = kind \/ Alone(q, kind))
<1>1. PICK t, n : t = Append(q, arg) /\ n = Len(q) + 1
  OBVIOUS
<1>2. /\ n \in Nat \ {0} /\ DOMAIN q = 1..n - 1 /\ Len(q) = n - 1 /\ DOMAIN t = 1..n /\ Len(t) = n
      /\ t[n] = arg /\ \A i \in 1..n - 1 : t[i] = q[i]
  BY <1>1
<1>3. \A i : i \in 1..n <=> i \in 1..n - 1 \/ i = n
  BY <1>2
<1>4. ASSUME NEW kind, Alone(t, kind)
      PROVE  arg.is # "phases" /\ (arg.is = kind \/ Alone(q, kind))
  <2>1. PICK i \in 1..n : t[i].is = kind /\ \A k \in i..n : t[k].is # "phases"
    BY <1>2, <1>4 DEF Alone
  <2>2. n \in i..n
    BY <1>2
  <2>3. CASE i = n
    BY <1>2, <2>1, <2>2, <2>3
  <2>4. CASE i # n
    <3>1. i \in 1..n - 1
      BY <1>3, <2>4
    <3>2. \A k \in i..n - 1 : k \in 1..n - 1 /\ k \in i..n
      BY <1>2, <3>1
    <3>3. \A k \in i..n - 1 : q[k].is # "phases"
      BY <1>2, <2>1, <3>2
    <3>4. q[i].is = kind
      BY <1>2, <2>1, <3>1
    <3>5. Alone(q, kind)
      BY <1>2, <3>1, <3>3, <3>4 DEF Alone
    <3> QED
      BY <1>2, <2>1, <2>2, <3>5
  <2> QED
    BY <2>3, <2>4
<1>5. ASSUME NEW i \in 1..n, NEW j \in 1..n, i < j, {t[i].is, t[j].is} = {"basic", "measure"}
      PROVE  \E k \in i..j : t[k].is = "phases"
  <2>1. i \in 1..n - 1
    BY <1>2, <1>5
  <2>2. \A k \in i..n - 1 : k \in 1..n - 1 /\ k \in i..n
    BY <1>2, <2>1
  <2>3. CASE j = n
    <3>1. {q[i].is, arg.is} = {"basic", "measure"}
      BY <1>2, <1>5, <2>1, <2>3
    <3>2. \/ q[i].is = "basic" /\ arg.is = "measure"
          \/ q[i].is = "measure" /\ arg.is = "basic"
      BY <3>1
    <3>3. ~Alone(q, q[i].is)
      BY <3>2
    <3>4. PICK k \in i..n - 1 : q[k].is = "phases"
      BY <1>2, <2>1, <3>3 DEF Alone
    <3>5. k \in i..j /\ t[k].is = "phases"
      BY <1>2, <2>2, <2>3, <3>4
    <3> QED
      BY <3>5
  <2>4. CASE j # n
    <3>1. j \in 1..n - 1
      BY <1>3, <2>4
    <3>2. \E k \in i..j : q[k].is = "phases"
      BY <1>2, <1>5, <2>1, <3>1 DEF Apart
    <3>3. \A k \in i..j : k \in 1..n - 1
      BY <1>2, <2>1, <3>1
    <3> QED
      BY <1>2, <3>2, <3>3
  <2> QED
    BY <2>3, <2>4
<1>6. Apart(t)
  BY <1>2, <1>5 DEF Apart
<1> QED
  BY <1>1, <1>4, <1>6

\* What an argument does to the phases, and to what keeps -b and -m apart.
LEMMA ReadPhases ==
  ASSUME NEW s \in Settings, NEW arg \in Arguments, arg.is # "option", NEW new \in Read(s, arg)
  PROVE  /\ Selects(arg) => new.phases = Selection(arg)
         /\ ~Selects(arg) /\ arg.is = "phases" => new.phases = s.phases \ arg.names
         /\ ~Selects(arg) /\ arg.is # "phases" => new.phases = s.phases
         /\ arg.is = "basic" => ~s.timeOnly /\ new.basicOnly
         /\ arg.is = "measure" => ~s.basicOnly /\ new.timeOnly
         /\ arg.is # "phases" => (s.basicOnly => new.basicOnly) /\ (s.timeOnly => new.timeOnly)
<1>0. /\ DOMAIN s = {"phases", "loop", "stop", "detail", "help", "wantList", "basicOnly", "timeOnly",
                     "command", "junitPath"}
      /\ s = [f \in DOMAIN s |-> s[f]]
  BY DEF Settings
<1>1. CASE arg.is = "report"
  <2>1. new = [s EXCEPT !.junitPath = arg.path]
    BY <1>1 DEF Read
  <2> QED
    BY <1>0, <1>1, <2>1 DEF Selects
<1>2. CASE arg.is = "mem"
  <2>1. new = [s EXCEPT !.phases = {"MEMORY"}]
    BY <1>2 DEF Read
  <2> QED
    BY <1>0, <1>2, <2>1 DEF Selects, Selection
<1>3. CASE arg.is = "stress"
  <2>1. new = [s EXCEPT !.phases = {"STRESS"}]
    BY <1>3 DEF Read
  <2> QED
    BY <1>0, <1>3, <2>1 DEF Selects, Selection
<1>4. CASE arg.is \in {"list", "help", "no_stop", "detail"}
  <2>1. \/ new = [s EXCEPT !.wantList = TRUE] \/ new = [s EXCEPT !.help = TRUE]
        \/ new = [s EXCEPT !.stop = FALSE] \/ new = [s EXCEPT !.detail = TRUE]
    BY <1>4 DEF Read
  <2>2. new.phases = s.phases /\ new.basicOnly = s.basicOnly /\ new.timeOnly = s.timeOnly
    BY <1>0, <2>1
  <2> QED
    BY <1>4, <2>2 DEF Selects
<1>5. CASE arg.is = "measure"
  <2>1. ~s.basicOnly /\ new = [s EXCEPT !.timeOnly = TRUE, !.phases = {"MEASURE"}]
    BY <1>5 DEF Read
  <2>2. new.phases = {"MEASURE"} /\ new.timeOnly /\ new.basicOnly = s.basicOnly
    BY <1>0, <2>1
  <2> QED
    BY <1>5, <2>1, <2>2 DEF Selects, Selection
<1>6. CASE arg.is = "basic"
  <2>1. ~s.timeOnly /\ new = [s EXCEPT !.basicOnly = TRUE, !.phases = {"BASIC"}]
    BY <1>6 DEF Read
  <2>2. new.phases = {"BASIC"} /\ new.basicOnly /\ new.timeOnly = s.timeOnly
    BY <1>0, <2>1
  <2> QED
    BY <1>6, <2>1, <2>2 DEF Selects, Selection
<1>7. CASE arg.is = "phases"
  <2>1. PICK p : p = Picked(s, arg)
    OBVIOUS
  <2>2. new = Only(s, p)
    BY <1>7, <2>1 DEF Read
  <2>3. new.phases = p
    BY <1>0, <2>2 DEF Only
  <2>4. p = IF arg.skipping THEN s.phases \ arg.names ELSE arg.names
    BY <2>1 DEF Picked
  <2> QED
    BY <1>7, <2>3, <2>4 DEF Selects, Selection
<1>8. CASE arg.is = "times"
  <2>1. PICK n : new = [s EXCEPT !.loop = n]
    BY <1>8 DEF Read
  <2> QED
    BY <1>0, <1>8, <2>1 DEF Selects
<1>9. CASE arg.is = "unknown"
  BY <1>9 DEF Read
<1>10. CASE arg.is = "case"
  <2>1. new = [s EXCEPT !.command = arg.name]
    BY <1>10 DEF Read
  <2> QED
    BY <1>0, <1>10, <2>1 DEF Selects
<1> QED
  BY <1>1, <1>2, <1>3, <1>4, <1>5, <1>6, <1>7, <1>8, <1>9, <1>10, CommandLineAssumption

LEMMA SelectionNext ==
  ASSUME ProgramInv, SelectionInv, [ProgramNext]_programVars
  PROVE  SelectionInv'
<1>0. SUFFICES ASSUME stage' = "scan" PROVE SelectionInv'
  BY DEF SelectionInv
<1>1. ScanInv /\ given \in Seq(Arguments) /\ settings \in Settings
  BY DEF ProgramInv, ScanInv, ScanTypes
<1>2. CASE UNCHANGED <<stage, given, settings>>
  <2>1. /\ Placed(given)' = Placed(given) /\ PhasesOf(given)' = PhasesOf(given)
        /\ Alone(given, "basic")' = Alone(given, "basic")
        /\ Alone(given, "measure")' = Alone(given, "measure") /\ Apart(given)' = Apart(given)
    BY <1>2
  <2> QED
    BY <1>2, <2>1 DEF SelectionInv
<1>3. ASSUME NEW arg \in Arguments, given' = Append(given, arg), stage = "scan",
             Selects(arg) => settings'.phases = Selection(arg),
             ~Selects(arg) /\ arg.is = "phases" => settings'.phases = settings.phases \ arg.names,
             ~Selects(arg) /\ arg.is # "phases" => settings'.phases = settings.phases,
             arg.is = "basic" => ~settings.timeOnly /\ settings'.basicOnly,
             arg.is = "measure" => ~settings.basicOnly /\ settings'.timeOnly,
             arg.is # "phases" => /\ settings.basicOnly => settings'.basicOnly
                                  /\ settings.timeOnly => settings'.timeOnly
      PROVE  SelectionInv'
  <2>1. /\ Placed(given) /\ settings.phases = PhasesOf(given) /\ Apart(given)
        /\ Alone(given, "basic") => settings.basicOnly
        /\ Alone(given, "measure") => settings.timeOnly
    BY <1>3 DEF SelectionInv
  <2>2. PICK t : t = Append(given, arg)
    OBVIOUS
  <2>3. /\ Placed(t)
        /\ Selects(arg) => PhasesOf(t) = Selection(arg)
        /\ ~Selects(arg) /\ arg.is = "phases" => PhasesOf(t) = PhasesOf(given) \ arg.names
        /\ ~Selects(arg) /\ arg.is # "phases" => PhasesOf(t) = PhasesOf(given)
    BY <1>1, <2>1, <2>2, PhasesOfMore
  <2>4. settings'.phases = PhasesOf(t)
    BY <1>3, <2>1, <2>3
  <2>5. arg.is = "basic" => ~Alone(given, "measure")
    BY <1>3, <2>1
  <2>6. arg.is = "measure" => ~Alone(given, "basic")
    BY <1>3, <2>1
  <2>7. /\ Apart(t)
        /\ \A kind : Alone(t, kind) => arg.is # "phases" /\ (arg.is = kind \/ Alone(given, kind))
    BY <1>1, <2>1, <2>2, <2>5, <2>6, ApartWithMore
  <2>8. Alone(t, "basic") => settings'.basicOnly
    BY <1>3, <2>1, <2>7
  <2>9. Alone(t, "measure") => settings'.timeOnly
    BY <1>3, <2>1, <2>7
  <2>10. given' = t
    BY <1>3, <2>2
  <2> QED
    BY <2>3, <2>4, <2>7, <2>8, <2>9, <2>10 DEF SelectionInv
<1>4. CASE ScanArgument
  <2>1. stage = "scan"
    BY <1>4 DEF ScanArgument, Scan, AppliesOption, RejectsOption, AcceptsArgument,
         RejectsArgument, ListsOrHelps, NothingToRun, MayRead
  <2>2. CASE ListsOrHelps \/ NothingToRun
    BY <1>0, <2>2 DEF ListsOrHelps, NothingToRun, Exits
  <2>3. ASSUME NEW arg \in Arguments, RejectsOption(arg) \/ RejectsArgument(arg)
        PROVE  FALSE
    BY <1>0, <2>3 DEF RejectsOption, RejectsArgument, Exits
  <2>4. ASSUME NEW arg \in Arguments, AppliesOption(arg)
        PROVE  SelectionInv'
    <3>1. given' = Append(given, arg) /\ arg.is = "option" /\ settings' = settings
      BY <2>4 DEF AppliesOption, MayRead
    <3>2. ~Selects(arg)
      BY <3>1 DEF Selects
    <3> QED
      BY <1>3, <2>1, <3>1, <3>2
  <2>5. ASSUME NEW arg \in Arguments, AcceptsArgument(arg)
        PROVE  SelectionInv'
    <3>1. given' = Append(given, arg) /\ arg.is # "option" /\ settings' \in Read(settings, arg)
      BY <2>5 DEF AcceptsArgument, MayRead
    <3>2. PICK new : new = settings'
      OBVIOUS
    <3>3. new \in Read(settings, arg)
      BY <3>1, <3>2
    <3>4. /\ Selects(arg) => new.phases = Selection(arg)
          /\ ~Selects(arg) /\ arg.is = "phases" => new.phases = settings.phases \ arg.names
          /\ ~Selects(arg) /\ arg.is # "phases" => new.phases = settings.phases
          /\ arg.is = "basic" => ~settings.timeOnly /\ new.basicOnly
          /\ arg.is = "measure" => ~settings.basicOnly /\ new.timeOnly
          /\ arg.is # "phases" => /\ settings.basicOnly => new.basicOnly
                                  /\ settings.timeOnly => new.timeOnly
      BY <1>1, <3>1, <3>3, ReadPhases
    <3> QED
      BY <1>3, <2>1, <3>1, <3>2, <3>4
  <2> QED
    BY <1>4, <2>2, <2>3, <2>4, <2>5 DEF ScanArgument, Scan
<1>5. CASE CallTestAll \/ WriteReport \/ ExitWithout
  BY <1>0, <1>5 DEF CallTestAll, WriteReport, ExitWithout, Exits
<1>6. CASE RunnerStep \/ StressCheck \/ StressRun \/ StressAsserted \/ Exited \/ UNCHANGED programVars
  BY <1>2, <1>6 DEF RunnerStep, StressCheck, StressRun, StressAsserted, Exited, programVars, scanVars
<1> QED
  BY <1>4, <1>5, <1>6 DEF ProgramNext

\* The phases that run are those of the last argument that selects any, less
\* what later --skip= arguments name, and -b and -m are both taken only with an
\* --only= or a --skip= between them: for every command line of any length.
THEOREM SelectionIsExact == ProgramSpec => []SelectionExact
<1>1. ProgramInit => SelectionInv
  <2>1. SUFFICES ASSUME ProgramInit PROVE SelectionInv
    OBVIOUS
  <2>2. given = <<>> /\ settings.phases = DefaultPhases
    BY <2>1 DEF ProgramInit, ScanInit, Defaults
  <2>3. SelectedBy(given) = {}
    BY <2>2 DEF SelectedBy
  <2>4. LastSelection(given) = 0
    BY <2>3 DEF LastSelection
  <2>5. SkippedBy(given) = {}
    BY <2>2, <2>4 DEF SkippedBy
  <2>6. PhasesOf(given) = DefaultPhases
    BY <2>3, <2>5 DEF PhasesOf
  <2>7. Placed(given)
    BY <2>2, <2>3, <2>4 DEF Placed
  <2>8. (\A kind : ~Alone(given, kind)) /\ Apart(given)
    BY <2>2 DEF Alone, Apart
  <2> QED
    BY <2>2, <2>6, <2>7, <2>8 DEF SelectionInv
<1>2. ProgramInv /\ SelectionInv /\ [ProgramNext]_programVars => SelectionInv'
  BY SelectionNext
<1>3. ProgramInv /\ SelectionInv => SelectionExact
  <2>1. SUFFICES ASSUME ProgramInv, SelectionInv, stage = "scan" PROVE SelectionExact
    BY DEF SelectionExact
  <2>2. Placed(given) /\ settings.phases = PhasesOf(given) /\ Apart(given)
    BY <2>1 DEF SelectionInv
  <2>3. PICK at, from : at = SelectedBy(given) /\ from = LastSelection(given)
    OBVIOUS
  <2>4. at = {i \in DOMAIN given : Selects(given[i])} /\ from = IF at = {} THEN 0 ELSE Max(at)
    BY <2>3 DEF SelectedBy, LastSelection
  <2>5. PICK skipped : skipped = {i \in from + 1..Len(given) : given[i].is = "phases"}
    OBVIOUS
  <2>6. settings.phases = (IF at = {} THEN DefaultPhases ELSE Selection(given[from]))
                             \ UNION {given[i].names : i \in skipped}
    BY <2>2, <2>3, <2>5 DEF PhasesOf, SkippedBy
  <2> QED
    BY <2>2, <2>4, <2>5, <2>6 DEF SelectionExact, Apart
<1> QED
  BY <1>1, <1>2, <1>3, ProgramInvariant, PTL DEF ProgramSpec

-----------------------------------------------------------------------------
(* The options that the command line gives values to. *)

UsesOf(args, at) ==
  {i \in DOMAIN args : /\ args[i].is = "option" /\ args[i].group = Registry[at[1]].name
                       /\ args[i].key = Option(at).key}

\* No two groups have one name, and no two options of a group one key.
Distinct ==
  /\ \A g, h \in DOMAIN Registry : Registry[g].name = Registry[h].name => g = h
  /\ \A g \in DOMAIN Registry : \A i, j \in DOMAIN Registry[g].options :
       Registry[g].options[i].key = Registry[g].options[j].key => i = j

\* Every option is what the arguments make of it.
OptionsFrom(args) ==
  \A at \in Options :
    LET uses == UsesOf(args, at)
    IN /\ at \in optionSet <=> uses # {}
       /\ uses # {} => Max(uses) \in DOMAIN args
       /\ IF uses = {} THEN optionValue[at] = Option(at).default
          ELSE optionValue[at] \in Assigned(Option(at), args[Max(uses)])

OptionsInv ==
  verdict # "run" => OptionsFrom(IF verdict = "rejected" THEN Front(given) ELSE given)

\* What findOption finds is the option of that name, and the only one.
LEMMA FoundIsNamed ==
  ASSUME Distinct, NEW arg, NEW at \in findOption(arg), NEW b \in Options
  PROVE  /\ at \in Options
         /\ Registry[b[1]].name = arg.group /\ Option(b).key = arg.key <=> b = at
<1>1. \A S : First(S) \subseteq S
  BY DEF First
<1> DEFINE named == {g \in DOMAIN Registry : Registry[g].name = arg.group}
           keyed(g) == {j \in DOMAIN Registry[g].options : Registry[g].options[j].key = arg.key}
<1>2. PICK g \in First(named) : at \in {<<g, i>> : i \in First(keyed(g))}
  BY DEF findOption
<1>3. PICK i \in First(keyed(g)) : at = <<g, i>>
  BY <1>2
<1>4. First(named) \subseteq named /\ First(keyed(g)) \subseteq keyed(g)
  BY <1>1
<1>5. /\ g \in DOMAIN Registry /\ Registry[g].name = arg.group
      /\ i \in DOMAIN Registry[g].options /\ Registry[g].options[i].key = arg.key
  BY <1>2, <1>3, <1>4
<1>6. PICK h \in DOMAIN Registry : b \in {<<h, k>> : k \in DOMAIN Registry[h].options}
  BY DEF Options
<1>7. PICK j \in DOMAIN Registry[h].options : b = <<h, j>>
  BY <1>6
<1> HIDE DEF named, keyed
<1>8. /\ b[1] = h /\ Option(b) = Registry[h].options[j]
      /\ at[1] = g /\ Option(at) = Registry[g].options[i]
  BY <1>3, <1>7 DEF Option
<1>9. at \in Options
  BY <1>3, <1>5 DEF Options
<1>10. ASSUME Registry[b[1]].name = arg.group, Option(b).key = arg.key
       PROVE  b = at
  <2>1. h = g
    BY <1>5, <1>8, <1>10 DEF Distinct
  <2>2. i = j
    BY <1>5, <1>8, <1>10, <2>1 DEF Distinct
  <2> QED
    BY <1>3, <1>7, <2>1, <2>2
<1>11. ASSUME b = at
       PROVE  Registry[b[1]].name = arg.group /\ Option(b).key = arg.key
  BY <1>5, <1>8, <1>11
<1> QED
  BY <1>9, <1>10, <1>11

LEMMA FrontOfMore ==
  ASSUME NEW S, NEW q \in Seq(S), NEW v \in S
  PROVE  Front(Append(q, v)) = q
<1>1. PICK t, n : t = Append(q, v) /\ n = Len(q)
  OBVIOUS
<1>2. n \in Nat /\ t \in Seq(S) /\ Len(t) = n + 1 /\ \A i \in 1..n : t[i] = q[i]
  BY <1>1
<1>3. Front(t) = SubSeq(t, 1, n)
  <2>1. (n + 1) - 1 = n
    BY <1>2
  <2> QED
    BY <1>2, <2>1 DEF Front
<1>4. SubSeq(t, 1, n) = [i \in 1..n |-> t[i]]
  BY <1>2
<1>5. q = [i \in 1..n |-> q[i]]
  BY <1>1
<1> QED
  BY <1>1, <1>2, <1>3, <1>4, <1>5

\* One more argument is one more use of the option it spells out, and of none
\* other.
LEMMA UsesOfMore ==
  ASSUME NEW q \in Seq(Arguments), NEW arg \in Arguments, NEW at
  PROVE  LET t == Append(q, arg)
             n == Len(q) + 1
             used == arg.is = "option" /\ arg.group = Registry[at[1]].name /\ arg.key = Option(at).key
         IN /\ n \in DOMAIN t /\ t[n] = arg /\ \A i \in DOMAIN q : i \in DOMAIN t /\ t[i] = q[i]
            /\ used => UsesOf(t, at) # {} /\ Max(UsesOf(t, at)) = n
            /\ ~used => UsesOf(t, at) = UsesOf(q, at)
<1>1. PICK t, n, a, b : t = Append(q, arg) /\ n = Len(q) + 1 /\ a = UsesOf(q, at) /\ b = UsesOf(t, at)
  OBVIOUS
<1>2. /\ n \in Nat \ {0} /\ DOMAIN q = 1..n - 1 /\ DOMAIN t = 1..n
      /\ t[n] = arg /\ \A i \in 1..n - 1 : t[i] = q[i]
  BY <1>1
<1>3. \A i : i \in 1..n <=> i \in 1..n - 1 \/ i = n
  BY <1>2
<1>4. a \subseteq 1..n - 1
  BY <1>1, <1>2 DEF UsesOf
<1>5. PICK used \in BOOLEAN :
        used <=> arg.is = "option" /\ arg.group = Registry[at[1]].name /\ arg.key = Option(at).key
  OBVIOUS
<1>6. b = IF used THEN a \union {n} ELSE a
  BY <1>1, <1>2, <1>3, <1>5 DEF UsesOf
<1>7. used => b # {} /\ Max(b) = n
  <2>1. SUFFICES ASSUME used PROVE b # {} /\ Max(b) = n
    OBVIOUS
  <2>2. b = a \union {n}
    BY <1>6, <2>1
  <2>3. \A y \in b : n >= y
    BY <1>2, <1>4, <2>2
  <2>4. \A x \in b : (\A y \in b : x >= y) => x = n
    BY <1>2, <1>4, <2>2
  <2> QED
    BY <2>2, <2>3, <2>4 DEF Max
<1>8. ~used => b = a
  BY <1>6
<1>9. n \in DOMAIN t /\ t[n] = arg /\ \A i \in DOMAIN q : i \in DOMAIN t /\ t[i] = q[i]
  BY <1>2, <1>3
<1> QED
  BY <1>1, <1>5, <1>7, <1>8, <1>9

LEMMA OptionsNext ==
  ASSUME Distinct, ProgramInv, OptionsInv, [ProgramNext]_programVars
  PROVE  OptionsInv'
<1>1. ScanInv /\ Staged /\ given \in Seq(Arguments) /\ DOMAIN optionValue = Options
  BY DEF ProgramInv, ScanInv, ScanTypes
<1>2. CASE ScanArgument
  <2>1. stage = "scan"
    BY <1>2 DEF ScanArgument, Scan, AppliesOption, RejectsOption, AcceptsArgument,
         RejectsArgument, ListsOrHelps, NothingToRun, MayRead
  <2>2. verdict = "none" /\ OptionsFrom(given)
    BY <1>1, <2>1 DEF Staged, OptionsInv
  <2>3. CASE ListsOrHelps \/ NothingToRun
    <3>1. /\ verdict' \in {"told", "empty"}
          /\ UNCHANGED <<given, optionValue, optionSet>>
      BY <2>3 DEF ListsOrHelps, NothingToRun
    <3> QED
      BY <2>2, <3>1 DEF OptionsInv, OptionsFrom
  <2>4. ASSUME NEW arg \in Arguments, RejectsOption(arg) \/ RejectsArgument(arg)
        PROVE  OptionsInv'
    <3>1. /\ verdict' = "rejected" /\ given' = Append(given, arg)
          /\ UNCHANGED <<optionValue, optionSet>>
      BY <2>4 DEF RejectsOption, RejectsArgument, MayRead
    <3>2. PICK t : t = given'
      OBVIOUS
    <3>3. Front(t) = given
      BY <1>1, <3>1, <3>2, FrontOfMore
    <3>4. (IF verdict = "rejected" THEN Front(given) ELSE given)' = given
      BY <3>1, <3>2, <3>3
    <3> QED
      BY <2>2, <3>1, <3>4 DEF OptionsInv, OptionsFrom
  <2>5. ASSUME NEW arg \in Arguments, given' = Append(given, arg), verdict' = verdict,
               OptionsFrom(given)'
        PROVE  OptionsInv'
    BY <2>2, <2>5 DEF OptionsInv
  <2>6. ASSUME NEW arg \in Arguments, AcceptsArgument(arg)
        PROVE  OptionsInv'
    <3>1. /\ given' = Append(given, arg) /\ verdict' = verdict /\ arg.is # "option"
          /\ UNCHANGED <<optionValue, optionSet>>
      BY <2>6 DEF AcceptsArgument, MayRead
    <3>2. PICK t : t = Append(given, arg)
      OBVIOUS
    <3>3. ASSUME NEW at \in Options
          PROVE  /\ UsesOf(t, at) = UsesOf(given, at)
                 /\ \A i \in DOMAIN given : i \in DOMAIN t /\ t[i] = given[i]
      BY <1>1, <3>1, <3>2, UsesOfMore
    <3>4. OptionsFrom(t)
      BY <2>2, <3>3 DEF OptionsFrom
    <3>5. OptionsFrom(given)'
      BY <3>1, <3>2, <3>4 DEF OptionsFrom
    <3> QED
      BY <2>5, <3>1, <3>5
  <2>7. ASSUME NEW arg \in Arguments, AppliesOption(arg)
        PROVE  OptionsInv'
    <3>1. /\ given' = Append(given, arg) /\ verdict' = verdict /\ arg.is = "option"
          /\ \E at \in findOption(arg) : \E value \in Assigned(Option(at), arg) :
               /\ optionValue' = [optionValue EXCEPT ![at] = value]
               /\ optionSet' = optionSet \union {at}
      BY <2>7 DEF AppliesOption, MayRead
    <3>2. PICK at \in findOption(arg) : \E value \in Assigned(Option(at), arg) :
            /\ optionValue' = [optionValue EXCEPT ![at] = value]
            /\ optionSet' = optionSet \union {at}
      BY <3>1
    <3>3. PICK value \in Assigned(Option(at), arg) :
            /\ optionValue' = [optionValue EXCEPT ![at] = value]
            /\ optionSet' = optionSet \union {at}
      BY <3>2
    <3>4. PICK t, n, v, s : t = Append(given, arg) /\ n = Len(given) + 1 /\ v = optionValue' /\ s = optionSet'
      OBVIOUS
    <3>5. ASSUME NEW b \in Options
          PROVE  LET uses == UsesOf(t, b)
                 IN /\ b \in s <=> uses # {}
                    /\ uses # {} => Max(uses) \in DOMAIN t
                    /\ IF uses = {} THEN v[b] = Option(b).default
                       ELSE v[b] \in Assigned(Option(b), t[Max(uses)])
      <4>1. /\ at \in Options
            /\ Registry[b[1]].name = arg.group /\ Option(b).key = arg.key <=> b = at
        BY FoundIsNamed
      <4>2. /\ n \in DOMAIN t /\ t[n] = arg /\ \A i \in DOMAIN given : i \in DOMAIN t /\ t[i] = given[i]
            /\ b = at => UsesOf(t, b) # {} /\ Max(UsesOf(t, b)) = n
            /\ b # at => UsesOf(t, b) = UsesOf(given, b)
        BY <1>1, <3>1, <3>4, <4>1, UsesOfMore
      <4>3. v = [optionValue EXCEPT ![at] = value] /\ s = optionSet \union {at}
        BY <3>3, <3>4
      <4>4. CASE b = at
        BY <1>1, <4>1, <4>2, <4>3, <4>4
      <4>5. CASE b # at
        <5>1. v[b] = optionValue[b] /\ (b \in s <=> b \in optionSet)
          BY <1>1, <4>3, <4>5
        <5> QED
          BY <2>2, <4>2, <4>5, <5>1 DEF OptionsFrom
      <4> QED
        BY <4>4, <4>5
    <3>6. OptionsFrom(given)'
      BY <3>1, <3>4, <3>5 DEF OptionsFrom
    <3> QED
      BY <2>5, <3>1, <3>6
  <2> QED
    BY <1>2, <2>3, <2>4, <2>6, <2>7 DEF ScanArgument, Scan
<1>3. CASE CallTestAll
  BY <1>3 DEF CallTestAll, OptionsInv
<1>4. CASE \/ RunnerStep \/ StressCheck \/ StressRun \/ StressAsserted
           \/ WriteReport \/ ExitWithout \/ Exited \/ UNCHANGED programVars
  <2>1. UNCHANGED <<given, verdict, optionValue, optionSet>>
    BY <1>4 DEF RunnerStep, StressCheck, StressRun, StressAsserted, WriteReport, ExitWithout, Exited,
         programVars, scanVars
  <2> QED
    BY <2>1 DEF OptionsInv, OptionsFrom
<1> QED
  BY <1>2, <1>3, <1>4 DEF ProgramNext

\* Every option has the value of the last argument that spells it out, or its
\* default, and a rejected argument leaves all of them as they were: for every
\* registry without two options of one name, and every command line.
THEOREM OptionsAreExact ==
  ASSUME Distinct
  PROVE  ProgramSpec => []OptionsExact
<1>1. ProgramInit => OptionsInv
  <2>1. SUFFICES ASSUME ProgramInit PROVE OptionsInv
    OBVIOUS
  <2>2. /\ given = <<>> /\ verdict = "none" /\ optionSet = {}
        /\ optionValue = [at \in Options |-> Option(at).default]
    BY <2>1 DEF ProgramInit, ScanInit
  <2>3. \A at : UsesOf(given, at) = {}
    BY <2>2 DEF UsesOf
  <2> QED
    BY <2>2, <2>3 DEF OptionsInv, OptionsFrom
<1>2. ProgramInv /\ OptionsInv /\ [ProgramNext]_programVars => OptionsInv'
  BY OptionsNext
<1>3. OptionsInv => OptionsExact
  BY DEF OptionsInv, OptionsFrom, OptionsExact, UsesOf
<1> QED
  BY <1>1, <1>2, <1>3, ProgramInvariant, PTL DEF ProgramSpec


-----------------------------------------------------------------------------
(* Where the lines and the memory reports of a case are. *)

\* The lines of every group in log_lst, and their memory reports.
LogsOf(obj) == [i \in DOMAIN obj.log_lst |-> obj.log_lst[i].logs]

ReportsOf(obj) == [i \in DOMAIN obj.log_lst |-> obj.log_lst[i].memory]

\* Three lists hold the elements of a set between them, none of them twice when
\* there are n of them.
Hold(p, t, g, X, n) ==
  /\ Range(p) \union Range(t) \union Range(g) = X
  /\ Len(p) + Len(t) + Len(g) = n

\* The lines of f failures and t time measurements.
LinesOf(f, t) == 1..f \union {-n : n \in 1..t}

\* A test case that has seen f failures, t time measurements and m reports.
Kept(obj, f, t, m) ==
  /\ \A i, j \in DOMAIN obj.log_lst : obj.log_lst[i].id = obj.log_lst[j].id => i = j
  /\ Hold(obj.printed, obj.temp.logs, FlattenSeq(LogsOf(obj)), LinesOf(f, t), f + t)
  /\ obj.temp.memory = <<>>
  /\ Hold(obj.rows, <<>>, FlattenSeq(ReportsOf(obj)), 1..m, m)
  /\ Range(obj.root.memory) = 1..m /\ Len(obj.root.memory) = m

\* Append adds one element and nothing else.
LEMMA AppendRange ==
  ASSUME NEW S, NEW s \in Seq(S), NEW x \in S
  PROVE  /\ Append(s, x) \in Seq(S) /\ Len(Append(s, x)) = Len(s) + 1
         /\ Range(Append(s, x)) = Range(s) \union {x}
<1>1. PICK t, n : t = Append(s, x) /\ n = Len(s)
  OBVIOUS
<1>2. /\ t \in Seq(S) /\ Len(t) = n + 1 /\ n \in Nat /\ DOMAIN s = 1..n /\ DOMAIN t = 1..n + 1
      /\ t[n + 1] = x /\ \A i \in 1..n : t[i] = s[i]
  BY <1>1
<1>3. PICK k : k = n + 1
  OBVIOUS
<1>4. /\ k \in DOMAIN t /\ \A i \in DOMAIN t : i \in DOMAIN s \/ i = k
      /\ \A i \in DOMAIN s : i \in DOMAIN t /\ t[i] = s[i]
  BY <1>2, <1>3
<1>5. Range(t) = Range(s) \union {t[k]}
  BY <1>4, RangeOfMore
<1> QED
  BY <1>1, <1>2, <1>3, <1>5

\* One summand is one more.
OneUp(l, m, D, k) ==
  /\ IsFiniteSet(D) /\ k \in D /\ m[k] = l[k] + 1
  /\ \A i \in D : l[i] \in Int /\ (i # k => m[i] = l[i])

LEMMA OneLonger ==
  ASSUME NEW l, NEW m, NEW D, NEW k, OneUp(l, m, D, k)
  PROVE  SumFunctionOnSet(m, D) = SumFunctionOnSet(l, D) + 1
<1>1. /\ IsFiniteSet(D) /\ k \in D /\ m[k] = l[k] + 1
      /\ \A i \in D : l[i] \in Int
      /\ \A i \in D \ {k} : m[i] = l[i]
  BY DEF OneUp
<1> QED
  BY <1>1, SumGrows

\* One of the sequences gets one element more.
GetsOne(q, r, k, x) ==
  /\ DOMAIN r = DOMAIN q /\ k \in DOMAIN q
  /\ \A i \in DOMAIN q : r[i] = IF i = k THEN Append(q[i], x) ELSE q[i]

\* Then the sequence made of all of them does.
LEMMA FlattenMore ==
  ASSUME NEW S, NEW q \in Seq(Seq(S)), NEW r \in Seq(Seq(S)), NEW k, NEW x \in S,
         GetsOne(q, r, k, x)
  PROVE  /\ Range(FlattenSeq(r)) = Range(FlattenSeq(q)) \union {x}
         /\ Len(FlattenSeq(r)) = Len(FlattenSeq(q)) + 1
<1>0. /\ DOMAIN r = DOMAIN q /\ k \in DOMAIN q /\ r[k] = Append(q[k], x)
      /\ \A i \in DOMAIN q \ {k} : r[i] = q[i]
  BY DEF GetsOne
<1>1. PICK D : D = DOMAIN q /\ k \in D /\ DOMAIN r = D
  BY <1>0
<1>2. \A i \in D : q[i] \in Seq(S)
  BY <1>1
<1>3. Range(r[k]) = Range(q[k]) \union {x} /\ Len(r[k]) = Len(q[k]) + 1
  <2>1. q[k] \in Seq(S)
    BY <1>1, <1>2
  <2> QED
    BY <1>0, <2>1, AppendRange
<1>4. PICK l, m : l = [i \in D |-> Len(q[i])] /\ m = [i \in D |-> Len(r[i])]
  OBVIOUS
<1>5. IsFiniteSet(D)
  <2>1. Len(q) \in Nat /\ D = 1..Len(q)
    BY <1>1
  <2>2. PICK n : n = Len(q)
    OBVIOUS
  <2>3. n \in Int /\ D = 1..n
    BY <2>1, <2>2
  <2> QED
    BY <2>3, FS_Interval
<1>6. \A i \in D : l[i] \in Int
  <2>1. ASSUME NEW i \in D PROVE l[i] \in Int
    <3>1. Len(q[i]) \in Int
      <4>1. q[i] \in Seq(S)
        BY <1>2
      <4> QED
        BY <4>1
    <3> QED
      BY <1>4, <3>1
  <2> QED
    BY <2>1
<1>7. m[k] = l[k] + 1 /\ \A i \in D \ {k} : m[i] = l[i]
  BY <1>0, <1>1, <1>3, <1>4
<1>8. SumFunctionOnSet(m, D) = SumFunctionOnSet(l, D) + 1
  <2>1. OneUp(l, m, D, k)
    BY <1>1, <1>5, <1>6, <1>7 DEF OneUp
  <2> QED
    BY <2>1, OneLonger
<1>9. /\ Len(FlattenSeq(q)) = SumFunctionOnSet(l, D) /\ Len(FlattenSeq(r)) = SumFunctionOnSet(m, D)
      /\ Range(FlattenSeq(q)) = UNION {Range(q[i]) : i \in D}
      /\ Range(FlattenSeq(r)) = UNION {Range(r[i]) : i \in D}
  <2>1. \A i \in D : l[i] = Len(q[i]) /\ m[i] = Len(r[i])
    BY <1>4
  <2>2. \A i \in DOMAIN q : l[i] = Len(q[i])
    BY <1>1, <2>1
  <2>3. \A i \in DOMAIN r : m[i] = Len(r[i])
    BY <1>1, <2>1
  <2>4. Len(FlattenSeq(q)) = SumFunctionOnSet(l, DOMAIN q)
    BY <2>2, FlattenLength
  <2>5. Len(FlattenSeq(r)) = SumFunctionOnSet(m, DOMAIN r)
    BY <2>3, FlattenLength
  <2> QED
    BY <1>1, <2>4, <2>5, FlattenFacts
<1>10. UNION {Range(r[i]) : i \in D} = (UNION {Range(q[i]) : i \in D}) \union {x}
  <2>1. \A i \in D : Range(r[i]) = IF i = k THEN Range(q[i]) \union {x} ELSE Range(q[i])
    BY <1>0, <1>1, <1>3
  <2>2. PICK A, B : A = [i \in D |-> Range(q[i])] /\ B = [i \in D |-> Range(r[i])]
    OBVIOUS
  <2>3. \A i \in D : B[i] = IF i = k THEN A[i] \union {x} ELSE A[i]
    BY <2>1, <2>2
  <2>4. UNION {B[i] : i \in D} = (UNION {A[i] : i \in D}) \union {x}
    <3>1. k \in D
      BY <1>1
    <3>2. \A i \in D : A[i] \subseteq B[i] /\ B[i] \subseteq A[i] \union {x}
      BY <2>3
    <3>3. x \in B[k]
      BY <2>3, <3>1
    <3> QED
      BY <3>1, <3>2, <3>3
  <2>5. {B[i] : i \in D} = {Range(r[i]) : i \in D} /\ {A[i] : i \in D} = {Range(q[i]) : i \in D}
    BY <2>2
  <2> QED
    BY <2>4, <2>5
<1> QED
  BY <1>8, <1>9, <1>10

\* An empty sequence behind the others changes nothing.
LEMMA FlattenSame ==
  ASSUME NEW S, NEW q \in Seq(Seq(S)), NEW r \in Seq(Seq(S)),
         DOMAIN r = DOMAIN q \union {Len(q) + 1}, r[Len(q) + 1] = <<>>,
         \A i \in DOMAIN q : r[i] = q[i]
  PROVE  /\ Range(FlattenSeq(r)) = Range(FlattenSeq(q))
         /\ Len(FlattenSeq(r)) = Len(FlattenSeq(q))
<1>1. PICK D, n, k : D = DOMAIN q /\ n = Len(q) /\ k = n + 1
  OBVIOUS
<1>2. n \in Nat /\ D = 1..n /\ k \notin D /\ DOMAIN r = D \union {k} /\ r[k] = <<>>
  BY <1>1
<1>3. PICK l : l = [i \in D \union {k} |-> Len(r[i])]
  OBVIOUS
<1>4. \A i \in D : r[i] = q[i] /\ q[i] \in Seq(S)
  BY <1>1
<1>5. \A i \in D \union {k} : l[i] \in Int
  <2>1. ASSUME NEW i \in D PROVE l[i] \in Int
    <3>1. Len(q[i]) \in Int
      <4>1. q[i] \in Seq(S)
        BY <1>4
      <4> QED
        BY <4>1
    <3> QED
      BY <1>3, <1>4, <3>1
  <2>2. l[k] = 0
    <3>1. l[k] = Len(r[k])
      BY <1>3
    <3> QED
      BY <1>2, <3>1
  <2> QED
    BY <2>1, <2>2
<1>6. l[k] = 0
  <2>1. l[k] = Len(r[k])
    BY <1>3
  <2> QED
    BY <1>2, <2>1
<1>7. IsFiniteSet(D)
  <2>1. n \in Int
    BY <1>2
  <2> QED
    BY <1>2, <2>1, FS_Interval
<1>8. SumFunctionOnSet(l, D \union {k}) = l[k] + SumFunctionOnSet(l, D)
  BY <1>2, <1>5, <1>7, SumWith
<1>9. SumFunctionOnSet(l, D) \in Int
  BY <1>5, <1>7, SumType
<1>10. Len(FlattenSeq(q)) = SumFunctionOnSet(l, D)
  <2>1. \A i \in DOMAIN q : l[i] = Len(q[i])
    BY <1>1, <1>3, <1>4
  <2> QED
    BY <1>1, <2>1, FlattenLength
<1>11. Len(FlattenSeq(r)) = SumFunctionOnSet(l, D \union {k})
  <2>1. \A i \in DOMAIN r : l[i] = Len(r[i])
    BY <1>2, <1>3
  <2>2. Len(FlattenSeq(r)) = SumFunctionOnSet(l, DOMAIN r)
    BY <2>1, FlattenLength
  <2> QED
    BY <1>2, <2>2
<1>12. UNION {Range(r[i]) : i \in D \union {k}} = UNION {Range(q[i]) : i \in D}
  <2>1. Range(r[k]) = {}
    BY <1>2 DEF Range
  <2>2. PICK A : A = [i \in D \union {k} |-> Range(r[i])]
    OBVIOUS
  <2>3. /\ {Range(r[i]) : i \in D \union {k}} = {A[i] : i \in D \union {k}}
        /\ {Range(q[i]) : i \in D} = {A[i] : i \in D} /\ A[k] = {}
    BY <1>4, <2>1, <2>2
  <2>4. {A[i] : i \in D \union {k}} = {A[i] : i \in D} \union {A[k]}
    OBVIOUS
  <2> QED
    BY <2>3, <2>4
<1>13. /\ Range(FlattenSeq(q)) = UNION {Range(q[i]) : i \in D}
       /\ Range(FlattenSeq(r)) = UNION {Range(r[i]) : i \in D \union {k}}
  BY <1>1, <1>2, FlattenFacts
<1>14. PICK a, b, c : a = Len(FlattenSeq(q)) /\ b = Len(FlattenSeq(r)) /\ c = SumFunctionOnSet(l, D)
  OBVIOUS
<1>15. c \in Int /\ a = c /\ b = 0 + c
  BY <1>6, <1>8, <1>9, <1>10, <1>11, <1>14
<1>16. a = b
  BY <1>15
<1> QED
  BY <1>12, <1>13, <1>14, <1>16

\* The lines and reports of the groups are lists of lines and of reports.
LEMMA TextTypes ==
  ASSUME NEW obj, CaseOK(obj)
  PROVE  /\ obj.printed \in Seq(Int) /\ obj.temp.logs \in Seq(Int)
         /\ obj.rows \in Seq(Nat) /\ obj.root.memory \in Seq(Nat)
         /\ LogsOf(obj) \in Seq(Seq(Int)) /\ ReportsOf(obj) \in Seq(Seq(Nat))
         /\ DOMAIN LogsOf(obj) = DOMAIN obj.log_lst /\ Len(LogsOf(obj)) = Len(obj.log_lst)
         /\ DOMAIN ReportsOf(obj) = DOMAIN obj.log_lst /\ Len(ReportsOf(obj)) = Len(obj.log_lst)
         /\ \A i \in DOMAIN obj.log_lst : /\ LogsOf(obj)[i] = obj.log_lst[i].logs
                                          /\ ReportsOf(obj)[i] = obj.log_lst[i].memory
         /\ FlattenSeq(LogsOf(obj)) \in Seq(Int) /\ FlattenSeq(ReportsOf(obj)) \in Seq(Nat)
<1>1. PICK q, ll, rr : q = obj.log_lst /\ ll = LogsOf(obj) /\ rr = ReportsOf(obj)
  OBVIOUS
<1>2. /\ q \in Seq(Infos) /\ obj.printed \in Seq(Int) /\ obj.rows \in Seq(Nat)
      /\ obj.temp \in Infos /\ obj.root \in Infos
  BY <1>1 DEF CaseOK
<1>3. \A i \in DOMAIN q : q[i] \in Infos
  BY <1>2
<1>4. /\ ll = [i \in DOMAIN q |-> ll[i]] /\ rr = [i \in DOMAIN q |-> rr[i]]
      /\ \A i \in DOMAIN q : ll[i] = q[i].logs /\ rr[i] = q[i].memory
  BY <1>1 DEF LogsOf, ReportsOf
<1>5. \A i \in DOMAIN q : ll[i] \in Seq(Int) /\ rr[i] \in Seq(Nat)
  BY <1>3, <1>4 DEF Infos
<1>6. PICK I, N : I = Seq(Int) /\ N = Seq(Nat)
  OBVIOUS
<1>7. ll \in Seq(I) /\ Len(ll) = Len(q) /\ DOMAIN ll = DOMAIN q
  BY <1>2, <1>4, <1>5, <1>6, ListMapped
<1>8. rr \in Seq(N) /\ Len(rr) = Len(q) /\ DOMAIN rr = DOMAIN q
  BY <1>2, <1>4, <1>5, <1>6, ListMapped
<1>9. ll \in Seq(Seq(Int)) /\ rr \in Seq(Seq(Nat))
  BY <1>6, <1>7, <1>8
<1>10. FlattenSeq(ll) \in Seq(Int) /\ FlattenSeq(rr) \in Seq(Nat)
  BY <1>9, FlattenFacts
<1>11. obj.temp.logs \in Seq(Int) /\ obj.root.memory \in Seq(Nat)
  BY <1>2 DEF Infos
<1> QED
  BY <1>1, <1>2, <1>4, <1>7, <1>8, <1>9, <1>10, <1>11

\* One more failure, or one more time measurement.
LEMMA OneMoreLine ==
  ASSUME NEW f \in Nat, NEW t \in Nat
  PROVE  /\ LinesOf(f + 1, t) = LinesOf(f, t) \union {f + 1}
         /\ LinesOf(f, t + 1) = LinesOf(f, t) \union {-(t + 1)}
<1>1. 1..f + 1 = (1..f) \union {f + 1} /\ 1..t + 1 = (1..t) \union {t + 1}
  OBVIOUS
<1>2. {-n : n \in 1..t + 1} = {-n : n \in 1..t} \union {-(t + 1)}
  BY <1>1
<1> QED
  BY <1>1, <1>2 DEF LinesOf

\* One of the three lists gets one element more.
LEMMA HoldMore ==
  ASSUME NEW S, NEW p \in Seq(S), NEW t \in Seq(S), NEW g \in Seq(S), NEW X, NEW n,
         Hold(p, t, g, X, n), NEW x \in S
  PROVE  /\ Hold(p, Append(t, x), g, X \union {x}, n + 1)
         /\ \A h \in Seq(S) : Range(h) = Range(g) \union {x} /\ Len(h) = Len(g) + 1
                                => Hold(p, t, h, X \union {x}, n + 1)
<1>1. Len(p) \in Nat /\ Len(t) \in Nat /\ Len(g) \in Nat
  OBVIOUS
<1>2. PICK i, j, k : i = Len(p) /\ j = Len(t) /\ k = Len(g)
  OBVIOUS
<1>3. i \in Nat /\ j \in Nat /\ k \in Nat /\ n = i + j + k
  BY <1>1, <1>2 DEF Hold
<1>4. i + (j + 1) + k = n + 1 /\ i + j + (k + 1) = n + 1
  BY <1>3
<1>5. Hold(p, Append(t, x), g, X \union {x}, n + 1)
  <2>1. Range(Append(t, x)) = Range(t) \union {x} /\ Len(Append(t, x)) = j + 1
    BY <1>2, AppendRange
  <2>2. Range(p) \union Range(t) \union Range(g) = X
    BY DEF Hold
  <2>3. PICK A : A = Append(t, x)
    OBVIOUS
  <2>4. Range(p) \union Range(A) \union Range(g) = X \union {x} /\ Len(A) = j + 1
    BY <2>1, <2>2, <2>3
  <2>5. Len(p) + Len(A) + Len(g) = n + 1
    BY <1>2, <1>4, <2>4
  <2> QED
    BY <2>3, <2>4, <2>5 DEF Hold
<1>6. ASSUME NEW h \in Seq(S), Range(h) = Range(g) \union {x}, Len(h) = Len(g) + 1
      PROVE  Hold(p, t, h, X \union {x}, n + 1)
  <2>1. Len(p) + Len(t) + Len(h) = n + 1
    BY <1>2, <1>4, <1>6
  <2>2. Range(p) \union Range(t) \union Range(g) = X
    BY DEF Hold
  <2> QED
    BY <1>6, <2>1, <2>2 DEF Hold
<1> QED
  BY <1>5, <1>6

\* The first of the three takes what another one has.
LEMMA HoldMoved ==
  ASSUME NEW S, NEW p \in Seq(S), NEW t \in Seq(S), NEW g \in Seq(S), NEW X, NEW n,
         Hold(p, t, g, X, n)
  PROVE  Hold(p \o t, <<>>, g, X, n) /\ Hold(p \o g, t, <<>>, X, n)
<1>1. PICK i, j, k : i = Len(p) /\ j = Len(t) /\ k = Len(g)
  OBVIOUS
<1>2. i \in Nat /\ j \in Nat /\ k \in Nat /\ n = i + j + k
  <2>1. Len(p) \in Nat /\ Len(t) \in Nat /\ Len(g) \in Nat
    OBVIOUS
  <2> QED
    BY <1>1, <2>1 DEF Hold
<1>3. PICK A, B : A = p \o t /\ B = p \o g
  OBVIOUS
<1>4. /\ Len(A) = i + j /\ Range(A) = Range(p) \union Range(t)
      /\ Len(B) = i + k /\ Range(B) = Range(p) \union Range(g)
  BY <1>1, <1>3, ConcatFacts
<1>5. PICK E : E = <<>>
  OBVIOUS
<1>6. Range(E) = {} /\ Len(E) = 0
  BY <1>5 DEF Range
<1>7. Range(p) \union Range(t) \union Range(g) = X
  BY DEF Hold
<1>8. Hold(A, E, g, X, n)
  <2>1. Len(A) + Len(E) + Len(g) = n
    BY <1>1, <1>2, <1>4, <1>6
  <2> QED
    BY <1>4, <1>6, <1>7, <2>1 DEF Hold
<1>9. Hold(B, t, E, X, n)
  <2>1. Len(B) + Len(t) + Len(E) = n
    BY <1>1, <1>2, <1>4, <1>6
  <2> QED
    BY <1>4, <1>6, <1>7, <2>1 DEF Hold
<1> QED
  BY <1>3, <1>5, <1>8, <1>9

\* Counting writes no line, logging records no report, and clearing loses no report.
LEMMA InfoTexts ==
  ASSUME NEW info \in Infos
  PROVE  /\ \A success : /\ Counted(info, success).logs = info.logs
                         /\ Counted(info, success).memory = info.memory
         /\ \A line : /\ Logged(info, line).logs = Append(info.logs, line)
                      /\ Logged(info, line).memory = info.memory
         /\ Cleared(info).logs = <<>> /\ Cleared(info).memory = info.memory
<1>1. info.logs \in Seq(Int) /\ info.memory \in Seq(Nat)
  BY DEF Infos
<1>2. ASSUME NEW success
      PROVE  /\ Counted(info, success).logs = info.logs
             /\ Counted(info, success).memory = info.memory
  BY DEF Counted, Infos
<1>3. ASSUME NEW line
      PROVE  /\ Logged(info, line).logs = Append(info.logs, line)
             /\ Logged(info, line).memory = info.memory
  BY DEF Logged, Infos
<1>4. Cleared(info).logs = <<>> /\ Cleared(info).memory = info.memory
  BY DEF Cleared, NoInfo
<1> QED
  BY <1>2, <1>3, <1>4

\* The lines and the reports stay where they are.
SameTexts(new, obj) ==
  /\ new.printed = obj.printed /\ new.rows = obj.rows
  /\ new.temp.logs = obj.temp.logs /\ new.temp.memory = obj.temp.memory
  /\ new.root.memory = obj.root.memory
  /\ DOMAIN new.log_lst = DOMAIN obj.log_lst
  /\ \A i \in DOMAIN obj.log_lst :
       /\ new.log_lst[i].id = obj.log_lst[i].id
       /\ new.log_lst[i].logs = obj.log_lst[i].logs
       /\ new.log_lst[i].memory = obj.log_lst[i].memory

\* Then everything is kept as it was.
LEMMA SameKept ==
  ASSUME NEW new, NEW obj, SameTexts(new, obj), NEW f, NEW t, NEW m, Kept(obj, f, t, m)
  PROVE  Kept(new, f, t, m)
<1>1. LogsOf(new) = LogsOf(obj) /\ ReportsOf(new) = ReportsOf(obj)
  BY DEF SameTexts, LogsOf, ReportsOf
<1>2. \A i, j \in DOMAIN new.log_lst : new.log_lst[i].id = new.log_lst[j].id => i = j
  BY DEF SameTexts, Kept
<1> QED
  BY <1>1, <1>2 DEF SameTexts, Kept

\* add_result writes nothing.
LEMMA ResultTexts ==
  ASSUME NEW obj, CaseOK(obj), NEW success \in BOOLEAN
  PROVE  LET new == AddResult(obj, success)
         IN SameTexts(new, obj) /\ new.totalRow = obj.totalRow
<1>1. PICK new, q, l, g : /\ new = AddResult(obj, success) /\ q = obj.log_lst
                          /\ l = new.log_lst /\ g = obj.group_lst
  OBVIOUS
<1>2. /\ obj.temp \in Infos /\ obj.root \in Infos /\ q \in Seq(Infos)
      /\ DOMAIN obj = Fields /\ obj = [f \in Fields |-> obj[f]]
  BY <1>1 DEF CaseOK
<1>3. \A i \in DOMAIN q : q[i] \in Infos
  BY <1>2
<1>4. /\ DOMAIN l = DOMAIN q
      /\ \A i \in DOMAIN q : l[i] = IF q[i].id \in Range(g) THEN Counted(q[i], success) ELSE q[i]
  BY <1>1, ResultAdded
<1>5. ASSUME NEW i \in DOMAIN q
      PROVE  l[i].id = q[i].id /\ l[i].logs = q[i].logs /\ l[i].memory = q[i].memory
  <2>1. PICK c : c = Counted(q[i], success)
    OBVIOUS
  <2>2. c.id = q[i].id /\ c.logs = q[i].logs /\ c.memory = q[i].memory
    BY <1>3, <2>1, InfoTexts, InfoFacts
  <2> QED
    BY <1>4, <2>1, <2>2
<1>6. /\ new.root = Counted(obj.root, success)
      /\ new.temp = (IF g # <<>> THEN obj.temp ELSE Counted(obj.temp, success))
      /\ new.printed = obj.printed /\ new.rows = obj.rows /\ new.totalRow = obj.totalRow
  BY <1>1, <1>2 DEF AddResult, Fields
<1>7. /\ new.root.memory = obj.root.memory
      /\ new.temp.logs = obj.temp.logs /\ new.temp.memory = obj.temp.memory
  BY <1>2, <1>6, InfoTexts
<1> QED
  BY <1>1, <1>4, <1>5, <1>6, <1>7 DEF SameTexts

\* A line is written to m_temp.
LEMMA TempLogged ==
  ASSUME NEW obj, CaseOK(obj), NEW new, NEW line \in Int,
         new = [obj EXCEPT !.temp = Logged(@, line)]
  PROVE  /\ new.printed = obj.printed /\ new.rows = obj.rows /\ new.root = obj.root
         /\ new.log_lst = obj.log_lst /\ new.totalRow = obj.totalRow
         /\ new.temp.logs = Append(obj.temp.logs, line) /\ new.temp.memory = obj.temp.memory
<1>1. DOMAIN obj = Fields /\ obj.temp \in Infos
  BY DEF CaseOK
<1>2. /\ new.printed = obj.printed /\ new.rows = obj.rows /\ new.root = obj.root
      /\ new.log_lst = obj.log_lst /\ new.totalRow = obj.totalRow
      /\ new.temp = Logged(obj.temp, line)
  BY <1>1 DEF Fields
<1> QED
  BY <1>1, <1>2, InfoTexts

\* A line is written to one of the groups.
LoggedIn(new, obj, k, line) ==
  /\ new.printed = obj.printed /\ new.rows = obj.rows /\ new.root.memory = obj.root.memory
  /\ new.temp = obj.temp /\ DOMAIN new.log_lst = DOMAIN obj.log_lst /\ k \in DOMAIN obj.log_lst
  /\ \A i \in DOMAIN obj.log_lst :
       new.log_lst[i] = IF i = k THEN Logged(obj.log_lst[i], line) ELSE obj.log_lst[i]

\* A test case that is as Kept says, but for one line more.
KeptMore(new, line, f, t, m) ==
  /\ \A i, j \in DOMAIN new.log_lst : new.log_lst[i].id = new.log_lst[j].id => i = j
  /\ Hold(new.printed, new.temp.logs, FlattenSeq(LogsOf(new)), LinesOf(f, t) \union {line}, f + t + 1)
  /\ new.temp.memory = <<>>
  /\ Hold(new.rows, <<>>, FlattenSeq(ReportsOf(new)), 1..m, m)
  /\ Range(new.root.memory) = 1..m /\ Len(new.root.memory) = m

\* A line written to a group is held by one list, and nothing else is changed.
LEMMA GroupLogged ==
  ASSUME NEW obj, CaseOK(obj), NEW new, CaseOK(new), NEW k, NEW line \in Int,
         LoggedIn(new, obj, k, line), NEW f, NEW t, NEW m, Kept(obj, f, t, m)
  PROVE  KeptMore(new, line, f, t, m)
<1>0. /\ new.printed = obj.printed /\ new.rows = obj.rows /\ new.root.memory = obj.root.memory
      /\ new.temp = obj.temp /\ DOMAIN new.log_lst = DOMAIN obj.log_lst /\ k \in DOMAIN obj.log_lst
      /\ \A i \in DOMAIN obj.log_lst :
           new.log_lst[i] = IF i = k THEN Logged(obj.log_lst[i], line) ELSE obj.log_lst[i]
  BY DEF LoggedIn
<1>1. PICK q, l : q = obj.log_lst /\ l = new.log_lst
  OBVIOUS
<1>2. q \in Seq(Infos) /\ \A i \in DOMAIN q : q[i] \in Infos
  <2>1. q \in Seq(Infos)
    BY <1>1 DEF CaseOK
  <2> QED
    BY <2>1
<1>3. \A i \in DOMAIN q : /\ l[i].id = q[i].id /\ l[i].memory = q[i].memory
                          /\ l[i].logs = IF i = k THEN Append(q[i].logs, line) ELSE q[i].logs
  <2>1. ASSUME NEW i \in DOMAIN q
        PROVE  /\ l[i].id = q[i].id /\ l[i].memory = q[i].memory
               /\ l[i].logs = IF i = k THEN Append(q[i].logs, line) ELSE q[i].logs
    <3>1. PICK c : c = Logged(q[i], line)
      OBVIOUS
    <3>2. c.id = q[i].id /\ c.memory = q[i].memory /\ c.logs = Append(q[i].logs, line)
      <4>1. q[i] \in Infos
        BY <1>2
      <4>2. c.id = q[i].id
        BY <3>1, <4>1, InfoFacts
      <4> QED
        BY <3>1, <4>1, <4>2, InfoTexts
    <3> QED
      BY <1>0, <1>1, <3>1, <3>2
  <2> QED
    BY <2>1
<1>4. ReportsOf(new) = ReportsOf(obj)
  BY <1>0, <1>1, <1>3 DEF ReportsOf
<1>5. \A i, j \in DOMAIN l : l[i].id = l[j].id => i = j
  BY <1>0, <1>1, <1>3 DEF Kept
<1>6. PICK a, b : a = LogsOf(obj) /\ b = LogsOf(new)
  OBVIOUS
<1>7. /\ a \in Seq(Seq(Int)) /\ b \in Seq(Seq(Int)) /\ DOMAIN a = DOMAIN q /\ DOMAIN b = DOMAIN q
      /\ \A i \in DOMAIN q : a[i] = q[i].logs /\ b[i] = l[i].logs
      /\ FlattenSeq(a) \in Seq(Int) /\ FlattenSeq(b) \in Seq(Int)
      /\ obj.printed \in Seq(Int) /\ obj.temp.logs \in Seq(Int)
  BY <1>0, <1>1, <1>6, TextTypes
<1>8. k \in DOMAIN a /\ b[k] = Append(a[k], line) /\ \A i \in DOMAIN a \ {k} : b[i] = a[i]
  <2>1. k \in DOMAIN q /\ b[k] = l[k].logs /\ a[k] = q[k].logs
    BY <1>0, <1>1, <1>7
  <2>2. l[k].logs = Append(q[k].logs, line)
    BY <1>3, <2>1
  <2>3. \A i \in DOMAIN q \ {k} : b[i] = l[i].logs /\ a[i] = q[i].logs /\ l[i].logs = q[i].logs
    BY <1>3, <1>7
  <2> QED
    BY <1>7, <2>1, <2>2, <2>3
<1>9. /\ Range(FlattenSeq(b)) = Range(FlattenSeq(a)) \union {line}
      /\ Len(FlattenSeq(b)) = Len(FlattenSeq(a)) + 1
  <2>1. PICK I : I = Int
    OBVIOUS
  <2>2. a \in Seq(Seq(I)) /\ b \in Seq(Seq(I)) /\ line \in I /\ DOMAIN b = DOMAIN a
    BY <1>7, <2>1
  <2>3. GetsOne(a, b, k, line)
    BY <1>8, <2>2 DEF GetsOne
  <2> QED
    BY <2>2, <2>3, FlattenMore
<1>10. PICK A, B, X, n : A = FlattenSeq(a) /\ B = FlattenSeq(b) /\ X = LinesOf(f, t) /\ n = f + t
  OBVIOUS
<1>11. Hold(obj.printed, obj.temp.logs, A, X, n)
  BY <1>6, <1>10 DEF Kept
<1>12. Hold(obj.printed, obj.temp.logs, B, X \union {line}, n + 1)
  BY <1>7, <1>9, <1>10, <1>11, HoldMore
<1> QED
  BY <1>0, <1>1, <1>4, <1>5, <1>6, <1>10, <1>12 DEF Kept, KeptMore

\* A line more that is the line of the next failure, or of the next measurement.
LEMMA NextLine ==
  ASSUME NEW f \in Nat, NEW t \in Nat, NEW p, NEW q, NEW r
  PROVE  /\ Hold(p, q, r, LinesOf(f, t) \union {f + 1}, f + t + 1)
              => Hold(p, q, r, LinesOf(f + 1, t), (f + 1) + t)
         /\ Hold(p, q, r, LinesOf(f, t) \union {-(t + 1)}, f + t + 1)
              => Hold(p, q, r, LinesOf(f, t + 1), f + (t + 1))
<1>1. f + t + 1 = (f + 1) + t /\ f + t + 1 = f + (t + 1)
  OBVIOUS
<1> QED
  BY <1>1, OneMoreLine

\* The next line, written to m_temp.
LEMMA TempLineKept ==
  ASSUME NEW obj, CaseOK(obj), NEW new, NEW line \in Int,
         new = [obj EXCEPT !.temp = Logged(@, line)],
         NEW f \in Nat, NEW t \in Nat, NEW m, Kept(obj, f, t, m)
  PROVE  /\ line = f + 1 => Kept(new, f + 1, t, m)
         /\ line = -(t + 1) => Kept(new, f, t + 1, m)
<1>1. /\ new.printed = obj.printed /\ new.rows = obj.rows /\ new.root = obj.root
      /\ new.log_lst = obj.log_lst /\ new.totalRow = obj.totalRow
      /\ new.temp.logs = Append(obj.temp.logs, line) /\ new.temp.memory = obj.temp.memory
  BY TempLogged
<1>2. LogsOf(new) = LogsOf(obj) /\ ReportsOf(new) = ReportsOf(obj)
  BY <1>1 DEF LogsOf, ReportsOf
<1>3. PICK A, X, n, L : /\ A = FlattenSeq(LogsOf(obj)) /\ X = LinesOf(f, t) /\ n = f + t
                        /\ L = obj.temp.logs
  OBVIOUS
<1>4. Hold(obj.printed, L, A, X, n) /\ obj.printed \in Seq(Int) /\ L \in Seq(Int) /\ A \in Seq(Int)
  BY <1>3, TextTypes DEF Kept
<1>5. Hold(obj.printed, Append(L, line), A, X \union {line}, n + 1)
  BY <1>4, HoldMore
<1>6. Hold(new.printed, new.temp.logs, FlattenSeq(LogsOf(new)), LinesOf(f, t) \union {line}, f + t + 1)
  BY <1>1, <1>2, <1>3, <1>5
<1>7. /\ \A i, j \in DOMAIN new.log_lst : new.log_lst[i].id = new.log_lst[j].id => i = j
      /\ new.temp.memory = <<>>
      /\ Hold(new.rows, <<>>, FlattenSeq(ReportsOf(new)), 1..m, m)
      /\ Range(new.root.memory) = 1..m /\ Len(new.root.memory) = m
  BY <1>1, <1>2 DEF Kept
<1>8. CASE line = f + 1
  BY <1>6, <1>7, <1>8, NextLine DEF Kept
<1>9. CASE line = -(t + 1)
  BY <1>6, <1>7, <1>9, NextLine DEF Kept
<1> QED
  BY <1>8, <1>9

\* logconsole writes the next line, once.
LEMMA LogKept ==
  ASSUME NEW obj, CaseOK(obj), NEW f \in Nat, NEW t \in Nat, NEW m, Kept(obj, f, t, m)
  PROVE  Kept(AddLog(obj, f + 1), f + 1, t, m) /\ AddLog(obj, f + 1).totalRow = obj.totalRow
<1>1. PICK new, line : new = AddLog(obj, line) /\ line = f + 1 /\ line \in Int
  <2>1. f + 1 \in Int
    OBVIOUS
  <2> QED
    BY <2>1
<1>2. DOMAIN obj = Fields /\ obj = [x \in Fields |-> obj[x]] /\ obj.log_lst \in Seq(Infos)
  BY DEF CaseOK
<1>3. CASE obj.log_lst = <<>>
  <2>1. new = [obj EXCEPT !.temp = Logged(@, line)]
    BY <1>1, <1>3 DEF AddLog
  <2>2. new.totalRow = obj.totalRow
    BY <1>1, <2>1, TempLogged
  <2>3. Kept(new, f + 1, t, m)
    BY <1>1, <2>1, TempLineKept
  <2> QED
    BY <1>1, <2>2, <2>3
<1>4. CASE obj.log_lst # <<>>
  <2>1. PICK q, k, c : q = obj.log_lst /\ k = Len(q) /\ c = Logged(q[k], line)
    OBVIOUS
  <2>2. q \in Seq(Infos) /\ k \in DOMAIN q
    BY <1>2, <1>4, <2>1
  <2>3. new = [obj EXCEPT !.log_lst[k] = Logged(@, line)]
    BY <1>1, <1>4, <2>1 DEF AddLog
  <2>4. /\ new.log_lst = [q EXCEPT ![k] = c]
        /\ new.printed = obj.printed /\ new.rows = obj.rows /\ new.root = obj.root
        /\ new.temp = obj.temp /\ new.totalRow = obj.totalRow
    BY <1>2, <2>1, <2>3 DEF Fields
  <2>5. /\ DOMAIN new.log_lst = DOMAIN q
        /\ \A i \in DOMAIN q : new.log_lst[i] = IF i = k THEN Logged(q[i], line) ELSE q[i]
    BY <2>1, <2>2, <2>4
  <2>6. CaseOK(new)
    BY <1>1, LogAdded DEF SameResults
  <2>7. KeptMore(new, line, f, t, m)
    <3>1. LoggedIn(new, obj, k, line)
      BY <2>1, <2>2, <2>4, <2>5 DEF LoggedIn
    <3> QED
      BY <1>1, <2>6, <3>1, GroupLogged
  <2>8. Kept(new, f + 1, t, m)
    BY <1>1, <2>7, NextLine DEF Kept, KeptMore
  <2> QED
    BY <1>1, <2>4, <2>8
<1> QED
  BY <1>3, <1>4

\* A hook that fails writes the next line, once.
LEMMA HookKept ==
  ASSUME NEW obj, CaseOK(obj), NEW f \in Nat, NEW t \in Nat, NEW m, Kept(obj, f, t, m)
  PROVE  LET new == FixtureFailed(obj, f + 1)
         IN Kept(new, f + 1, t, m) /\ new.totalRow = obj.totalRow
<1>1. PICK new, c, line : /\ new = FixtureFailed(obj, line) /\ c = AddResult(obj, FALSE)
                          /\ line = f + 1 /\ line \in Int
  <2>1. f + 1 \in Int
    OBVIOUS
  <2> QED
    BY <2>1
<1>2. CaseOK(c) /\ SameTexts(c, obj) /\ c.totalRow = obj.totalRow
  <2>1. FALSE \in BOOLEAN
    OBVIOUS
  <2> QED
    BY <1>1, <2>1, ResultAdded, ResultTexts
<1>3. new = [c EXCEPT !.temp = Logged(@, line)]
  BY <1>1 DEF FixtureFailed
<1>4. Kept(c, f, t, m)
  BY <1>2, SameKept
<1>5. Kept(new, f + 1, t, m)
  BY <1>1, <1>2, <1>3, <1>4, TempLineKept
<1>6. new.totalRow = c.totalRow
  BY <1>1, <1>2, <1>3, TempLogged
<1> QED
  BY <1>1, <1>2, <1>5, <1>6

\* A time measurement writes the next line of its kind, once.
LEMMA TimeKept ==
  ASSUME NEW obj, CaseOK(obj), Alive(obj),
         NEW f \in Nat, NEW t \in Nat, NEW m, Kept(obj, f, t, m)
  PROVE  LET new == AddTime(CountedTime(obj), -(t + 1))
         IN Kept(new, f, t + 1, m) /\ new.totalRow = obj.totalRow
<1>1. PICK c, new, line : /\ c = CountedTime(obj) /\ new = AddTime(c, line)
                          /\ line = -(t + 1) /\ line \in Int
  <2>1. -(t + 1) \in Int
    OBVIOUS
  <2> QED
    BY <2>1
<1>2. DOMAIN obj = Fields /\ obj = [x \in Fields |-> obj[x]] /\ obj.root \in Infos
  BY DEF CaseOK
<1>3. /\ SameTexts(c, obj) /\ c.totalRow = obj.totalRow /\ c.group_lst = obj.group_lst
      /\ c.log_lst = obj.log_lst /\ CaseOK(c) /\ Alive(c) /\ c.dangled = obj.dangled
  <2>1. CASE Phase # "MEASURE"
    BY <1>1, <2>1 DEF CountedTime, SameTexts
  <2>2. CASE Phase = "MEASURE"
    <3>1. PICK r : r = [obj.root EXCEPT !.measure = @ + 1]
      OBVIOUS
    <3>2. r = [id |-> obj.root.id, total |-> obj.root.total, failed |-> obj.root.failed,
               measure |-> obj.root.measure + 1, logs |-> obj.root.logs,
               memory |-> obj.root.memory]
      BY <1>2, <3>1 DEF Infos
    <3>3. r \in Infos /\ r.memory = obj.root.memory
      BY <1>2, <3>2 DEF Infos
    <3>4. c = [obj EXCEPT !.root = r]
      BY <1>1, <1>2, <2>2, <3>1 DEF CountedTime, Fields
    <3>5. /\ DOMAIN c = Fields /\ c = [x \in Fields |-> c[x]]
          /\ c.root = r /\ c.temp = obj.temp /\ c.group_lst = obj.group_lst
          /\ c.log_lst = obj.log_lst /\ c.dangled = obj.dangled
          /\ c.printed = obj.printed /\ c.rows = obj.rows /\ c.totalRow = obj.totalRow
      BY <1>2, <3>4 DEF Fields
    <3>6. CaseOK(c)
      BY <3>3, <3>5 DEF CaseOK
    <3>7. Alive(c)
      BY <3>5 DEF Alive, Owned
    <3>8. SameTexts(c, obj)
      BY <3>3, <3>5 DEF SameTexts
    <3> QED
      BY <3>5, <3>6, <3>7, <3>8
  <2> QED
    BY <2>1, <2>2
<1>4. Kept(c, f, t, m)
  BY <1>3, SameKept
<1>5. CASE obj.group_lst = <<>>
  <2>1. new = [c EXCEPT !.temp = Logged(@, line)]
    BY <1>1, <1>3, <1>5 DEF AddTime
  <2>2. new.totalRow = c.totalRow
    BY <1>1, <1>3, <2>1, TempLogged
  <2>3. Kept(new, f, t + 1, m)
    BY <1>1, <1>3, <1>4, <2>1, TempLineKept
  <2> QED
    BY <1>1, <1>3, <2>2, <2>3
<1>6. CASE obj.group_lst # <<>>
  <2>1. PICK q, g : q = c.log_lst /\ g = Last(c.group_lst)
    OBVIOUS
  <2>2. g \in Range(c.group_lst)
    BY <1>3, <1>6, <2>1, InnermostGroup
  <2>3. PICK k \in DOMAIN q : q[k].id = g
    BY <1>3, <2>1, <2>2 DEF Alive, Owned
  <2>4. \A i \in DOMAIN q : q[i].id = g <=> i = k
    BY <1>4, <2>1, <2>3 DEF Kept
  <2>5. DOMAIN c = Fields /\ c = [x \in Fields |-> c[x]]
    BY <1>3 DEF CaseOK
  <2>6. new = [c EXCEPT !.log_lst = [i \in DOMAIN @ |-> IF @[i].id = g THEN Logged(@[i], line) ELSE @[i]],
                        !.dangled = @ \/ g \notin Owned(c)]
    BY <1>1, <1>3, <1>6, <2>1 DEF AddTime
  <2>7. /\ new.printed = c.printed /\ new.rows = c.rows /\ new.root = c.root /\ new.temp = c.temp
        /\ new.totalRow = c.totalRow
        /\ new.log_lst = [i \in DOMAIN q |-> IF q[i].id = g THEN Logged(q[i], line) ELSE q[i]]
    BY <2>1, <2>5, <2>6 DEF Fields
  <2>8. LoggedIn(new, c, k, line)
    BY <2>1, <2>3, <2>4, <2>7 DEF LoggedIn
  <2>9. CaseOK(new)
    BY <1>1, TimeAdded
  <2>10. KeptMore(new, line, f, t, m)
    BY <1>1, <1>3, <1>4, <2>8, <2>9, GroupLogged
  <2>11. Kept(new, f, t + 1, m)
    BY <1>1, <2>10, NextLine DEF Kept, KeptMore
  <2> QED
    BY <1>1, <1>3, <2>7, <2>11
<1> QED
  BY <1>5, <1>6

\* m_temp is printed, and cleared.
LEMMA TempKept ==
  ASSUME NEW obj, CaseOK(obj), NEW f, NEW t, NEW m, Kept(obj, f, t, m)
  PROVE  LET new == DumpTemp(obj)
         IN /\ Kept(new, f, t, m) /\ new.totalRow = obj.totalRow /\ new.temp.logs = <<>>
            /\ new.log_lst = obj.log_lst /\ new.root = obj.root
<1>1. PICK new, temp : new = DumpTemp(obj) /\ temp = obj.temp
  OBVIOUS
<1>2. DOMAIN obj = Fields /\ obj = [x \in Fields |-> obj[x]] /\ temp \in Infos
  BY <1>1 DEF CaseOK
<1>3. CASE ~is_logging(temp)
  <2>1. new = obj /\ temp.logs = <<>>
    BY <1>1, <1>3 DEF DumpTemp, is_logging
  <2> QED
    BY <1>1, <2>1
<1>4. CASE is_logging(temp)
  <2>1. /\ new.root = obj.root /\ new.temp = Cleared(temp) /\ new.log_lst = obj.log_lst
        /\ new.totalRow = obj.totalRow
        /\ new.printed = obj.printed \o temp.logs /\ new.rows = obj.rows \o Row(temp)
    BY <1>1, <1>2, <1>4 DEF DumpTemp, Fields
  <2>2. temp.memory = <<>> /\ Row(temp) = <<>>
    BY <1>1 DEF Kept, Row
  <2>3. new.temp.logs = <<>> /\ new.temp.memory = <<>>
    BY <1>2, <2>1, <2>2, InfoTexts
  <2>4. new.rows = obj.rows
    <3>1. obj.rows \in Seq(Nat)
      BY <1>2 DEF CaseOK
    <3>2. obj.rows \o <<>> = obj.rows
      BY <3>1
    <3> QED
      BY <2>1, <2>2, <3>2
  <2>5. LogsOf(new) = LogsOf(obj) /\ ReportsOf(new) = ReportsOf(obj)
    BY <2>1 DEF LogsOf, ReportsOf
  <2>6. PICK A, X, n : A = FlattenSeq(LogsOf(obj)) /\ X = LinesOf(f, t) /\ n = f + t
    OBVIOUS
  <2>7. Hold(obj.printed, temp.logs, A, X, n) /\ obj.printed \in Seq(Int) /\ temp.logs \in Seq(Int)
        /\ A \in Seq(Int)
    BY <1>1, <2>6, TextTypes DEF Kept
  <2>8. Hold(obj.printed \o temp.logs, <<>>, A, X, n)
    BY <2>7, HoldMoved
  <2>9. Kept(new, f, t, m)
    BY <2>1, <2>3, <2>4, <2>5, <2>6, <2>8 DEF Kept
  <2> QED
    BY <1>1, <2>1, <2>3, <2>9
<1> QED
  BY <1>3, <1>4

\* At the end of a phase, the memory table of the memory phase gets its total.
LEMMA EndKept ==
  ASSUME NEW obj, CaseOK(obj), NEW f, NEW t, NEW m, Kept(obj, f, t, m)
  PROVE  LET new == DumpEnd(obj)
         IN /\ Kept(new, f, t, m) /\ new.temp.logs = <<>>
            /\ new.totalRow = IF Phase = "MEMORY" THEN obj.root.memory ELSE obj.totalRow
<1>1. PICK new, temp, total1 : /\ new = DumpEnd(obj) /\ temp = DumpTemp(obj)
                               /\ total1 = obj.root.memory
  OBVIOUS
<1>2. /\ Kept(temp, f, t, m) /\ temp.totalRow = obj.totalRow /\ temp.temp.logs = <<>>
      /\ CaseOK(temp)
  BY <1>1, TempKept, TempDumped DEF SameResults
<1>3. CASE Phase # "MEMORY"
  BY <1>1, <1>2, <1>3 DEF DumpEnd
<1>4. CASE Phase = "MEMORY"
  <2>1. DOMAIN temp = Fields
    BY <1>2 DEF CaseOK
  <2>2. new = [temp EXCEPT !.totalRow = total1]
    BY <1>1, <1>4 DEF DumpEnd
  <2>3. /\ new.root = temp.root /\ new.temp = temp.temp
        /\ new.log_lst = temp.log_lst /\ new.printed = temp.printed /\ new.rows = temp.rows
        /\ new.totalRow = total1
    BY <2>1, <2>2 DEF Fields
  <2>4. SameTexts(new, temp)
    BY <2>3 DEF SameTexts
  <2>5. Kept(new, f, t, m)
    BY <1>2, <2>4, SameKept
  <2> QED
    BY <1>1, <1>2, <1>4, <2>3, <2>5
<1> QED
  BY <1>3, <1>4

\* change_type clears m_temp, which has been printed.
LEMMA TypeKept ==
  ASSUME NEW obj, CaseOK(obj), obj.temp.logs = <<>>, NEW f, NEW t, NEW m, Kept(obj, f, t, m)
  PROVE  LET new == ChangeType(obj)
         IN Kept(new, f, t, m) /\ new.totalRow = obj.totalRow
<1>1. PICK new : new = ChangeType(obj)
  OBVIOUS
<1>2. DOMAIN obj = Fields /\ obj.root \in Infos /\ obj.temp \in Infos
  BY DEF CaseOK
<1>3. /\ new.root = Cleared(obj.root) /\ new.temp = Cleared(obj.temp)
      /\ new.log_lst = obj.log_lst /\ new.printed = obj.printed /\ new.rows = obj.rows
      /\ new.totalRow = obj.totalRow
  BY <1>1, <1>2 DEF ChangeType, Fields
<1>4. /\ new.root.memory = obj.root.memory /\ new.temp.memory = obj.temp.memory
      /\ new.temp.logs = obj.temp.logs
  BY <1>2, <1>3, InfoTexts
<1>5. SameTexts(new, obj)
  BY <1>3, <1>4 DEF SameTexts
<1> QED
  BY <1>1, <1>3, <1>5, SameKept

\* The groups are printed and freed: their lines in any phase, their reports in
\* the memory phase, and outside it there are none.
LEMMA GroupsKept ==
  ASSUME NEW obj, CaseOK(obj), NEW f, NEW t, NEW m, Kept(obj, f, t, m),
         Phase # "MEMORY" => m = 0
  PROVE  LET new == DumpGroupEnd(obj)
         IN Kept(new, f, t, m) /\ new.totalRow = obj.totalRow /\ new.temp.logs = <<>>
<1>1. PICK new, temp, q : new = DumpGroupEnd(obj) /\ temp = DumpTemp(obj) /\ q = obj.log_lst
  OBVIOUS
<1>2. /\ Kept(temp, f, t, m) /\ temp.totalRow = obj.totalRow /\ temp.temp.logs = <<>>
      /\ CaseOK(temp) /\ temp.log_lst = q
  BY <1>1, TempKept, TempDumped DEF SameResults
<1>3. PICK ll, rr : ll = LogsOf(temp) /\ rr = [i \in DOMAIN q |-> Row(q[i])]
  OBVIOUS
<1>4. GroupLines(obj) = FlattenSeq(ll)
  BY <1>1, <1>2, <1>3 DEF GroupLines, LogsOf
<1>5. PICK A, B, R : A = FlattenSeq(ll) /\ B = FlattenSeq(ReportsOf(temp)) /\ R = FlattenSeq(rr)
  OBVIOUS
<1>6. /\ A \in Seq(Int) /\ B \in Seq(Nat) /\ temp.printed \in Seq(Int) /\ temp.rows \in Seq(Nat)
      /\ temp.temp.logs \in Seq(Int)
  BY <1>2, <1>3, <1>5, TextTypes
<1>7. /\ new.root = temp.root /\ new.temp = temp.temp /\ new.log_lst = <<>>
      /\ new.totalRow = temp.totalRow
      /\ new.printed = temp.printed \o A /\ new.rows = temp.rows \o R
  <2>1. DOMAIN temp = Fields
    BY <1>2 DEF CaseOK
  <2>2. new = [temp EXCEPT !.printed = @ \o A, !.rows = @ \o R, !.log_lst = <<>>]
    BY <1>1, <1>3, <1>4, <1>5 DEF DumpGroupEnd
  <2> QED
    BY <2>1, <2>2 DEF Fields
<1>8. LogsOf(new) = <<>> /\ ReportsOf(new) = <<>> /\ FlattenSeq(<<>>) = <<>>
  BY <1>7 DEF LogsOf, ReportsOf, FlattenSeq
<1>9. Hold(new.printed, new.temp.logs, FlattenSeq(LogsOf(new)), LinesOf(f, t), f + t)
  <2>1. PICK X, n, L : X = LinesOf(f, t) /\ n = f + t /\ L = temp.temp.logs
    OBVIOUS
  <2>2. Hold(temp.printed, L, A, X, n)
    BY <1>2, <1>3, <1>5, <2>1 DEF Kept
  <2>3. Hold(temp.printed \o A, L, <<>>, X, n)
    BY <1>6, <2>1, <2>2, HoldMoved
  <2> QED
    BY <1>7, <1>8, <2>1, <2>3
<1>10. Hold(new.rows, <<>>, FlattenSeq(ReportsOf(new)), 1..m, m)
  <2>1. PICK X, E : X = 1..m /\ E = <<>>
    OBVIOUS
  <2>2. Hold(temp.rows, E, B, X, m) /\ E \in Seq(Nat)
    BY <1>2, <1>5, <2>1 DEF Kept
  <2>3. CASE Phase = "MEMORY"
    <3>1. rr = ReportsOf(temp)
      BY <1>2, <1>3, <2>3 DEF Row, ReportsOf
    <3>2. Hold(temp.rows \o B, E, <<>>, X, m)
      BY <1>6, <2>2, HoldMoved
    <3> QED
      BY <1>5, <1>7, <1>8, <2>1, <3>1, <3>2
  <2>4. CASE Phase # "MEMORY"
    <3>1. m = 0 /\ X = {}
      BY <2>1, <2>4
    <3>2. \A i \in DOMAIN q : rr[i] = <<>>
      BY <1>3, <2>4 DEF Row
    <3>3. R = <<>>
      <4>1. q \in Seq(Infos)
        BY <1>1 DEF CaseOK
      <4>2. PICK N : N = Seq(Nat)
        OBVIOUS
      <4>10. <<>> \in N
        BY <4>2
      <4>11. rr = [i \in DOMAIN q |-> rr[i]]
        BY <1>3
      <4>3. /\ rr = [i \in DOMAIN q |-> rr[i]] /\ \A i \in DOMAIN q : rr[i] \in N
        BY <3>2, <4>10, <4>11
      <4>4. rr \in Seq(N) /\ DOMAIN rr = DOMAIN q
        BY <4>1, <4>3, ListMapped
      <4>5. rr \in Seq(Seq(Nat))
        BY <4>2, <4>4
      <4>6. R \in Seq(Nat) /\ Range(R) = UNION {Range(rr[i]) : i \in DOMAIN rr}
        BY <1>5, <4>5, FlattenFacts
      <4>7. \A i \in DOMAIN rr : Range(rr[i]) = {}
        <5>1. Range(<<>>) = {}
          BY DEF Range
        <5> QED
          BY <3>2, <4>4, <5>1
      <4>8. Range(R) = {}
        BY <4>6, <4>7
      <4>9. DOMAIN R = {}
        BY <4>8 DEF Range
      <4> QED
        BY <4>6, <4>9
    <3>4. new.rows = temp.rows
      <4>1. temp.rows \o <<>> = temp.rows
        BY <1>6
      <4> QED
        BY <1>7, <3>3, <4>1
    <3>5. Hold(temp.rows, E, E, X, m)
      <4>1. PICK i, j : i = Len(temp.rows) /\ j = Len(B)
        OBVIOUS
      <4>2. i \in Nat /\ j \in Nat /\ Len(E) = 0
        BY <1>6, <2>1, <4>1
      <4>3. i + 0 + j = 0
        BY <2>2, <3>1, <4>1, <4>2 DEF Hold
      <4>4. i = 0 /\ j = 0
        BY <4>2, <4>3
      <4>5. Range(temp.rows) = {} /\ Range(E) = {}
        <5>1. Range(temp.rows) = {}
          BY <2>2, <3>1 DEF Hold
        <5>2. Range(E) = {}
          BY <2>1 DEF Range
        <5> QED
          BY <5>1, <5>2
      <4>6. Len(temp.rows) + Len(E) + Len(E) = m
        BY <3>1, <4>1, <4>2, <4>4
      <4> QED
        BY <3>1, <4>5, <4>6 DEF Hold
    <3> QED
      BY <1>8, <2>1, <3>4, <3>5
  <2> QED
    BY <2>3, <2>4
<1>11. /\ new.temp.memory = <<>> /\ Range(new.root.memory) = 1..m /\ Len(new.root.memory) = m
       /\ \A i, j \in DOMAIN new.log_lst : new.log_lst[i].id = new.log_lst[j].id => i = j
  BY <1>2, <1>7 DEF Kept
<1>12. Kept(new, f, t, m)
  BY <1>9, <1>10, <1>11 DEF Kept
<1> QED
  BY <1>1, <1>2, <1>7, <1>12

\* A memory report is counted in the innermost group, and in m_root.
LEMMA MemoryKept ==
  ASSUME NEW obj, CaseOK(obj), obj.group_lst # <<>>, Alive(obj),
         NEW f, NEW t, NEW m \in Nat, Kept(obj, f, t, m)
  PROVE  LET new == AddMemory(obj, m + 1)
         IN Kept(new, f, t, m + 1) /\ new.totalRow = obj.totalRow
<1> DEFINE merged(info) == [info EXCEPT !.memory = Append(@, m + 1)]
<1>1. PICK new, q, g, l, n : /\ new = AddMemory(obj, n) /\ q = obj.log_lst
                             /\ g = Last(obj.group_lst) /\ l = new.log_lst
                             /\ n = m + 1 /\ n \in Nat
  <2>1. m + 1 \in Nat
    OBVIOUS
  <2> QED
    BY <2>1
<1>2. /\ DOMAIN obj = Fields /\ obj.root \in Infos
      /\ q \in Seq(Infos) /\ \A i \in DOMAIN q : q[i] \in Infos
  <2>1. DOMAIN obj = Fields /\ obj.root \in Infos /\ q \in Seq(Infos)
    BY <1>1 DEF CaseOK
  <2>2. \A i \in DOMAIN q : q[i] \in Infos
    BY <2>1
  <2> QED
    BY <2>1, <2>2
<1>3. \A info \in Infos : /\ merged(info).memory = Append(info.memory, n)
                          /\ merged(info).logs = info.logs /\ merged(info).id = info.id
  BY <1>1 DEF Infos
<1>13. CaseOK(new)
  BY <1>1, MemoryAdded
<1>4. /\ new.root = merged(obj.root) /\ new.temp = obj.temp /\ new.printed = obj.printed
      /\ new.rows = obj.rows /\ new.totalRow = obj.totalRow
      /\ l = [i \in DOMAIN q |-> IF q[i].id \in {g} THEN merged(q[i]) ELSE q[i]]
  <2>1. TalliedIn(obj) = {g}
    BY <1>1 DEF TalliedIn
  <2>2. new = [obj EXCEPT !.root = merged(@), !.temp = @,
                          !.log_lst = [i \in DOMAIN @ |-> IF @[i].id \in {g} THEN merged(@[i]) ELSE @[i]],
                          !.dangled = @ \/ ~({g} \subseteq Owned(obj))]
    BY <1>1, <2>1 DEF AddMemory
  <2> HIDE DEF merged
  <2>3. PICK l0, d0, root : /\ l0 = [i \in DOMAIN q |-> IF q[i].id \in {g} THEN merged(q[i]) ELSE q[i]]
                            /\ d0 = (obj.dangled \/ ~({g} \subseteq Owned(obj)))
                            /\ root = merged(obj.root)
    OBVIOUS
  <2>4. new = [obj EXCEPT !.root = root, !.temp = @, !.log_lst = l0, !.dangled = d0]
    BY <1>1, <1>2, <2>2, <2>3 DEF Fields
  <2> QED
    BY <1>1, <1>2, <2>3, <2>4 DEF Fields
<1> HIDE DEF merged
<1>5. g \in Range(obj.group_lst)
  BY <1>1, InnermostGroup
<1>6. PICK k \in DOMAIN q : q[k].id = g
  BY <1>1, <1>5 DEF Alive, Owned
<1>7. \A i \in DOMAIN q : q[i].id = g <=> i = k
  BY <1>1, <1>6 DEF Kept
<1>8. /\ DOMAIN l = DOMAIN q
      /\ \A i \in DOMAIN q : /\ l[i].id = q[i].id /\ l[i].logs = q[i].logs
                             /\ l[i].memory = IF i = k THEN Append(q[i].memory, n) ELSE q[i].memory
  <2>1. ASSUME NEW i \in DOMAIN q
        PROVE  /\ l[i].id = q[i].id /\ l[i].logs = q[i].logs
               /\ l[i].memory = IF i = k THEN Append(q[i].memory, n) ELSE q[i].memory
    <3>1. PICK c : c = merged(q[i])
      OBVIOUS
    <3>2. c.id = q[i].id /\ c.logs = q[i].logs /\ c.memory = Append(q[i].memory, n)
      BY <1>2, <1>3, <3>1
    <3>3. l[i] = IF i = k THEN c ELSE q[i]
      BY <1>4, <1>7, <3>1
    <3> QED
      BY <3>2, <3>3
  <2> QED
    BY <1>4, <2>1
<1>9. LogsOf(new) = LogsOf(obj)
  BY <1>1, <1>8 DEF LogsOf
<1>10. PICK a, b : a = ReportsOf(obj) /\ b = ReportsOf(new)
  OBVIOUS
<1>11. /\ a \in Seq(Seq(Nat)) /\ b \in Seq(Seq(Nat)) /\ DOMAIN a = DOMAIN q /\ DOMAIN b = DOMAIN q
       /\ \A i \in DOMAIN q : a[i] = q[i].memory /\ b[i] = l[i].memory
       /\ FlattenSeq(a) \in Seq(Nat) /\ FlattenSeq(b) \in Seq(Nat)
       /\ obj.rows \in Seq(Nat) /\ obj.root.memory \in Seq(Nat)
  <2>1. /\ a \in Seq(Seq(Nat)) /\ DOMAIN a = DOMAIN q /\ FlattenSeq(a) \in Seq(Nat)
        /\ \A i \in DOMAIN q : a[i] = q[i].memory
        /\ obj.rows \in Seq(Nat) /\ obj.root.memory \in Seq(Nat)
    BY <1>1, <1>10, TextTypes
  <2>2. /\ b \in Seq(Seq(Nat)) /\ DOMAIN b = DOMAIN l /\ FlattenSeq(b) \in Seq(Nat)
        /\ \A i \in DOMAIN l : b[i] = l[i].memory
    BY <1>1, <1>10, <1>13, TextTypes
  <2> QED
    BY <1>8, <2>1, <2>2
<1>12. GetsOne(a, b, k, n)
  BY <1>8, <1>11 DEF GetsOne
<1>14. /\ Range(FlattenSeq(b)) = Range(FlattenSeq(a)) \union {n}
       /\ Len(FlattenSeq(b)) = Len(FlattenSeq(a)) + 1
  <2>1. PICK N : N = Nat
    OBVIOUS
  <2>2. a \in Seq(Seq(N)) /\ b \in Seq(Seq(N)) /\ n \in N
    BY <1>1, <1>11, <2>1
  <2> QED
    BY <1>12, <2>2, FlattenMore
<1>15. Hold(new.rows, <<>>, FlattenSeq(b), 1..n, n)
  <2>1. PICK A, B, X, E : A = FlattenSeq(a) /\ B = FlattenSeq(b) /\ X = 1..m /\ E = <<>>
    OBVIOUS
  <2>2. Hold(obj.rows, E, A, X, m) /\ E \in Seq(Nat)
    BY <1>10, <2>1 DEF Kept
  <2>3. Hold(obj.rows, E, B, X \union {n}, m + 1)
    BY <1>1, <1>11, <1>14, <2>1, <2>2, HoldMore
  <2>4. X \union {n} = 1..n
    BY <1>1, <2>1
  <2> QED
    BY <1>1, <1>4, <2>1, <2>3, <2>4
<1>16. Range(new.root.memory) = 1..n /\ Len(new.root.memory) = n
  <2>1. new.root.memory = Append(obj.root.memory, n)
    BY <1>2, <1>3, <1>4
  <2>2. Range(obj.root.memory) = 1..m /\ Len(obj.root.memory) = m
    BY DEF Kept
  <2>3. /\ Range(new.root.memory) = Range(obj.root.memory) \union {n}
        /\ Len(new.root.memory) = Len(obj.root.memory) + 1
    <3>1. PICK N, s : N = Nat /\ s = obj.root.memory
      OBVIOUS
    <3>2. s \in Seq(N) /\ n \in N
      BY <1>1, <1>11, <3>1
    <3>3. Range(Append(s, n)) = Range(s) \union {n} /\ Len(Append(s, n)) = Len(s) + 1
      BY <3>2, AppendRange
    <3> QED
      BY <2>1, <3>1, <3>3
  <2>4. (1..m) \union {n} = 1..n
    BY <1>1
  <2> QED
    BY <1>1, <2>2, <2>3, <2>4
<1>17. \A i, j \in DOMAIN l : l[i].id = l[j].id => i = j
  BY <1>1, <1>8 DEF Kept
<1>18. Kept(new, f, t, n)
  BY <1>1, <1>4, <1>9, <1>10, <1>15, <1>16, <1>17 DEF Kept
<1> QED
  BY <1>1, <1>4, <1>18

\* A group that starts has nothing to print.
Started(new, obj, g) ==
  /\ \A i \in DOMAIN obj.log_lst : obj.log_lst[i].id # g
  /\ new = [obj EXCEPT !.log_lst = Append(@, [NoInfo EXCEPT !.id = g]),
                       !.group_lst = Append(@, g)]

\* startGroup moves no line and no report.
LEMMA StartKept ==
  ASSUME NEW obj, CaseOK(obj), NEW g, NEW new, CaseOK(new), Started(new, obj, g),
         NEW f, NEW t, NEW m, Kept(obj, f, t, m)
  PROVE  Kept(new, f, t, m) /\ new.totalRow = obj.totalRow /\ new.temp.logs = obj.temp.logs
<1>1. PICK q, l, info, n, k : /\ q = obj.log_lst /\ l = new.log_lst
                              /\ info = [NoInfo EXCEPT !.id = g] /\ n = Len(q) /\ k = n + 1
  OBVIOUS
<1>2. DOMAIN obj = Fields /\ q \in Seq(Infos) /\ l \in Seq(Infos)
  BY <1>1 DEF CaseOK
<1>3. /\ new.root = obj.root /\ new.temp = obj.temp /\ new.printed = obj.printed
      /\ new.rows = obj.rows /\ new.totalRow = obj.totalRow /\ l = Append(q, info)
  BY <1>1, <1>2 DEF Fields, Started
<1>4. info.id = g /\ info.logs = <<>> /\ info.memory = <<>>
  BY <1>1 DEF NoInfo
<1>5. /\ DOMAIN q = 1..n /\ n \in Nat /\ DOMAIN l = DOMAIN q \union {k} /\ l[k] = info
      /\ k \notin DOMAIN q /\ \A i \in DOMAIN q : l[i] = q[i]
  BY <1>1, <1>2, <1>3
<1>6. \A i, j \in DOMAIN l : l[i].id = l[j].id => i = j
  <2>1. \A i, j \in DOMAIN q : q[i].id = q[j].id => i = j
    BY <1>1 DEF Kept
  <2>2. \A i \in DOMAIN q : l[i].id = q[i].id /\ l[i].id # g
    BY <1>1, <1>5 DEF Started
  <2>3. l[k].id = g
    BY <1>4, <1>5
  <2> QED
    BY <1>5, <2>1, <2>2, <2>3
<1>7. PICK a, b, c, d : /\ a = LogsOf(obj) /\ b = LogsOf(new)
                        /\ c = ReportsOf(obj) /\ d = ReportsOf(new)
  OBVIOUS
<1>8. /\ a \in Seq(Seq(Int)) /\ c \in Seq(Seq(Nat)) /\ DOMAIN a = DOMAIN q /\ DOMAIN c = DOMAIN q
      /\ Len(a) = n /\ Len(c) = n
      /\ \A i \in DOMAIN q : a[i] = q[i].logs /\ c[i] = q[i].memory
  BY <1>1, <1>7, TextTypes
<1>9. /\ b \in Seq(Seq(Int)) /\ d \in Seq(Seq(Nat)) /\ DOMAIN b = DOMAIN l /\ DOMAIN d = DOMAIN l
      /\ \A i \in DOMAIN l : b[i] = l[i].logs /\ d[i] = l[i].memory
  BY <1>1, <1>7, TextTypes
<1>10. /\ DOMAIN b = DOMAIN a \union {Len(a) + 1} /\ b[Len(a) + 1] = <<>>
       /\ \A i \in DOMAIN a : b[i] = a[i]
       /\ DOMAIN d = DOMAIN c \union {Len(c) + 1} /\ d[Len(c) + 1] = <<>>
       /\ \A i \in DOMAIN c : d[i] = c[i]
  <2>1. k \in DOMAIN l /\ Len(a) + 1 = k /\ Len(c) + 1 = k
    BY <1>1, <1>5, <1>8
  <2>2. b[k] = <<>> /\ d[k] = <<>>
    BY <1>4, <1>5, <1>9, <2>1
  <2>3. ASSUME NEW i \in DOMAIN q PROVE b[i] = a[i] /\ d[i] = c[i]
    <3>1. i \in DOMAIN l /\ l[i] = q[i]
      BY <1>5
    <3> QED
      BY <1>8, <1>9, <3>1
  <2> QED
    BY <1>5, <1>8, <1>9, <2>1, <2>2, <2>3
<1>11. Range(FlattenSeq(b)) = Range(FlattenSeq(a)) /\ Len(FlattenSeq(b)) = Len(FlattenSeq(a))
  BY <1>8, <1>9, <1>10, FlattenSame
<1>12. Range(FlattenSeq(d)) = Range(FlattenSeq(c)) /\ Len(FlattenSeq(d)) = Len(FlattenSeq(c))
  BY <1>8, <1>9, <1>10, FlattenSame
<1>13. Kept(new, f, t, m)
  <2>1. PICK A, B, C, D, X, Y, n1 : /\ A = FlattenSeq(a) /\ B = FlattenSeq(b) /\ C = FlattenSeq(c)
                                    /\ D = FlattenSeq(d) /\ X = LinesOf(f, t) /\ Y = 1..m
                                    /\ n1 = f + t
    OBVIOUS
  <2>2. Hold(obj.printed, obj.temp.logs, A, X, n1) /\ Hold(obj.rows, <<>>, C, Y, m)
    BY <1>7, <2>1 DEF Kept
  <2>3. Hold(obj.printed, obj.temp.logs, B, X, n1) /\ Hold(obj.rows, <<>>, D, Y, m)
    BY <1>11, <1>12, <2>1, <2>2 DEF Hold
  <2>4. /\ obj.temp.memory = <<>> /\ Range(obj.root.memory) = 1..m /\ Len(obj.root.memory) = m
    BY DEF Kept
  <2> QED
    BY <1>1, <1>3, <1>6, <1>7, <2>1, <2>3, <2>4 DEF Kept
<1> QED
  BY <1>3, <1>13

\* A new case has printed what the ones before it have.
LEMMA NewKept ==
  ASSUME NEW lines \in Seq(Int), NEW f \in Nat, NEW t \in Nat,
         Range(lines) = LinesOf(f, t), Len(lines) = f + t
  PROVE  LET new == [NewCase EXCEPT !.printed = lines]
         IN Kept(new, f, t, 0) /\ new.totalRow = <<>> /\ new.temp.logs = <<>>
<1>1. PICK new, E : new = [NewCase EXCEPT !.printed = lines] /\ E = <<>>
  OBVIOUS
<1>2. /\ new.temp = NoInfo /\ new.root = NoInfo /\ new.log_lst = <<>> /\ new.printed = lines
      /\ new.rows = <<>> /\ new.totalRow = <<>>
  BY <1>1 DEF NewCase
<1>3. NoInfo.logs = <<>> /\ NoInfo.memory = <<>>
  BY DEF NoInfo
<1>4. LogsOf(new) = <<>> /\ ReportsOf(new) = <<>> /\ FlattenSeq(<<>>) = <<>>
  BY <1>2 DEF LogsOf, ReportsOf, FlattenSeq
<1>5. Range(E) = {} /\ Len(E) = 0 /\ 1..0 = {}
  BY <1>1 DEF Range
<1>6. Hold(lines, E, E, LinesOf(f, t), f + t)
  <2>1. PICK n : n = Len(lines)
    OBVIOUS
  <2>2. n \in Nat /\ n = f + t
    BY <2>1
  <2>3. Len(lines) + Len(E) + Len(E) = f + t
    BY <1>5, <2>1, <2>2
  <2> QED
    BY <1>5, <2>3 DEF Hold
<1>7. Hold(E, E, E, 1..0, 0)
  BY <1>5 DEF Hold
<1>8. Range(new.root.memory) = 1..0 /\ Len(new.root.memory) = 0
  BY <1>1, <1>2, <1>3, <1>5
<1>9. \A i, j \in DOMAIN new.log_lst : new.log_lst[i].id = new.log_lst[j].id => i = j
  BY <1>2
<1>10. Kept(new, f, t, 0)
  BY <1>1, <1>2, <1>3, <1>4, <1>6, <1>7, <1>8, <1>9 DEF Kept
<1> QED
  BY <1>1, <1>2, <1>3, <1>10

\* What a case has to say when all of it is printed.
LEMMA AllPrinted ==
  ASSUME NEW obj, CaseOK(obj), obj.temp.logs = <<>>, obj.log_lst = <<>>,
         NEW f \in Nat, NEW t \in Nat, NEW m, Kept(obj, f, t, m)
  PROVE  /\ Range(obj.printed) = LinesOf(f, t) /\ Len(obj.printed) = f + t
         /\ Range(obj.rows) = 1..m /\ Len(obj.rows) = m
<1>1. PICK E : E = <<>>
  OBVIOUS
<1>2. LogsOf(obj) = E /\ ReportsOf(obj) = E /\ FlattenSeq(E) = E
  BY <1>1 DEF LogsOf, ReportsOf, FlattenSeq
<1>3. Range(E) = {} /\ Len(E) = 0
  BY <1>1 DEF Range
<1>4. Hold(obj.printed, E, E, LinesOf(f, t), f + t) /\ Hold(obj.rows, E, E, 1..m, m)
  BY <1>1, <1>2 DEF Kept
<1>5. Range(obj.printed) = LinesOf(f, t) /\ Range(obj.rows) = 1..m
  BY <1>3, <1>4 DEF Hold
<1>6. PICK i, j : i = Len(obj.printed) /\ j = Len(obj.rows)
  OBVIOUS
<1>7. i \in Nat /\ j \in Nat
  <2>1. obj.printed \in Seq(Int) /\ obj.rows \in Seq(Nat)
    BY DEF CaseOK
  <2> QED
    BY <1>6, <2>1
<1>8. i + 0 + 0 = f + t /\ j + 0 + 0 = m
  BY <1>3, <1>4, <1>6 DEF Hold
<1> QED
  BY <1>5, <1>6, <1>7, <1>8

-----------------------------------------------------------------------------
(* Steps of the runner, and where the lines and the reports are after them. *)

\* Everything there is to say is held once; between two cases it is printed, and
\* only the memory phase, which is a case's last, has reports.
TextInv ==
  /\ Kept(o, failures, times, tallied)
  /\ ~InCase => o.temp.logs = <<>>
  /\ InCase => o.totalRow = <<>>
  /\ ~InCase => Range(o.totalRow) = 1..tallied /\ Len(o.totalRow) = tallied
  /\ InCase /\ Phase # "MEMORY" => tallied = 0

\* A phase that another one follows is not the memory phase.
LEMMA MemoryLast ==
  ASSUME case > 0, phase < Len(Due(case)), phase \in Nat
  PROVE  Phase # "MEMORY"
<1> DEFINE taken(p) == IF p \in asked /\ (p \in {"STRESS", "MEMORY"} => p \in Offers[case])
                       THEN <<p>> ELSE <<>>
           P == {"BASIC", "MEASURE", "STRESS"}
<1>1. PICK a, b, d, e, x : /\ a = taken("BASIC") /\ b = taken("MEASURE")
                           /\ d = taken("STRESS") /\ e = taken("MEMORY") /\ x = a \o b \o d
  OBVIOUS
<1>2. Due(case) = x \o e
  BY <1>1 DEF Due
<1>3. a \in Seq(P) /\ b \in Seq(P) /\ d \in Seq(P) /\ e \in Seq({"MEMORY"}) /\ Len(e) \in 0..1
  <2>1. \A p \in P : <<p>> \in Seq(P)
    OBVIOUS
  <2>2. <<"MEMORY">> \in Seq({"MEMORY"}) /\ Len(<<"MEMORY">>) = 1
    OBVIOUS
  <2>3. <<>> \in Seq(P) /\ <<>> \in Seq({"MEMORY"}) /\ Len(<<>>) = 0
    OBVIOUS
  <2>4. \A p : taken(p) \in {<<p>>, <<>>}
    OBVIOUS
  <2>5. "BASIC" \in P /\ "MEASURE" \in P /\ "STRESS" \in P
    OBVIOUS
  <2> HIDE DEF taken, P
  <2>6. a \in {<<"BASIC">>, <<>>} /\ b \in {<<"MEASURE">>, <<>>} /\ d \in {<<"STRESS">>, <<>>}
        /\ e \in {<<"MEMORY">>, <<>>}
    BY <1>1, <2>4
  <2>7. <<"BASIC">> \in Seq(P) /\ <<"MEASURE">> \in Seq(P) /\ <<"STRESS">> \in Seq(P)
    BY <2>1, <2>5
  <2>8. a \in Seq(P)
    BY <2>3, <2>6, <2>7
  <2>9. b \in Seq(P)
    BY <2>3, <2>6, <2>7
  <2>10. d \in Seq(P)
    BY <2>3, <2>6, <2>7
  <2>11. e \in Seq({"MEMORY"})
    BY <2>2, <2>3, <2>6
  <2>12. Len(e) \in 0..1
    BY <2>2, <2>3, <2>6
  <2> QED
    BY <2>8, <2>9, <2>10, <2>11, <2>12
<1> HIDE DEF taken, P
<1>4. x \in Seq(P)
  <2>1. PICK y : y = a \o b
    OBVIOUS
  <2>2. y \in Seq(P)
    BY <1>3, <2>1, ConcatFacts
  <2>3. y \o d \in Seq(P)
    BY <1>3, <2>2, ConcatFacts
  <2> QED
    BY <1>1, <2>1, <2>3
<1>5. PICK S : S = P \union {"MEMORY"}
  OBVIOUS
<1>6. x \in Seq(S) /\ e \in Seq(S)
  BY <1>3, <1>4, <1>5
<1>7. PICK n, k : n = Len(x) /\ k = Len(e)
  OBVIOUS
<1>8. n \in Nat /\ k \in 0..1 /\ Len(x \o e) = n + k /\ \A i \in 1..n : (x \o e)[i] = x[i]
  <2>1. n \in Nat /\ k \in 0..1
    BY <1>3, <1>4, <1>7
  <2>2. Len(x \o e) = n + k /\ \A i \in 1..n : (x \o e)[i] = x[i]
    BY <1>6, <1>7
  <2> QED
    BY <2>1, <2>2
<1>9. CASE phase \in 1..n
  <2>1. Phase = x[phase] \/ Phase = "NONE"
    BY <1>2, <1>8, <1>9 DEF Phase
  <2>2. x[phase] \in P
    BY <1>4, <1>7, <1>9
  <2> QED
    BY <2>1, <2>2 DEF P
<1>10. CASE phase \notin 1..n
  <2>1. phase = 0
    BY <1>2, <1>8, <1>10
  <2>2. x \o e \in Seq(S)
    BY <1>6, ConcatFacts
  <2>3. 0 \notin DOMAIN (x \o e)
    BY <2>2
  <2>4. Phase = "NONE"
    BY <1>2, <2>1, <2>3 DEF Phase
  <2> QED
    BY <2>4
<1> QED
  BY <1>9, <1>10

\* Which phase runs depends on the case, its number and what was asked for.
LEMMA PhaseStays ==
  ASSUME UNCHANGED <<asked, case, phase>>
  PROVE  Phase' = Phase
<1>1. \A c : Due(c)' = Due(c)
  BY DEF Due
<1> QED
  BY <1>1 DEF Phase, Due

\* The end of a phase: of the case, or with another to come.
LEMMA EndTexts ==
  ASSUME NEW obj, CaseOK(obj), NEW f, NEW t, NEW m, Kept(obj, f, t, m),
         obj.totalRow = <<>>, Phase # "MEMORY" => m = 0
  PROVE  /\ LET new == DumpEnd(obj)
            IN /\ Kept(new, f, t, m) /\ new.temp.logs = <<>>
               /\ Range(new.totalRow) = 1..m /\ Len(new.totalRow) = m
         /\ Phase # "MEMORY" => LET next == ChangeType(DumpEnd(obj))
                                IN Kept(next, f, t, m) /\ next.totalRow = <<>>
<1>1. PICK new : new = DumpEnd(obj)
  OBVIOUS
<1>2. /\ Kept(new, f, t, m) /\ new.temp.logs = <<>> /\ CaseOK(new)
      /\ new.totalRow = IF Phase = "MEMORY" THEN obj.root.memory ELSE obj.totalRow
  BY <1>1, EndKept, EndDumped DEF SameResults
<1>3. Range(new.totalRow) = 1..m /\ Len(new.totalRow) = m
  <2>1. CASE Phase = "MEMORY"
    BY <1>2, <2>1 DEF Kept
  <2>2. CASE Phase # "MEMORY"
    <3>1. m = 0 /\ new.totalRow = <<>>
      BY <1>2, <2>2
    <3>2. Range(<<>>) = {} /\ Len(<<>>) = 0 /\ 1..0 = {}
      BY DEF Range
    <3> QED
      BY <3>1, <3>2
  <2> QED
    BY <2>1, <2>2
<1>4. CASE Phase # "MEMORY"
  BY <1>1, <1>2, <1>3, <1>4, TypeKept
<1> QED
  BY <1>1, <1>2, <1>3, <1>4

\* Nothing that matters to the lines changes.
LEMMA TextsStay ==
  ASSUME TextInv, Kept(o', failures, times, tallied),
         UNCHANGED <<failures, times, tallied, asked, case, phase>>,
         o'.temp.logs = o.temp.logs \/ InCase', o'.totalRow = o.totalRow, InCase' <=> InCase
  PROVE  TextInv'
<1>1. Phase' = Phase
  BY PhaseStays
<1> QED
  BY <1>1 DEF TextInv

\* A setUp that fails.
LEMMA SetUpTexts ==
  ASSUME RunTypes, NEW obj, CaseOK(obj), NEW f \in Nat, Kept(obj, f, times, tallied),
         obj.totalRow = <<>>, Phase # "MEMORY" => tallied = 0,
         SetUpFailed(obj, f + 1), UNCHANGED <<times, tallied>>
  PROVE  TextInv'
<1>1. PICK left : left = FixtureFailed(obj, f + 1)
  OBVIOUS
<1>2. times \in Nat
  BY RunnerAssumption DEF RunTypes
<1>3. f + 1 \in Int
  OBVIOUS
<1>4. Kept(left, f + 1, times, tallied) /\ left.totalRow = <<>> /\ CaseOK(left)
  BY <1>1, <1>2, <1>3, HookKept, HookCounted
<1>5. PICK new : new = DumpEnd(left)
  OBVIOUS
<1>6. /\ Kept(new, f + 1, times, tallied) /\ new.temp.logs = <<>>
      /\ Range(new.totalRow) = 1..tallied /\ Len(new.totalRow) = tallied
  BY <1>4, <1>5, EndTexts
<1>7. o' = new /\ failures' = f + 1 /\ ~InCase'
  BY <1>1, <1>5 DEF SetUpFailed, EndCase, InCase
<1> QED
  BY <1>6, <1>7 DEF TextInv

\* A tearDown, whatever it returns.
LEMMA LeaveTexts ==
  ASSUME RunTypes, pc = "tearDown", NEW obj, CaseOK(obj), NEW f \in Nat,
         Kept(obj, f, times, tallied), obj.totalRow = <<>>, Phase # "MEMORY" => tallied = 0,
         NEW value \in BOOLEAN, NEW line, line = (IF value THEN f ELSE f + 1),
         Leave(obj, value, line), UNCHANGED <<asked, case, times, tallied>>
  PROVE  TextInv'
<1>1. PICK left : left = IF value THEN obj ELSE FixtureFailed(obj, line)
  OBVIOUS
<1>2. times \in Nat /\ case > 0 /\ phase \in Nat
  BY RunnerAssumption DEF RunTypes, InCase
<1>3. Kept(left, line, times, tallied) /\ left.totalRow = <<>> /\ CaseOK(left)
  <2>1. CASE value
    BY <1>1, <2>1
  <2>2. CASE ~value
    <3>1. f + 1 \in Int
      OBVIOUS
    <3> QED
      BY <1>1, <1>2, <2>2, <3>1, HookKept, HookCounted
  <2> QED
    BY <2>1, <2>2
<1>4. PICK new : new = DumpEnd(left)
  OBVIOUS
<1>5. /\ Kept(new, line, times, tallied) /\ new.temp.logs = <<>>
      /\ Range(new.totalRow) = 1..tallied /\ Len(new.totalRow) = tallied
      /\ Phase # "MEMORY" => /\ Kept(ChangeType(new), line, times, tallied)
                             /\ ChangeType(new).totalRow = <<>>
  BY <1>3, <1>4, EndTexts
<1>6. CASE ~stopped /\ phase < Len(Due(case))
  <2>1. Phase # "MEMORY"
    BY <1>2, <1>6, MemoryLast
  <2>2. o' = ChangeType(new) /\ failures' = line /\ InCase'
    BY <1>1, <1>4, <1>6 DEF Leave, InCase
  <2> QED
    BY <1>5, <2>1, <2>2 DEF TextInv
<1>7. CASE ~(~stopped /\ phase < Len(Due(case)))
  <2>1. o' = new /\ failures' = line /\ ~InCase'
    BY <1>1, <1>4, <1>7 DEF Leave, EndCase, InCase
  <2> QED
    BY <1>5, <2>1 DEF TextInv
<1> QED
  BY <1>6, <1>7

\* Before the first case, and between two.
LEMMA BetweenTexts ==
  ASSUME RunInv, TextInv,
         \/ CountNotRun \/ PassOver \/ BeginCase \/ RunNothing \/ Finish
         \/ \E b, m, ph : testAll(b, m, ph)
  PROVE  TextInv'
<1>1. CASE CountNotRun \/ PassOver \/ RunNothing \/ Finish \/ \E b, m, ph : testAll(b, m, ph)
  <2>1. ~InCase /\ ~InCase' /\ UNCHANGED <<o, failures, times, tallied>>
    BY <1>1 DEF CountNotRun, PassOver, RunNothing, Finish, testAll, InCase, noted, measured, history
  <2> QED
    BY <2>1 DEF TextInv
<1>2. CASE BeginCase
  <2>1. /\ ~InCase /\ InCase' /\ UNCHANGED <<failures, times>> /\ tallied' = 0
        /\ o' = [NewCase EXCEPT !.printed = o.printed]
    BY <1>2 DEF BeginCase, InCase
  <2>2. /\ CaseOK(o) /\ o.log_lst = <<>> /\ times \in Nat /\ failures \in Nat /\ o.temp.logs = <<>>
        /\ Kept(o, failures, times, tallied)
    <3>1. pc # "body"
      BY <2>1 DEF InCase
    <3> QED
      BY <2>1, <3>1, RunnerAssumption DEF RunInv, RunTypes, GroupsPlaced, TextInv
  <2>3. /\ Range(o.printed) = LinesOf(failures, times) /\ Len(o.printed) = failures + times
        /\ o.printed \in Seq(Int)
    BY <2>2, AllPrinted DEF CaseOK
  <2>4. Kept(o', failures, times, 0) /\ o'.totalRow = <<>>
    BY <2>1, <2>2, <2>3, NewKept
  <2> QED
    BY <2>1, <2>4 DEF TextInv
<1> QED
  BY <1>1, <1>2

\* The hooks, and the end of a body.
LEMMA HookTexts ==
  ASSUME RunInv, TextInv, SetUp \/ EndBody \/ TearDown
  PROVE  TextInv'
<1>0. /\ RunTypes /\ CaseOK(o) /\ failures \in Nat /\ Kept(o, failures, times, tallied)
      /\ InCase => o.totalRow = <<>> /\ (Phase # "MEMORY" => tallied = 0)
  BY DEF RunInv, RunTypes, TextInv
<1>1. CASE SetUp
  <2>1. InCase /\ UNCHANGED <<times, tallied, asked, case>>
    BY <1>1 DEF SetUp, InCase, chosen, measured
  <2>2. CASE SetUpFailed(o, failures + 1)
    BY <1>0, <2>1, <2>2, SetUpTexts
  <2>3. CASE pc' = "body" /\ UNCHANGED <<phase, o, failures>>
    BY <1>0, <2>1, <2>3, TextsStay DEF InCase
  <2> QED
    BY <1>1, <2>2, <2>3 DEF SetUp
<1>2. CASE EndBody
  <2>1. InCase /\ InCase' /\ UNCHANGED <<failures, times, tallied, asked, case, phase, o>>
    BY <1>2 DEF EndBody, BodyReturned, InCase, chosen, measured
  <2> QED
    BY <1>0, <2>1, TextsStay
<1>3. CASE TearDown
  <2>1. InCase /\ pc = "tearDown" /\ UNCHANGED <<times, tallied, asked, case>>
    BY <1>3 DEF TearDown, InCase, chosen, measured
  <2>2. PICK value \in BOOLEAN : Leave(o, value, IF value THEN failures ELSE failures + 1)
    BY <1>3 DEF TearDown
  <2> QED
    BY <1>0, <2>1, <2>2, LeaveTexts
<1> QED
  BY <1>1, <1>2, <1>3

\* An assertion that passes, and one that fails without fail-stop.
LEMMA CheckTexts ==
  ASSUME RunInv, TextInv, CheckPasses \/ CheckFails
  PROVE  TextInv'
<1>0. /\ CaseOK(o) /\ failures \in Nat /\ times \in Nat /\ Kept(o, failures, times, tallied)
      /\ InCase /\ InCase' /\ UNCHANGED <<times, tallied, asked, case, phase>>
      /\ o.totalRow = <<>>
  <2>1. CaseOK(o) /\ failures \in Nat /\ times \in Nat
    BY RunnerAssumption DEF RunInv, RunTypes
  <2>2. pc \in {"setUp", "body", "tearDown"} /\ UNCHANGED <<pc, times, tallied, asked, case, phase>>
    BY DEF CheckPasses, CheckFails, MayCheck, chosen
  <2> QED
    BY <2>1, <2>2 DEF TextInv, InCase
<1>1. Phase' = Phase
  BY <1>0, PhaseStays
<1>2. CASE CheckPasses
  <2>1. o' = AddResult(o, TRUE) /\ failures' = failures
    BY <1>2 DEF CheckPasses
  <2>2. SameTexts(o', o) /\ o'.totalRow = o.totalRow
    BY <1>0, <2>1, ResultTexts
  <2>3. Kept(o', failures, times, tallied)
    BY <1>0, <2>2, SameKept
  <2> QED
    BY <1>0, <2>1, <2>2, <2>3, TextsStay
<1>3. CASE CheckFails
  <2>1. PICK c : c = AddResult(o, FALSE)
    OBVIOUS
  <2>2. o' = AddLog(c, failures + 1) /\ failures' = failures + 1
    BY <1>3, <2>1 DEF CheckFails
  <2>3. SameTexts(c, o) /\ c.totalRow = <<>> /\ CaseOK(c)
    BY <1>0, <2>1, ResultTexts, ResultAdded
  <2>4. Kept(c, failures, times, tallied)
    BY <1>0, <2>3, SameKept
  <2>5. Kept(o', failures', times, tallied) /\ o'.totalRow = <<>>
    BY <1>0, <2>2, <2>3, <2>4, LogKept
  <2> QED
    BY <1>0, <1>1, <2>5 DEF TextInv
<1> QED
  BY <1>2, <1>3

\* An assertion that fails under fail-stop: what there is, is printed.
LEMMA StopTexts ==
  ASSUME RunInv, TextInv, CheckStops
  PROVE  TextInv'
<1>1. PICK c, l, dumped, f : /\ c = AddResult(o, FALSE) /\ l = AddLog(c, failures + 1)
                             /\ dumped = DumpGroupEnd(l) /\ f = failures + 1
  OBVIOUS
<1>0. /\ RunTypes /\ CaseOK(o) /\ failures \in Nat /\ times \in Nat
      /\ Kept(o, failures, times, tallied)
      /\ InCase /\ UNCHANGED <<times, tallied, asked, case>>
      /\ o.totalRow = <<>> /\ (Phase # "MEMORY" => tallied = 0)
  BY RunnerAssumption DEF RunInv, RunTypes, TextInv, CheckStops, MayCheck, InCase, chosen
<1>2. SameTexts(c, o) /\ c.totalRow = <<>> /\ CaseOK(c)
  BY <1>0, <1>1, ResultTexts, ResultAdded
<1>3. Kept(c, failures, times, tallied)
  BY <1>0, <1>2, SameKept
<1>4. Kept(l, f, times, tallied) /\ l.totalRow = <<>>
  BY <1>0, <1>1, <1>2, <1>3, LogKept
<1>5. CaseOK(l) /\ f \in Nat /\ f + 1 = failures + 2
  <2>1. f \in Int /\ f \in Nat /\ f + 1 = failures + 2
    BY <1>0, <1>1
  <2>2. CaseOK(l)
    BY <1>1, <1>2, <2>1, LogAdded DEF SameResults
  <2> QED
    BY <2>1, <2>2
<1>6. Kept(dumped, f, times, tallied) /\ dumped.totalRow = <<>> /\ CaseOK(dumped)
  BY <1>0, <1>1, <1>4, <1>5, GroupsKept, GroupsDumped DEF SameResults
<1>7. CASE pc = "body"
  <2>1. o' = dumped /\ failures' = f /\ pc' = "tearDown" /\ phase' = phase
    BY <1>1, <1>7 DEF CheckStops, BodyReturned
  <2>2. Phase' = Phase
    BY <1>0, <2>1, PhaseStays
  <2> QED
    BY <1>0, <1>6, <2>1, <2>2 DEF TextInv, InCase
<1>8. CASE pc = "setUp"
  <2>1. SetUpFailed(dumped, f + 1)
    BY <1>1, <1>5, <1>8 DEF CheckStops
  <2> QED
    BY <1>0, <1>5, <1>6, <2>1, SetUpTexts
<1>9. CASE pc = "tearDown"
  <2>1. Leave(dumped, FALSE, f + 1)
    BY <1>1, <1>5, <1>9 DEF CheckStops
  <2> QED
    BY <1>0, <1>5, <1>6, <1>9, <2>1, LeaveTexts
<1> QED
  BY <1>0, <1>7, <1>8, <1>9 DEF InCase

\* A time measurement, and a memory report.
LEMMA MeasureTexts ==
  ASSUME RunInv, TextInv, MeasureTime \/ RecordMemory
  PROVE  TextInv'
<1>0. /\ CaseOK(o) /\ Alive(o) /\ failures \in Nat /\ times \in Nat /\ tallied \in Nat
      /\ Kept(o, failures, times, tallied)
      /\ InCase /\ InCase' /\ UNCHANGED <<failures, asked, case, phase>>
      /\ o.totalRow = <<>> /\ (Phase # "MEMORY" => tallied = 0)
  BY RunnerAssumption DEF RunInv, RunTypes, GroupsPlaced, TextInv, MeasureTime, RecordMemory, InCase, chosen
<1>1. Phase' = Phase
  BY <1>0, PhaseStays
<1>2. CASE MeasureTime
  <2>1. o' = AddTime(CountedTime(o), -(times + 1)) /\ times' = times + 1 /\ tallied' = tallied
    BY <1>2 DEF MeasureTime
  <2>2. Kept(o', failures, times', tallied) /\ o'.totalRow = <<>>
    BY <1>0, <2>1, TimeKept
  <2> QED
    BY <1>0, <1>1, <2>1, <2>2 DEF TextInv
<1>3. CASE RecordMemory
  <2>1. /\ o' = AddMemory(o, tallied + 1) /\ tallied' = tallied + 1 /\ times' = times
        /\ Phase = "MEMORY" /\ o.group_lst # <<>>
    BY <1>3 DEF RecordMemory
  <2>2. Kept(o', failures, times, tallied') /\ o'.totalRow = <<>>
    BY <1>0, <2>1, MemoryKept
  <2> QED
    BY <1>0, <1>1, <2>1, <2>2 DEF TextInv
<1> QED
  BY <1>2, <1>3

\* A group that starts, and one that ends.
LEMMA GroupTexts ==
  ASSUME RunInv, RunInv', TextInv, startGroup \/ endGroup
  PROVE  TextInv'
<1>0. /\ CaseOK(o) /\ CaseOK(o') /\ Kept(o, failures, times, tallied)
      /\ InCase /\ InCase' /\ UNCHANGED <<failures, times, tallied, asked, case, phase>>
      /\ o.totalRow = <<>> /\ (Phase # "MEMORY" => tallied = 0)
  BY DEF RunInv, RunTypes, TextInv, startGroup, endGroup, InCase, chosen, measured
<1>1. CASE startGroup
  <2>1. PICK g : g = Len(truth) + 1
    OBVIOUS
  <2>2. o' = [o EXCEPT !.log_lst = Append(@, [NoInfo EXCEPT !.id = g]),
                       !.group_lst = Append(@, g)]
    BY <1>1, <2>1 DEF startGroup
  <2>3. g \notin DOMAIN truth
    <3>1. truth \in Seq(Infos)
      BY DEF RunInv, RunTypes
    <3> QED
      BY <2>1, <3>1
  <2>4. \A i \in DOMAIN o.log_lst : o.log_lst[i].id # g
    BY <2>3 DEF RunInv, GroupsCount
  <2>6. Started(o', o, g)
    BY <2>2, <2>4 DEF Started
  <2>5. Kept(o', failures, times, tallied) /\ o'.totalRow = o.totalRow
    BY <1>0, <2>6, StartKept
  <2> QED
    BY <1>0, <2>5, TextsStay
<1>2. CASE endGroup
  <2>1. PICK dumped : /\ dumped = IF Outermost(o) THEN DumpGroupEnd(o) ELSE o
                      /\ o' = [dumped EXCEPT !.group_lst = Front(@)]
    BY <1>2 DEF endGroup
  <2>2. /\ Kept(dumped, failures, times, tallied) /\ dumped.totalRow = o.totalRow
        /\ CaseOK(dumped)
    <3>1. CASE Outermost(o)
      BY <1>0, <2>1, <3>1, GroupsKept, GroupsDumped DEF SameResults
    <3>2. CASE ~Outermost(o)
      BY <1>0, <2>1, <3>2
    <3> QED
      BY <3>1, <3>2
  <2>3. DOMAIN dumped = Fields
    BY <2>2 DEF CaseOK
  <2>4. SameTexts(o', dumped) /\ o'.totalRow = dumped.totalRow
    <3>1. PICK fr : o' = [dumped EXCEPT !.group_lst = fr]
      BY <2>1, <2>3 DEF Fields
    <3>2. /\ o'.root = dumped.root /\ o'.temp = dumped.temp /\ o'.log_lst = dumped.log_lst
          /\ o'.printed = dumped.printed /\ o'.rows = dumped.rows /\ o'.totalRow = dumped.totalRow
      BY <2>3, <3>1 DEF Fields
    <3> QED
      BY <3>2 DEF SameTexts
  <2>5. Kept(o', failures, times, tallied)
    BY <2>2, <2>4, SameKept
  <2> QED
    BY <1>0, <2>2, <2>4, <2>5, TextsStay
<1> QED
  BY <1>1, <1>2

\* TextInv is inductive on top of RunInv.
LEMMA TextInit ==
  ASSUME Init
  PROVE  TextInv
<1>1. NewCase = [NewCase EXCEPT !.printed = <<>>] /\ <<>> \in Seq(Int)
  <2>1. /\ DOMAIN NewCase = Fields /\ NewCase = [f \in Fields |-> NewCase[f]]
        /\ NewCase.printed = <<>>
    BY DEF NewCase, Fields
  <2> QED
    BY <2>1 DEF Fields
<1>2. Range(<<>>) = LinesOf(0, 0) /\ Len(<<>>) = 0 + 0
  <2>1. Range(<<>>) = {} /\ 1..0 = {}
    BY DEF Range
  <2> QED
    BY <2>1 DEF LinesOf
<1>3. Kept(NewCase, 0, 0, 0) /\ NewCase.totalRow = <<>> /\ NewCase.temp.logs = <<>>
  BY <1>1, <1>2, NewKept
<1>4. Range(<<>>) = 1..0 /\ Len(<<>>) = 0
  BY DEF Range
<1> QED
  BY <1>3, <1>4 DEF Init, TextInv, InCase

LEMMA TextNext ==
  ASSUME RunInv, RunInv', TextInv, Steps \/ UNCHANGED vars \/ \E b, m, ph : testAll(b, m, ph)
  PROVE  TextInv'
<1>1. CASE UNCHANGED vars
  <2>1. /\ UNCHANGED <<o, pc, failures, times, tallied>> /\ Phase' = Phase
    BY <1>1, SamePhase DEF vars, history, noted, measured
  <2> QED
    BY <2>1 DEF TextInv, InCase
<1>2. CASE Steps
  BY <1>2, BetweenTexts, HookTexts, CheckTexts, StopTexts, MeasureTexts, GroupTexts DEF Steps
<1>3. CASE \E b, m, ph : testAll(b, m, ph)
  BY <1>3, BetweenTexts
<1> QED
  BY <1>1, <1>2, <1>3

\* When run() has returned, what is held is printed and in the rows.
LEMMA AllSaid ==
  ASSUME RunInv, TextInv
  PROVE  PrintedOnce /\ MemoryRowsExact
<1>1. SUFFICES ASSUME pc \in {"next", "done"}
               PROVE  /\ Range(o.printed) = LinesOf(failures, times)
                      /\ Len(o.printed) = failures + times
                      /\ Range(o.rows) = 1..tallied /\ Len(o.rows) = tallied
                      /\ Range(o.totalRow) = 1..tallied /\ Len(o.totalRow) = tallied
  BY DEF PrintedOnce, MemoryRowsExact, LinesOf
<1>2. ~InCase /\ pc # "body"
  BY <1>1 DEF InCase
<1>3. /\ CaseOK(o) /\ o.log_lst = <<>> /\ failures \in Nat /\ times \in Nat
      /\ o.temp.logs = <<>> /\ Kept(o, failures, times, tallied)
      /\ Range(o.totalRow) = 1..tallied /\ Len(o.totalRow) = tallied
  BY <1>2, RunnerAssumption DEF RunInv, RunTypes, GroupsPlaced, TextInv
<1> QED
  BY <1>3, AllPrinted

\* The runner by itself keeps both invariants, and the program does.
LEMMA RunnerInvariant == Spec => [](RunInv /\ TextInv)
<1>1. Init => RunInv /\ TextInv
  BY RunInvInit, TextInit
<1>2. ASSUME RunInv, TextInv, [Next]_vars
      PROVE  RunInv' /\ TextInv'
  <2>1. \/ Steps \/ UNCHANGED vars
        \/ \E b \in BOOLEAN, m \in SUBSET (1..Cases), ph \in SUBSET Range(PhaseOrder) :
             testAll(b, m, ph)
    <3>1. Askable \subseteq SUBSET Range(PhaseOrder)
      BY RunnerAssumption
    <3> QED
      BY <1>2, <3>1 DEF Next, Gone
  <2>2. RunInv'
    BY <1>2, <2>1, StepsKeep, CallKeeps
  <2> QED
    BY <1>2, <2>1, <2>2, TextNext
<1> QED
  BY <1>1, <1>2, PTL DEF Spec

LEMMA ProgramTexts == ProgramSpec => [](RunInv /\ TextInv)
<1>1. ProgramInit => TextInv
  BY TextInit DEF ProgramInit
<1>2. ASSUME ProgramInv, ProgramInv', TextInv, [ProgramNext]_programVars
      PROVE  TextInv'
  <2>1. \/ Steps \/ UNCHANGED vars \/ \E b, m, ph : testAll(b, m, ph)
    BY <1>2, ProgramStep
  <2> QED
    BY <1>2, <2>1, TextNext DEF ProgramInv
<1>3. ProgramInv => RunInv
  BY DEF ProgramInv
<1> QED
  BY <1>1, <1>2, <1>3, ProgramInvariant, PTL DEF ProgramSpec

\* The line of every failure and of every time measurement is printed, once, by
\* the time run() returns: wherever logconsole or log_time_result put it, nested
\* groups, hooks that fail and fail-stop included, in the runner by itself and
\* under any command line.  No assumption is made on what the cases do.
THEOREM LinesArePrinted ==
  /\ Spec => []PrintedOnce
  /\ ProgramSpec => []PrintedOnce
<1>1. RunInv /\ TextInv => PrintedOnce
  BY AllSaid
<1>2. Spec => []PrintedOnce
  BY <1>1, RunnerInvariant, PTL
<1>3. ProgramSpec => []PrintedOnce
  BY <1>1, ProgramTexts, PTL
<1> QED
  BY <1>2, <1>3

\* Every memory report of a case is in exactly one row of its memory table and
\* once in the table's total, wherever add_memory tallied it and even if
\* fail-stop cut the memory phase.
THEOREM ReportsHaveRows ==
  /\ Spec => []MemoryRowsExact
  /\ ProgramSpec => []MemoryRowsExact
<1>1. RunInv /\ TextInv => MemoryRowsExact
  BY AllSaid
<1>2. Spec => []MemoryRowsExact
  BY <1>1, RunnerInvariant, PTL
<1>3. ProgramSpec => []MemoryRowsExact
  BY <1>1, ProgramTexts, PTL
<1> QED
  BY <1>2, <1>3

-----------------------------------------------------------------------------
(* The hooks of a case. *)

\* The hooks of the first n phases of a case whose phases are d.
UpTo(d, n) ==
  [i \in 1..2 * n |-> <<IF i % 2 = 1 THEN "setUp" ELSE "tearDown", d[(i + 1) \div 2]>>]

\* One phase more is a setUp and a tearDown more.
LEMMA OnePhaseMore ==
  ASSUME NEW d, NEW k \in Nat \ {0}
  PROVE  UpTo(d, k) = Append(Append(UpTo(d, k - 1), <<"setUp", d[k]>>),
                             <<"tearDown", d[k]>>)
<1>1. PICK n, u, v, s, t : /\ n = 2 * (k - 1) /\ u = UpTo(d, k - 1)
                           /\ v = UpTo(d, k) /\ s = <<"setUp", d[k]>> /\ t = <<"tearDown", d[k]>>
  OBVIOUS
<1>2. n \in Nat /\ 2 * k = n + 2 /\ n + 1 = 2 * k - 1
  BY <1>1
<1>3. \A i \in 1..n : i % 2 \in {0, 1} /\ (i + 1) \div 2 \in Int
  BY <1>2
<1>4. /\ (n + 1) % 2 = 1 /\ (n + 2) \div 2 = k
      /\ (n + 2) % 2 = 0 /\ (n + 3) \div 2 = k
  BY <1>1, <1>2
<1>5. /\ u = [i \in 1..n |-> <<IF i % 2 = 1 THEN "setUp" ELSE "tearDown", d[(i + 1) \div 2]>>]
      /\ v = [i \in 1..n + 2 |-> <<IF i % 2 = 1 THEN "setUp" ELSE "tearDown", d[(i + 1) \div 2]>>]
  BY <1>1, <1>2 DEF UpTo
<1>6. AnyList(u) /\ Len(u) = n /\ DOMAIN u = 1..n
  <2>1. \A i \in 1..n : u[i] \in Range(u)
    BY <1>5 DEF Range
  <2>2. u = [i \in 1..n |-> u[i]]
    BY <1>5
  <2>3. PICK R : R = Range(u)
    OBVIOUS
  <2>4. u \in Seq(R) /\ Len(u) = n
    BY <1>2, <2>1, <2>2, <2>3
  <2> QED
    BY <2>2, <2>3, <2>4 DEF AnyList
<1>7. PICK a, b : a = Append(u, s) /\ b = Append(a, t)
  OBVIOUS
<1>8. AnyList(a) /\ Longer(a, u, s) /\ AnyList(b) /\ Longer(b, a, t)
  BY <1>6, <1>7, AppendFacts
<1>9. /\ Len(b) = n + 2 /\ DOMAIN b = 1..n + 2 /\ b[n + 2] = t /\ b[n + 1] = s
      /\ \A i \in 1..n : b[i] = u[i]
  BY <1>2, <1>6, <1>8 DEF Longer
<1>10. \A i \in 1..n + 2 : b[i] = v[i]
  <2>1. v[n + 1] = s /\ v[n + 2] = t
    BY <1>1, <1>2, <1>4, <1>5
  <2>2. \A i \in 1..n : u[i] = v[i]
    BY <1>2, <1>5
  <2> QED
    BY <1>2, <1>9, <2>1, <2>2
<1>11. b = [i \in DOMAIN b |-> b[i]]
  <2>1. b \in Seq(Range(b))
    BY <1>8 DEF AnyList
  <2> QED
    BY <2>1
<1> QED
  BY <1>1, <1>5, <1>7, <1>9, <1>10, <1>11

\* UpTo is a list, of two hooks for each phase.
LEMMA UpToList ==
  ASSUME NEW d, NEW k \in Nat
  PROVE  AnyList(UpTo(d, k)) /\ Len(UpTo(d, k)) = 2 * k /\ (k = 0 => UpTo(d, k) = <<>>)
<1>1. PICK u, n : u = UpTo(d, k) /\ n = 2 * k
  OBVIOUS
<1>2. n \in Nat /\ (k = 0 <=> n = 0)
  BY <1>1
<1>3. u = [i \in 1..n |-> u[i]]
  BY <1>1 DEF UpTo
<1>4. PICK R : R = Range(u)
  OBVIOUS
<1>5. \A i \in 1..n : u[i] \in R
  BY <1>3, <1>4 DEF Range
<1>6. u \in Seq(R) /\ Len(u) = n
  BY <1>2, <1>3, <1>5
<1>7. n = 0 => u = <<>>
  BY <1>6
<1> QED
  BY <1>1, <1>2, <1>4, <1>6, <1>7 DEF AnyList

\* Two elements appended one by one, and together.
LEMMA TwoMore ==
  ASSUME NEW u, AnyList(u), NEW a, NEW b
  PROVE  u \o <<a, b>> = Append(Append(u, a), b)
<1>1. PICK n, s, t, p, v : /\ n = Len(u) /\ s = Append(u, a) /\ t = Append(s, b)
                           /\ p = <<a, b>> /\ v = u \o p
  OBVIOUS
<1>2. PICK S : S = Range(u) \union {a, b}
  OBVIOUS
<1>3. u \in Seq(S) /\ p \in Seq(S) /\ Len(p) = 2 /\ p[1] = a /\ p[2] = b
  <2>1. PICK R : R = Range(u)
    OBVIOUS
  <2>2. u \in Seq(R) /\ R \subseteq S /\ a \in S /\ b \in S
    BY <1>2, <2>1 DEF AnyList
  <2> QED
    BY <1>1, <2>2
<1>4. n \in Nat /\ DOMAIN u = 1..n
  BY <1>1, <1>3
<1>5. /\ v = [i \in 1..n + 2 |-> v[i]] /\ \A i \in 1..n : v[i] = u[i]
      /\ v[n + 1] = a /\ v[n + 2] = b
  BY <1>1, <1>3, <1>4
<1>6. AnyList(s) /\ Longer(s, u, a) /\ AnyList(t) /\ Longer(t, s, b)
  BY <1>1, AppendFacts
<1>7. /\ DOMAIN t = 1..n + 2 /\ \A i \in 1..n : t[i] = u[i]
      /\ t[n + 1] = a /\ t[n + 2] = b
  BY <1>1, <1>4, <1>6 DEF Longer
<1>8. t = [i \in DOMAIN t |-> t[i]]
  <2>1. t \in Seq(Range(t))
    BY <1>6 DEF AnyList
  <2> QED
    BY <2>1
<1>9. \A i \in 1..n + 2 : v[i] = t[i]
  BY <1>4, <1>5, <1>7
<1> QED
  BY <1>1, <1>5, <1>7, <1>8, <1>9

\* All of them are what the case calls when nothing goes wrong.
LEMMA FixturesAre ==
  ASSUME NEW c
  PROVE  Fixtures(c) = UpTo(Due(c), Len(Due(c)))
<1>1. PICK d, n, q : /\ d = Due(c) /\ n = Len(d)
                     /\ q = [i \in DOMAIN d |-> <<<<"setUp", d[i]>>, <<"tearDown", d[i]>>>>]
  OBVIOUS
<1>2. n \in Nat /\ DOMAIN d = 1..n
  <2>1. d \in Seq(Range(PhaseOrder))
    BY <1>1, DueFacts
  <2> QED
    BY <1>1, <2>1
<1>3. Fixtures(c) = FlattenSeq(q)
  BY <1>1 DEF Fixtures
<1>4. Len(q) = n
  BY <1>1, <1>2
<1>5. CASE n = 0
  <2>1. q = <<>>
    BY <1>1, <1>2, <1>5
  <2>2. FlattenSeq(<<>>) = <<>>
    BY DEF FlattenSeq
  <2>3. UpTo(d, n) = <<>>
    BY <1>2, <1>5, UpToList
  <2> QED
    BY <1>1, <1>3, <2>1, <2>2, <2>3
<1>6. CASE n # 0
  <2>1. PICK f : Flattening(q, n, f) /\ FlattenSeq(q) = f[n]
    BY <1>2, <1>4, <1>6, FlattenDef
  <2>2. \A i \in 1..n : f[i] = IF i = 1 THEN q[i] ELSE f[i - 1] \o q[i]
    BY <2>1 DEF Flattening
  <2> DEFINE T == {k \in Nat : k \in 1..n => f[k] = UpTo(d, k)}
  <2>3. 0 \in T
    OBVIOUS
  <2>4. ASSUME NEW k \in T PROVE k + 1 \in T
    <3>1. SUFFICES ASSUME k + 1 \in 1..n PROVE f[k + 1] = UpTo(d, k + 1)
      OBVIOUS
    <3>2. PICK j : j = k + 1
      OBVIOUS
    <3>3. k \in Nat /\ j \in Nat \ {0} /\ j - 1 = k /\ j \in 1..n /\ (k # 0 => k \in 1..n)
      BY <1>2, <3>1, <3>2
    <3>4. q[j] = <<<<"setUp", d[j]>>, <<"tearDown", d[j]>>>>
      BY <1>1, <1>2, <3>3
    <3>5. PICK a, b, u : a = <<"setUp", d[j]>> /\ b = <<"tearDown", d[j]>> /\ u = UpTo(d, k)
      OBVIOUS
    <3>6. UpTo(d, j) = u \o <<a, b>>
      <4>1. AnyList(u)
        BY <3>3, <3>5, UpToList
      <4>2. UpTo(d, j) = Append(Append(u, a), b)
        BY <1>1, <3>3, <3>5, OnePhaseMore
      <4> QED
        BY <4>1, <4>2, TwoMore
    <3>7. CASE k = 0
      <4>1. u = <<>>
        BY <3>3, <3>5, <3>7, UpToList
      <4>2. <<>> \o <<a, b>> = <<a, b>>
        <5>1. <<a, b>> \in Seq({a, b})
          OBVIOUS
        <5> QED
          BY <5>1
      <4>3. f[j] = q[j]
        BY <2>2, <3>2, <3>3, <3>7
      <4> QED
        BY <3>2, <3>4, <3>5, <3>6, <4>1, <4>2, <4>3
    <3>8. CASE k # 0
      <4>1. f[k] = u
        BY <3>3, <3>5, <3>8
      <4>2. f[j] = f[k] \o q[j]
        <5>1. j # 1
          BY <3>2, <3>3, <3>8
        <5> QED
          BY <2>2, <3>3, <5>1
      <4> QED
        BY <3>2, <3>4, <3>5, <3>6, <4>1, <4>2
    <3> QED
      BY <3>7, <3>8
  <2>5. T = Nat
    <3>1. T \subseteq Nat
      OBVIOUS
    <3> HIDE DEF T
    <3> QED
      BY <2>3, <2>4, <3>1, NatSet
  <2>6. n \in T /\ n \in 1..n
    <3> HIDE DEF T
    <3> QED
      BY <1>2, <1>6, <2>5
  <2> QED
    BY <1>1, <1>3, <2>1, <2>6
<1> QED
  BY <1>5, <1>6

\* The last element of a list, and what is before it.
LEMMA EndsWith ==
  ASSUME NEW u, AnyList(u), NEW s
  PROVE  Append(u, s) # <<>> /\ Last(Append(u, s)) = s /\ Front(Append(u, s)) = u
<1>1. PICK a, n : a = Append(u, s) /\ n = Len(u)
  OBVIOUS
<1>2. Longer(a, u, s)
  BY <1>1, AppendFacts
<1>3. a # <<>> /\ Last(a) = s
  <2>1. Len(a) = n + 1 /\ n \in Nat /\ a[n + 1] = s
    BY <1>1, <1>2 DEF Longer
  <2> QED
    BY <2>1 DEF Last
<1>4. Front(a) = u
  <2>1. PICK S : S = Range(u) \union {s}
    OBVIOUS
  <2>2. u \in Seq(S) /\ s \in S
    <3>1. PICK R : R = Range(u)
      OBVIOUS
    <3> QED
      BY <2>1, <3>1 DEF AnyList
  <2> QED
    BY <1>1, <2>2, FrontOfMore
<1> QED
  BY <1>1, <1>3, <1>4

\* A list that agrees with the beginning of another.
LEMMA Agrees ==
  ASSUME NEW s, AnyList(s), NEW t, AnyList(t), Len(s) <= Len(t), \A i \in 1..Len(s) : s[i] = t[i]
  PROVE  IsPrefix(s, t)
<1>1. PICK n, R, Q : n = Len(s) /\ R = Range(s) /\ Q = Range(t)
  OBVIOUS
<1>2. s \in Seq(R) /\ t \in Seq(Q) /\ n \in Nat /\ n <= Len(t)
  BY <1>1 DEF AnyList
<1>3. /\ SubSeq(s, 1, n) = [i \in 1..n |-> SubSeq(s, 1, n)[i]]
      /\ SubSeq(t, 1, n) = [i \in 1..n |-> SubSeq(t, 1, n)[i]]
      /\ \A i \in 1..n : SubSeq(s, 1, n)[i] = s[i] /\ SubSeq(t, 1, n)[i] = t[i]
  BY <1>2
<1>4. SubSeq(s, 1, n) = SubSeq(t, 1, n)
  BY <1>1, <1>3
<1> QED
  BY <1>1, <1>2, <1>4 DEF IsPrefix

\* What the hooks of a case that is under way begin with, with and without the
\* tearDown of its last phase.
LEMMA BeginsAsFixtures ==
  ASSUME NEW d, NEW n \in Nat, NEW k \in 1..n
  PROVE  LET before == UpTo(d, k - 1)
             up     == Append(before, <<"setUp", d[k]>>)
         IN /\ IsPrefix(before, UpTo(d, n)) /\ IsPrefix(up, UpTo(d, n)) /\ IsPrefix(UpTo(d, k), UpTo(d, n))
            /\ up # <<>> /\ Last(up) = <<"setUp", d[k]>> /\ Front(up) = before
            /\ UpTo(d, k) = Append(up, <<"tearDown", d[k]>>)
            /\ UpTo(d, k) # <<>> /\ Last(UpTo(d, k))[1] = "tearDown"
<1>1. PICK u, s, t, a, w, v, m : /\ u = UpTo(d, k - 1) /\ s = <<"setUp", d[k]>>
                                 /\ t = <<"tearDown", d[k]>>
                                 /\ a = Append(u, s) /\ w = UpTo(d, k) /\ v = UpTo(d, n) /\ m = 2 * (k - 1)
  OBVIOUS
<1>2. m \in Nat /\ 2 * k = m + 2 /\ k \in Nat \ {0} /\ k - 1 \in Nat /\ m + 2 <= 2 * n
  BY <1>1
<1>3. /\ AnyList(u) /\ Len(u) = m /\ AnyList(w) /\ Len(w) = m + 2 /\ AnyList(v) /\ Len(v) = 2 * n
  BY <1>1, <1>2, UpToList
<1>4. w = Append(a, t)
  BY <1>1, <1>2, OnePhaseMore
<1>5. AnyList(a) /\ Longer(a, u, s) /\ Longer(w, a, t)
  BY <1>1, <1>3, <1>4, AppendFacts
<1>6. /\ Len(a) = m + 1 /\ a[m + 1] = s /\ w[m + 2] = t
      /\ \A i \in 1..m : u[i] = a[i]
      /\ \A i \in 1..m + 1 : a[i] = w[i]
  BY <1>2, <1>3, <1>5 DEF Longer
<1>7. \A i \in 1..m + 2 : w[i] = v[i]
  <2>1. \A i \in 1..m + 2 : i \in 1..2 * k /\ i \in 1..2 * n
    BY <1>2
  <2> QED
    BY <1>1, <2>1 DEF UpTo
<1>8. IsPrefix(u, v) /\ IsPrefix(a, v) /\ IsPrefix(w, v)
  <2>1. /\ \A i \in 1..m : u[i] = v[i]
        /\ \A i \in 1..m + 1 : a[i] = v[i]
        /\ m <= 2 * n /\ m + 1 <= 2 * n
    BY <1>2, <1>6, <1>7
  <2>2. IsPrefix(u, v)
    BY <1>3, <2>1, Agrees
  <2>3. IsPrefix(a, v)
    <3>1. AnyList(a) /\ AnyList(v)
      BY <1>3, <1>5
    <3>2. Len(a) <= Len(v) /\ \A i \in 1..Len(a) : a[i] = v[i]
      BY <1>2, <1>3, <1>6, <2>1
    <3> QED
      BY <3>1, <3>2, Agrees
  <2>4. IsPrefix(w, v)
    BY <1>2, <1>3, <1>7, Agrees
  <2> QED
    BY <2>2, <2>3, <2>4
<1>9. a # <<>> /\ Last(a) = s /\ Front(a) = u /\ w # <<>> /\ Last(w) = t
  BY <1>1, <1>3, <1>4, <1>5, EndsWith
<1>10. t[1] = "tearDown"
  BY <1>1
<1> QED
  BY <1>1, <1>4, <1>8, <1>9, <1>10

-----------------------------------------------------------------------------
(* Steps of the runner, and the hooks they have called. *)

\* The hooks called so far, of a case whose phases are d, in phase k; lost says
\* that the case has failed.
Hooked(at, d, k, hooks, lost) ==
  /\ at = "main" => hooks = <<>>
  /\ at \in {"setUp", "body", "tearDown"} => k \in 1..Len(d)
  /\ at = "setUp" => hooks = UpTo(d, k - 1)
  /\ at = "body" => hooks = Append(UpTo(d, k - 1), <<"setUp", d[k]>>)
  /\ at = "tearDown" => hooks = UpTo(d, k)
  /\ at \in {"next", "done"} /\ hooks # <<>> =>
       /\ k \in 1..Len(d)
       /\ \/ hooks = UpTo(d, k) /\ (k # Len(d) => lost)
          \/ hooks = Append(UpTo(d, k - 1), <<"failed", d[k]>>) /\ lost

\* A phase with a failure in it, and a body that fail-stop cut, have counted it.
Failing ==
  (pc \in {"setUp", "body"} /\ o.root.failed > 0) \/ stopped => failures > 0

FixtureInv == Hooked(pc, Due(case), phase, calls, failures > 0 /\ fail > 0) /\ Failing

LEMMA DueStays ==
  ASSUME UNCHANGED <<asked, case>>
  PROVE  Due(case)' = Due(case)
BY DEF Due

\* What is called so far is what FixturesExact says.
LEMMA HooksExact ==
  ASSUME RunInv, FixtureInv
  PROVE  FixturesExact
<1>1. PICK d, k, n, up : /\ d = Due(case) /\ k = phase /\ n = Len(d)
                         /\ up = IF calls # <<>> /\ Last(calls)[1] = "failed" THEN Front(calls) ELSE calls
  OBVIOUS
<1>2. Fixtures(case) = UpTo(d, n) /\ n \in Nat
  BY <1>1, FixturesAre, DueFacts
<1>3. Hooked(pc, d, k, calls, failures > 0 /\ fail > 0)
  BY <1>1 DEF FixtureInv
<1>4. pc \in {"main", "next", "setUp", "body", "tearDown", "done"}
  BY DEF RunInv, RunTypes
<1>5. SUFFICES ASSUME calls # <<>> \/ pc = "body"
               PROVE  /\ IsPrefix(up, UpTo(d, n))
                      /\ pc = "body" => Last(calls) = <<"setUp", Phase>>
                      /\ pc \in {"next", "done"} =>
                           /\ Last(calls)[1] # "setUp"
                           /\ up # UpTo(d, n) => failures > 0 /\ fail > 0
  BY <1>1, <1>2 DEF FixturesExact
<1>6. CASE k \in 1..n
  <2>1. PICK u, s, a, t : /\ u = UpTo(d, k - 1) /\ s = <<"setUp", d[k]>> /\ a = Append(u, s)
                          /\ t = UpTo(d, k)
    OBVIOUS
  <2>2. /\ IsPrefix(u, UpTo(d, n)) /\ IsPrefix(a, UpTo(d, n)) /\ IsPrefix(t, UpTo(d, n))
        /\ a # <<>> /\ Last(a) = s /\ Front(a) = u /\ t # <<>> /\ Last(t)[1] = "tearDown"
    BY <1>2, <1>6, <2>1, BeginsAsFixtures
  <2>3. CASE pc = "setUp"
    <3>1. calls = u /\ u # <<>>
      BY <1>1, <1>3, <1>5, <2>1, <2>3 DEF Hooked
    <3>2. k - 1 \in 1..n
      BY <1>2, <1>6, <2>1, <3>1, UpToList
    <3>3. Last(u)[1] = "tearDown"
      BY <1>2, <2>1, <3>2, BeginsAsFixtures
    <3>4. up = u
      BY <1>1, <3>1, <3>3
    <3> QED
      BY <2>2, <2>3, <3>4
  <2>4. CASE pc = "body"
    <3>1. calls = a
      BY <1>1, <1>3, <2>1, <2>4 DEF Hooked
    <3>2. s[1] = "setUp"
      BY <2>1
    <3>3. up = a
      BY <1>1, <2>2, <3>1, <3>2
    <3>4. Phase = d[k]
      <4>1. case > 0
        BY <2>4 DEF RunInv, RunTypes, InCase
      <4>2. d \in Seq(Range(PhaseOrder))
        BY <1>1, DueFacts
      <4>3. phase \in DOMAIN Due(case)
        BY <1>1, <1>6, <4>2
      <4> QED
        BY <1>1, <4>1, <4>3 DEF Phase
    <3> QED
      BY <2>1, <2>2, <2>4, <3>1, <3>3, <3>4
  <2>5. CASE pc = "tearDown"
    <3>1. calls = t
      BY <1>1, <1>3, <2>1, <2>5 DEF Hooked
    <3>2. up = t
      BY <1>1, <2>2, <3>1
    <3> QED
      BY <2>2, <2>5, <3>2
  <2>6. CASE pc \in {"next", "done"}
    <3>1. CASE calls = t /\ (k # n => failures > 0 /\ fail > 0)
      <4>1. up = t
        BY <1>1, <2>2, <3>1
      <4> QED
        BY <2>1, <2>2, <2>6, <3>1, <4>1
    <3>2. CASE calls = Append(u, <<"failed", d[k]>>) /\ failures > 0 /\ fail > 0
      <4>1. Last(calls) = <<"failed", d[k]>> /\ Front(calls) = u /\ calls # <<>>
        <5>1. k - 1 \in Nat
          BY <1>6
        <5>2. AnyList(u)
          BY <2>1, <5>1, UpToList
        <5> QED
          BY <3>2, <5>2, EndsWith
      <4>2. Last(calls)[1] = "failed"
        BY <4>1
      <4>3. up = u
        BY <1>1, <4>1, <4>2
      <4> QED
        BY <2>2, <2>6, <3>2, <4>2, <4>3
    <3> QED
      BY <1>1, <1>3, <1>5, <2>1, <2>6, <3>1, <3>2 DEF Hooked
  <2>7. CASE pc = "main"
    BY <1>3, <1>5, <2>7 DEF Hooked
  <2> QED
    BY <1>4, <2>3, <2>4, <2>5, <2>6, <2>7
<1> QED
  BY <1>1, <1>3, <1>4, <1>5, <1>6 DEF Hooked

\* Between two hooks nothing is called, and no failure is taken back.
LEMMA NoneCalled ==
  ASSUME FixtureInv, UNCHANGED <<asked, case, pc, phase, calls>>,
         failures > 0 /\ fail > 0 => failures' > 0 /\ fail' > 0, Failing'
  PROVE  FixtureInv'
<1>1. PICK d, lost : d = Due(case) /\ lost = (failures > 0 /\ fail > 0)
  OBVIOUS
<1>2. Hooked(pc, d, phase, calls, lost)
  BY <1>1 DEF FixtureInv
<1>3. Due(case)' = d
  BY <1>1, DueStays
<1>4. Hooked(pc, d, phase, calls, failures' > 0 /\ fail' > 0)
  BY <1>1, <1>2 DEF Hooked
<1> QED
  BY <1>3, <1>4 DEF FixtureInv

\* The phase that runs.
LEMMA PhaseRuns ==
  ASSUME RunInv, FixtureInv, InCase
  PROVE  /\ phase \in 1..Len(Due(case)) /\ Len(Due(case)) \in Nat
         /\ Phase = Due(case)[phase]
<1>1. phase \in 1..Len(Due(case))
  BY DEF FixtureInv, Hooked, InCase
<1>2. Due(case) \in Seq(Range(PhaseOrder)) /\ Len(Due(case)) \in Nat
  BY DueFacts
<1>3. case > 0 /\ phase \in DOMAIN Due(case)
  BY <1>1, <1>2 DEF RunInv, RunTypes
<1> QED
  BY <1>1, <1>2, <1>3 DEF Phase

\* A setUp that fails is the last hook of its case, which has failed.
LEMMA SetUpHooks ==
  ASSUME RunInv, FixtureInv, pc = "setUp", NEW obj, NEW line \in Nat \ {0},
         SetUpFailed(obj, line), UNCHANGED <<asked, case>>
  PROVE  FixtureInv'
<1>1. PICK d, k : d = Due(case) /\ k = phase
  OBVIOUS
<1>2. /\ failures' = line /\ calls' = Append(calls, <<"failed", Phase>>) /\ pc' = "next"
      /\ fail' = fail + 1 /\ phase' = k
  BY <1>1 DEF SetUpFailed, EndCase, Called
<1>3. failures' > 0 /\ fail' > 0
  BY <1>2 DEF RunInv, Tallied
<1>4. Due(case)' = d
  BY <1>1, DueStays
<1>5. k \in 1..Len(d) /\ Phase = d[k]
  BY <1>1, PhaseRuns DEF InCase
<1>6. calls = UpTo(d, k - 1)
  BY <1>1 DEF FixtureInv, Hooked
<1>7. Hooked("next", d, k, calls', failures' > 0 /\ fail' > 0)
  BY <1>2, <1>3, <1>5, <1>6 DEF Hooked
<1> QED
  BY <1>2, <1>3, <1>4, <1>7 DEF FixtureInv, Failing

\* The body returns, and tearDown is called.
LEMMA BodyHooks ==
  ASSUME RunInv, FixtureInv, pc = "body", NEW value \in BOOLEAN, BodyReturned(value),
         UNCHANGED <<asked, case, phase, fail>>,
         failures' > 0 \/ (failures' = failures /\ value = result(o))
  PROVE  FixtureInv'
<1>1. PICK d, k, n : d = Due(case) /\ k = phase /\ n = Len(d)
  OBVIOUS
<1>2. /\ calls' = Append(calls, <<"tearDown", Phase>>) /\ pc' = "tearDown" /\ phase' = k
      /\ stopped' => ~value
  BY <1>1 DEF BodyReturned, Called
<1>3. Due(case)' = d
  BY <1>1, DueStays
<1>4. k \in 1..n /\ n \in Nat /\ Phase = d[k]
  BY <1>1, PhaseRuns DEF InCase
<1>5. calls = Append(UpTo(d, k - 1), <<"setUp", d[k]>>)
  BY <1>1 DEF FixtureInv, Hooked
<1>6. calls' = UpTo(d, k)
  <2>1. UpTo(d, k) = Append(Append(UpTo(d, k - 1), <<"setUp", d[k]>>), <<"tearDown", d[k]>>)
    BY <1>4, BeginsAsFixtures
  <2> QED
    BY <1>2, <1>4, <1>5, <2>1
<1>7. Hooked("tearDown", d, k, calls', failures' > 0 /\ fail' > 0)
  BY <1>1, <1>4, <1>6 DEF Hooked
<1>8. Failing'
  <2>1. o.root.failed \in Nat
    BY DEF RunInv, RunTypes, CaseOK, Infos
  <2>2. ~result(o) => failures > 0
    BY <2>1 DEF result, FixtureInv, Failing
  <2> QED
    BY <1>2, <2>2 DEF Failing
<1> QED
  BY <1>2, <1>3, <1>7, <1>8 DEF FixtureInv

\* After a tearDown: the next phase, or the end of a case that has failed or has
\* had all its phases.
LEMMA LeaveHooks ==
  ASSUME RunInv, FixtureInv, pc = "tearDown", NEW obj, CaseOK(obj), obj.log_lst = <<>>,
         NEW value \in BOOLEAN, NEW line \in Nat, line > 0 \/ line = failures,
         Leave(obj, value, line), UNCHANGED <<asked, case, calls>>
  PROVE  FixtureInv'
<1>1. PICK d, k, n, left : /\ d = Due(case) /\ k = phase /\ n = Len(d)
                           /\ left = IF value THEN obj ELSE FixtureFailed(obj, line)
  OBVIOUS
<1>2. Due(case)' = d
  BY <1>1, DueStays
<1>3. k \in 1..n /\ n \in Nat /\ calls = UpTo(d, k)
  BY <1>1, PhaseRuns DEF InCase, FixtureInv, Hooked
<1>4. stopped => failures > 0
  BY DEF FixtureInv, Failing
<1>5. CASE ~stopped /\ k < n
  <2>1. /\ o' = ChangeType(DumpEnd(left)) /\ phase' = k + 1 /\ pc' = "setUp" /\ stopped' = FALSE
    BY <1>1, <1>5 DEF Leave
  <2>2. o'.root.failed = 0
    <3>1. line \in Int
      OBVIOUS
    <3> QED
      BY <1>1, <2>1, <3>1, PhaseEnded
  <2>3. k + 1 \in 1..n /\ k + 1 - 1 = k
    BY <1>3, <1>5
  <2>4. Hooked("setUp", d, k + 1, calls, failures' > 0 /\ fail' > 0)
    BY <1>1, <1>3, <2>3 DEF Hooked
  <2> QED
    BY <1>2, <2>1, <2>2, <2>4 DEF FixtureInv, Failing
<1>6. CASE ~(~stopped /\ k < n)
  <2>1. /\ phase' = k /\ pc' = "next" /\ stopped' = FALSE /\ failures' = line
        /\ stopped => fail' = fail + 1
    BY <1>1, <1>6 DEF Leave, EndCase
  <2>2. k # n => failures' > 0 /\ fail' > 0
    <3>1. k # n => stopped
      BY <1>3, <1>6
    <3> QED
      BY <1>4, <2>1, <3>1 DEF RunInv, Tallied
  <2>3. Hooked("next", d, k, calls, failures' > 0 /\ fail' > 0)
    BY <1>1, <1>3, <2>2 DEF Hooked
  <2> QED
    BY <1>2, <2>1, <2>3 DEF FixtureInv, Failing
<1> QED
  BY <1>5, <1>6

\* Before the first case, and between two.
LEMMA BetweenHooks ==
  ASSUME RunInv, FixtureInv,
         \/ CountNotRun \/ PassOver \/ BeginCase \/ RunNothing \/ Finish
         \/ \E b, m, ph : testAll(b, m, ph)
  PROVE  FixtureInv'
<1>1. CASE CountNotRun \/ PassOver \/ RunNothing
  <2>1. calls' = <<>> /\ pc' = "next" /\ ~stopped /\ stopped' = stopped
    BY <1>1 DEF CountNotRun, PassOver, RunNothing, RunInv, GroupsPlaced
  <2> QED
    BY <2>1 DEF FixtureInv, Hooked, Failing
<1>2. CASE Finish
  <2>1. /\ pc = "next" /\ pc' = "done" /\ stopped' = stopped /\ failures' = failures /\ fail' = fail
        /\ UNCHANGED <<asked, case, phase, calls>>
    BY <1>2 DEF Finish, chosen, tallyVars, history, noted
  <2> QED
    BY <2>1, DueStays DEF FixtureInv, Hooked, Failing
<1>3. CASE \E b, m, ph : testAll(b, m, ph)
  <2>1. /\ pc = "main" /\ pc' = "next" /\ stopped' = stopped /\ failures' = failures /\ calls' = calls
    BY <1>3 DEF testAll, history, noted
  <2> QED
    BY <2>1 DEF FixtureInv, Hooked, Failing
<1>4. CASE BeginCase
  <2>1. /\ pc' = "setUp" /\ phase' = 1 /\ calls' = <<>> /\ ~stopped /\ stopped' = stopped
        /\ o' = [NewCase EXCEPT !.printed = o.printed] /\ case' = case + 1 /\ asked' = asked
        /\ Due(case + 1) # <<>>
    BY <1>4 DEF BeginCase, RunInv, GroupsPlaced, chosen
  <2>2. PICK d : d = Due(case + 1)
    OBVIOUS
  <2>3. Due(case)' = d
    BY <2>1, <2>2 DEF Due
  <2>4. 1 \in 1..Len(d)
    <3>1. Len(d) \in Nat /\ Len(d) >= 1
      BY <2>1, <2>2, DueFacts
    <3> QED
      BY <3>1
  <2>5. UpTo(d, 1 - 1) = <<>>
    <3>1. 1 - 1 = 0
      OBVIOUS
    <3> QED
      BY <3>1, UpToList
  <2>6. o'.root.failed = 0
    <3>1. o.printed \in Seq(Int)
      BY DEF RunInv, RunTypes, CaseOK
    <3> QED
      BY <2>1, <3>1, NewCaseFacts
  <2>7. Hooked("setUp", d, 1, <<>>, failures' > 0 /\ fail' > 0)
    BY <2>4, <2>5 DEF Hooked
  <2> QED
    BY <2>1, <2>3, <2>6, <2>7 DEF FixtureInv, Failing
<1> QED
  BY <1>1, <1>2, <1>3, <1>4

\* The hooks, and the end of a body.
LEMMA HooksAre ==
  ASSUME RunInv, FixtureInv, SetUp \/ EndBody \/ TearDown
  PROVE  FixtureInv'
<1>0. CaseOK(o) /\ failures \in Nat
  BY DEF RunInv, RunTypes
<1>1. CASE SetUp
  <2>1. pc = "setUp" /\ UNCHANGED <<asked, case, stopped>>
    BY <1>1 DEF SetUp, chosen
  <2>2. CASE /\ pc' = "body" /\ calls' = Called("setUp")
             /\ UNCHANGED <<phase, o, ret, tallyVars, failures>>
    <3>1. PICK d, k : d = Due(case) /\ k = phase
      OBVIOUS
    <3>2. k \in 1..Len(d) /\ Phase = d[k]
      BY <2>1, <3>1, PhaseRuns DEF InCase
    <3>3. calls = UpTo(d, k - 1)
      BY <2>1, <3>1 DEF FixtureInv, Hooked
    <3>4. Hooked("body", d, k, calls', failures' > 0 /\ fail' > 0)
      BY <2>2, <3>2, <3>3 DEF Hooked, Called
    <3>5. Due(case)' = d
      BY <2>1, <3>1, DueStays
    <3>6. Failing'
      BY <2>1, <2>2 DEF FixtureInv, Failing
    <3> QED
      BY <2>2, <3>1, <3>4, <3>5, <3>6 DEF FixtureInv
  <2>3. CASE SetUpFailed(o, failures + 1)
    BY <1>0, <2>1, <2>3, SetUpHooks
  <2> QED
    BY <1>1, <2>2, <2>3 DEF SetUp
<1>2. CASE EndBody
  <2>1. PICK value : value = result(o)
    OBVIOUS
  <2>2. /\ pc = "body" /\ value \in BOOLEAN /\ BodyReturned(value) /\ failures' = failures
        /\ UNCHANGED <<asked, case, phase, fail>>
    BY <1>2, <2>1 DEF EndBody, result, chosen, tallyVars
  <2> QED
    BY <2>1, <2>2, BodyHooks
<1>3. CASE TearDown
  <2>1. PICK value \in BOOLEAN : Leave(o, value, IF value THEN failures ELSE failures + 1)
    BY <1>3 DEF TearDown
  <2>2. PICK line : line = IF value THEN failures ELSE failures + 1
    OBVIOUS
  <2>3. /\ pc = "tearDown" /\ UNCHANGED <<asked, case, calls>> /\ o.log_lst = <<>>
        /\ line \in Nat /\ (line > 0 \/ line = failures) /\ Leave(o, value, line)
    BY <1>0, <1>3, <2>1, <2>2 DEF TearDown, chosen, RunInv, GroupsPlaced
  <2> QED
    BY <1>0, <2>3, LeaveHooks
<1> QED
  BY <1>1, <1>2, <1>3

\* An assertion: under fail-stop one that fails ends the hook or the body.
LEMMA CheckHooks ==
  ASSUME RunInv, FixtureInv, CheckPasses \/ CheckFails \/ CheckStops
  PROVE  FixtureInv'
<1>0. CaseOK(o) /\ failures \in Nat
  BY DEF RunInv, RunTypes
<1>1. CASE CheckPasses
  <2>1. /\ o' = AddResult(o, TRUE) /\ failures' = failures /\ fail' = fail /\ stopped' = stopped
        /\ UNCHANGED <<asked, case, pc, phase, calls>>
    BY <1>1 DEF CheckPasses, chosen, tallyVars
  <2>2. o'.root.failed = o.root.failed
    <3>1. TRUE \in BOOLEAN
      OBVIOUS
    <3> QED
      BY <1>0, <2>1, <3>1, ResultAdded
  <2>3. Failing'
    BY <2>1, <2>2 DEF FixtureInv, Failing
  <2> QED
    BY <2>1, <2>3, NoneCalled
<1>2. CASE CheckFails
  <2>1. /\ failures' = failures + 1 /\ fail' = fail
        /\ UNCHANGED <<asked, case, pc, phase, calls>>
    BY <1>2 DEF CheckFails, chosen, tallyVars
  <2>2. failures' > 0
    BY <1>0, <2>1
  <2> QED
    BY <2>1, <2>2, NoneCalled DEF Failing
<1>3. CASE CheckStops
  <2>1. PICK dumped : dumped = DumpGroupEnd(AddLog(AddResult(o, FALSE), failures + 1))
    OBVIOUS
  <2>2. UNCHANGED <<asked, case>> /\ CaseOK(dumped) /\ dumped.log_lst = <<>>
    <3>1. failures + 1 \in Int
      BY <1>0
    <3> QED
      BY <1>0, <1>3, <2>1, <3>1, StopDumped DEF CheckStops, chosen
  <2>3. failures + 2 \in Nat \ {0} /\ failures + 1 > 0
    BY <1>0
  <2>4. CASE pc = "body"
    <3>1. BodyReturned(FALSE) /\ failures' > 0 /\ UNCHANGED <<phase, fail>>
      BY <1>3, <2>3, <2>4 DEF CheckStops, tallyVars
    <3>2. PICK value : value = FALSE /\ value \in BOOLEAN
      OBVIOUS
    <3>3. BodyReturned(value)
      BY <3>1, <3>2
    <3>4. UNCHANGED <<asked, case, phase, fail>>
      BY <2>2, <3>1
    <3> QED
      BY <2>4, <3>1, <3>2, <3>3, <3>4, BodyHooks
  <2>5. CASE pc = "setUp"
    <3>1. SetUpFailed(dumped, failures + 2)
      BY <1>3, <2>1, <2>5 DEF CheckStops
    <3> QED
      BY <2>2, <2>3, <2>5, <3>1, SetUpHooks
  <2>6. CASE pc = "tearDown"
    <3>1. Leave(dumped, FALSE, failures + 2) /\ UNCHANGED calls
      BY <1>3, <2>1, <2>6 DEF CheckStops
    <3>2. PICK line : line = failures + 2
      OBVIOUS
    <3>3. PICK value : value = FALSE /\ value \in BOOLEAN
      OBVIOUS
    <3>4. line \in Nat /\ line > 0
      BY <1>0, <3>2
    <3>5. Leave(dumped, value, line)
      BY <3>1, <3>2, <3>3
    <3> QED
      BY <2>2, <2>6, <3>1, <3>3, <3>4, <3>5, LeaveHooks
  <2> QED
    BY <1>3, <2>4, <2>5, <2>6 DEF CheckStops, MayCheck
<1> QED
  BY <1>1, <1>2, <1>3

\* Measurements and groups call no hook and count no failure.
LEMMA GroupHooks ==
  ASSUME RunInv, FixtureInv, MeasureTime \/ RecordMemory \/ startGroup \/ endGroup
  PROVE  FixtureInv'
<1>1. CaseOK(o) /\ times \in Nat /\ tallied \in Nat
  BY DEF RunInv, RunTypes
<1>2. o'.root.failed = o.root.failed
  <2>1. CASE MeasureTime
    <3>1. PICK line : line = -(times + 1) /\ line \in Int
      BY <1>1
    <3>2. o' = AddTime(CountedTime(o), line)
      BY <2>1, <3>1 DEF MeasureTime
    <3> QED
      BY <1>1, <3>1, <3>2, TimeAdded
  <2>2. CASE RecordMemory
    <3>1. PICK n : n = tallied + 1 /\ n \in Nat
      BY <1>1
    <3>2. o' = AddMemory(o, n) /\ o.group_lst # <<>>
      BY <2>2, <3>1 DEF RecordMemory
    <3> QED
      BY <1>1, <3>1, <3>2, MemoryAdded
  <2>3. CASE startGroup
    <3>1. PICK info, g : o' = [o EXCEPT !.log_lst = Append(@, info), !.group_lst = Append(@, g)]
      BY <2>3 DEF startGroup
    <3>2. DOMAIN o = Fields
      BY <1>1 DEF CaseOK
    <3> QED
      BY <3>1, <3>2 DEF Fields
  <2>4. CASE endGroup
    <3>1. PICK dumped : dumped = IF Outermost(o) THEN DumpGroupEnd(o) ELSE o
      OBVIOUS
    <3>2. o' = [dumped EXCEPT !.group_lst = Front(@)]
      BY <2>4, <3>1 DEF endGroup
    <3>3. CaseOK(dumped) /\ dumped.root.failed = o.root.failed
      BY <1>1, <3>1, GroupsDumped DEF SameResults
    <3>4. DOMAIN dumped = Fields
      BY <3>3 DEF CaseOK
    <3> QED
      BY <3>2, <3>3, <3>4 DEF Fields
  <2> QED
    BY <2>1, <2>2, <2>3, <2>4
<1>3. /\ UNCHANGED <<asked, case, pc, phase, calls>>
      /\ failures' = failures /\ fail' = fail /\ stopped' = stopped
  BY DEF MeasureTime, RecordMemory, startGroup, endGroup, chosen, tallyVars, measured
<1>4. Failing'
  BY <1>2, <1>3 DEF FixtureInv, Failing
<1> QED
  BY <1>3, <1>4, NoneCalled

\* FixtureInv is inductive on top of RunInv.
LEMMA HooksInit ==
  ASSUME Init
  PROVE  FixtureInv
<1>1. NewCase.root.failed = 0
  BY DEF NewCase, NoInfo
<1> QED
  BY <1>1 DEF Init, FixtureInv, Hooked, Failing

LEMMA HooksNext ==
  ASSUME RunInv, FixtureInv, Steps \/ UNCHANGED vars \/ \E b, m, ph : testAll(b, m, ph)
  PROVE  FixtureInv'
<1>1. CASE UNCHANGED vars
  <2>1. /\ UNCHANGED <<asked, case, pc, phase, calls>>
        /\ failures' = failures /\ fail' = fail /\ stopped' = stopped /\ o' = o
    BY <1>1 DEF vars, chosen, tallyVars, history, noted
  <2>2. Failing'
    BY <2>1 DEF FixtureInv, Failing
  <2> QED
    BY <2>1, <2>2, NoneCalled
<1>2. CASE Steps
  BY <1>2, BetweenHooks, HooksAre, CheckHooks, GroupHooks DEF Steps
<1>3. CASE \E b, m, ph : testAll(b, m, ph)
  BY <1>3, BetweenHooks
<1> QED
  BY <1>1, <1>2, <1>3

\* Each phase has its setUp and, if that came up, its tearDown, before the next
\* one and before the case ends, in the order of the phases; after a setUp that
\* failed the case calls nothing more; and only a case that failed leaves phases
\* out: whatever assertions fail where, with and without fail-stop, for any
\* cases and whatever was asked for.
THEOREM FixturesAreExact ==
  /\ Spec => []FixturesExact
  /\ ProgramSpec => []FixturesExact
<1>1. RunInv /\ FixtureInv => FixturesExact
  BY HooksExact
<1>2. RunInv /\ FixtureInv /\ [Next]_vars => FixtureInv'
  <2>1. SUFFICES ASSUME RunInv, FixtureInv, [Next]_vars PROVE FixtureInv'
    OBVIOUS
  <2>2. Steps \/ UNCHANGED vars \/ \E b, m, ph : testAll(b, m, ph)
    BY <2>1 DEF Next, Gone
  <2> QED
    BY <2>1, <2>2, HooksNext
<1>3. ProgramInv /\ FixtureInv /\ [ProgramNext]_programVars => FixtureInv'
  <2>1. SUFFICES ASSUME ProgramInv, FixtureInv, [ProgramNext]_programVars PROVE FixtureInv'
    OBVIOUS
  <2>2. Steps \/ UNCHANGED vars \/ \E b, m, ph : testAll(b, m, ph)
    BY <2>1, ProgramStep
  <2> QED
    BY <2>1, <2>2, HooksNext DEF ProgramInv
<1>4. Init => FixtureInv
  BY HooksInit
<1>5. ProgramInit => FixtureInv
  BY HooksInit DEF ProgramInit
<1>6. ProgramInv => RunInv
  BY DEF ProgramInv
<1>7. Spec => []FixturesExact
  BY <1>1, <1>2, <1>4, RunnerInvariant, PTL DEF Spec
<1>8. ProgramSpec => []FixturesExact
  BY <1>1, <1>3, <1>5, <1>6, ProgramInvariant, PTL DEF ProgramSpec
<1> QED
  BY <1>7, <1>8

-----------------------------------------------------------------------------
(* The JUnit report. *)

\* The place of a position among others.
Rank(at, j) == Cardinality({i \in at : i <= j})

\* The places of n positions are 1 to n.
LEMMA RankFacts ==
  ASSUME NEW at \in SUBSET Nat, IsFiniteSet(at)
  PROVE  /\ Cardinality(at) \in Nat
         /\ \A j \in at : Rank(at, j) \in 1..Cardinality(at)
         /\ \A i, j \in at : Rank(at, i) = Rank(at, j) => i = j
         /\ \A k \in 1..Cardinality(at) : \E j \in at : Rank(at, j) = k
<1>1. PICK n : n = Cardinality(at) /\ n \in Nat
  BY FS_CardinalityType
<1> DEFINE below(j) == {i \in at : i <= j}
<1>2. \A j \in at : /\ below(j) \subseteq at /\ IsFiniteSet(below(j)) /\ j \in below(j)
                    /\ Cardinality(below(j)) \in Nat /\ Cardinality(below(j)) <= n
  <2>1. ASSUME NEW j \in at
        PROVE  /\ below(j) \subseteq at /\ IsFiniteSet(below(j)) /\ j \in below(j)
               /\ Cardinality(below(j)) \in Nat /\ Cardinality(below(j)) <= n
    <3>1. below(j) \subseteq at /\ j \in below(j)
      OBVIOUS
    <3> HIDE DEF below
    <3>2. IsFiniteSet(below(j)) /\ Cardinality(below(j)) <= n
      BY <1>1, <3>1, FS_Subset
    <3>3. Cardinality(below(j)) \in Nat
      BY <3>2, FS_CardinalityType
    <3> QED
      BY <3>1, <3>2, <3>3
  <2> QED
    BY <2>1
<1>3. \A j \in at : Cardinality(below(j)) \in 1..n
  <2>1. ASSUME NEW j \in at PROVE Cardinality(below(j)) # 0
    <3>1. IsFiniteSet(below(j)) /\ below(j) # {}
      BY <1>2
    <3> HIDE DEF below
    <3> QED
      BY <3>1, FS_EmptySet
  <2> HIDE DEF below
  <2> QED
    BY <1>1, <1>2, <2>1
<1>4. PICK c : c = [j \in at |-> Cardinality(below(j))]
  OBVIOUS
<1>5. \A j \in at : c[j] \in 1..n /\ c[j] \in Nat /\ c[j] = Rank(at, j)
  BY <1>1, <1>3, <1>4 DEF Rank
<1>6. ASSUME NEW i \in at, NEW j \in at, i < j
      PROVE  c[i] # c[j]
  <2>1. i \in Nat /\ j \in Nat /\ \A x \in at : x \in Nat
    OBVIOUS
  <2>2. \A x \in at : x <= i => x <= j
    BY <1>6, <2>1
  <2>3. ~(j <= i)
    BY <1>6, <2>1
  <2>4. below(i) \subseteq below(j) /\ j \notin below(i)
    BY <2>2, <2>3
  <2>5. below(i) # below(j) /\ IsFiniteSet(below(j))
    BY <1>2, <2>4
  <2>6. Cardinality(below(i)) # Cardinality(below(j))
    <3> HIDE DEF below
    <3> QED
      BY <2>4, <2>5, FS_Subset
  <2> QED
    BY <1>4, <2>6
<1> HIDE DEF below
<1>7. \A i, j \in at : c[i] = c[j] => i = j
  <2>1. ASSUME NEW i \in at, NEW j \in at, c[i] = c[j] PROVE i = j
    <3>1. i \in Nat /\ j \in Nat
      OBVIOUS
    <3> QED
      BY <1>6, <2>1, <3>1
  <2> QED
    BY <2>1
<1>8. c \in Injection(at, 1..n)
  <2>1. c \in [at -> 1..n]
    BY <1>3, <1>4
  <2>2. IsInjective(c)
    BY <1>4, <1>7 DEF IsInjective
  <2> QED
    BY <2>1, <2>2 DEF Injection
<1>9. \A k \in 1..n : \E j \in at : c[j] = k
  <2>1. 1 \in Int /\ n \in Int
    BY <1>1
  <2>2. IsFiniteSet(1..n) /\ Cardinality(1..n) = IF 1 > n THEN 0 ELSE n - 1 + 1
    BY <2>1, FS_Interval
  <2>3. Cardinality(1..n) = n
    BY <1>1, <2>2
  <2>4. c \in Surjection(at, 1..n)
    BY <1>1, <1>8, <2>2, <2>3, FS_Injection
  <2> QED
    BY <2>4 DEF Surjection
<1> QED
  BY <1>1, <1>5, <1>7, <1>9

\* What kept has at a position is at the place of that position.
LEMMA OrderFacts ==
  ASSUME NEW q, NEW at \in SUBSET Nat, IsFiniteSet(at)
  PROVE  /\ InOrder(q, at) = [k \in 1..Cardinality(at) |-> InOrder(q, at)[k]]
         /\ \A j \in at : Rank(at, j) \in 1..Cardinality(at) /\ InOrder(q, at)[Rank(at, j)] = q[j]
         /\ \A k \in 1..Cardinality(at) : \E j \in at : Rank(at, j) = k /\ InOrder(q, at)[k] = q[j]
<1>1. PICK n : n = Cardinality(at)
  OBVIOUS
<1>2. InOrder(q, at) = [k \in 1..n |-> q[CHOOSE j \in at : Rank(at, j) = k]]
  BY <1>1 DEF InOrder, Rank
<1>3. ASSUME NEW j \in at
      PROVE  Rank(at, j) \in 1..n /\ InOrder(q, at)[Rank(at, j)] = q[j]
  <2>1. PICK k : k = Rank(at, j) /\ k \in 1..n
    BY <1>1, RankFacts
  <2>2. PICK c : c = CHOOSE i \in at : Rank(at, i) = k
    OBVIOUS
  <2>3. c \in at /\ Rank(at, c) = k
    BY <2>1, <2>2
  <2>4. c = j
    BY <2>1, <2>3, RankFacts
  <2>5. InOrder(q, at)[k] = q[c]
    BY <1>2, <2>1, <2>2
  <2> QED
    BY <2>1, <2>4, <2>5
<1>4. \A k \in 1..n : \E j \in at : Rank(at, j) = k
  BY <1>1, RankFacts
<1>5. InOrder(q, at) = [k \in 1..n |-> InOrder(q, at)[k]]
  BY <1>2
<1> QED
  BY <1>1, <1>3, <1>4, <1>5

\* It is a sequence of as many elements of kept as there are positions.
LEMMA OrderTypes ==
  ASSUME NEW S, NEW q \in Seq(S), NEW at \in SUBSET (DOMAIN q)
  PROVE  /\ at \in SUBSET Nat /\ IsFiniteSet(at)
         /\ InOrder(q, at) \in Seq(S) /\ Len(InOrder(q, at)) = Cardinality(at)
         /\ \A k \in DOMAIN InOrder(q, at) : \E j \in at : InOrder(q, at)[k] = q[j]
<1>1. PICK m, c, f : m = Len(q) /\ c = Cardinality(at) /\ f = InOrder(q, at)
  OBVIOUS
<1>2. m \in Nat /\ DOMAIN q = 1..m /\ \A j \in 1..m : q[j] \in S
  BY <1>1
<1>3. at \in SUBSET Nat /\ \A j \in at : j \in 1..m
  BY <1>2
<1>4. IsFiniteSet(at) /\ c \in Nat
  <2>1. 1 \in Int /\ m \in Int
    BY <1>2
  <2>2. IsFiniteSet(1..m)
    BY <2>1, FS_Interval
  <2>3. IsFiniteSet(at)
    BY <1>2, <2>2, FS_Subset
  <2> QED
    BY <1>1, <2>3, FS_CardinalityType
<1>5. /\ f = [k \in 1..c |-> f[k]]
      /\ \A k \in 1..c : \E j \in at : f[k] = q[j]
  BY <1>1, <1>3, <1>4, OrderFacts
<1>6. \A k \in 1..c : f[k] \in S
  BY <1>2, <1>3, <1>5
<1>7. f \in Seq(S) /\ Len(f) = c
  <2>1. f \in [1..c -> S]
    BY <1>5, <1>6
  <2> QED
    BY <1>4, <2>1
<1> QED
  BY <1>1, <1>3, <1>4, <1>5, <1>7

\* Another element behind the others comes behind what is taken of them.
LEMMA OrderMore ==
  ASSUME NEW S, NEW q \in Seq(S), NEW r \in S, NEW at \in SUBSET (DOMAIN q)
  PROVE  /\ InOrder(Append(q, r), at) = InOrder(q, at)
         /\ InOrder(Append(q, r), at \union {Len(q) + 1}) = Append(InOrder(q, at), r)
<1>1. PICK m, n, p, more : /\ m = Len(q) /\ n = m + 1 /\ p = Append(q, r) /\ more = at \union {n}
  OBVIOUS
<1>2. /\ m \in Nat /\ DOMAIN q = 1..m /\ \A j \in 1..m : q[j] \in S /\ p[j] = q[j]
      /\ p[n] = r
  BY <1>1
<1>3. \A j \in at : j \in Nat /\ j \in 1..m /\ j < n
  BY <1>1, <1>2
<1>4. PICK c : c = Cardinality(at)
  OBVIOUS
<1>5. /\ at \in SUBSET Nat /\ IsFiniteSet(at) /\ more \in SUBSET Nat /\ IsFiniteSet(more)
      /\ n \notin at /\ c \in Nat /\ Cardinality(more) = c + 1
  <2>1. at \in SUBSET Nat /\ n \in Nat /\ n \notin at
    BY <1>1, <1>2, <1>3
  <2>2. IsFiniteSet(at)
    BY OrderTypes
  <2>3. IsFiniteSet(more) /\ Cardinality(more) = c + 1
    BY <1>1, <1>4, <2>1, <2>2, FS_AddElement
  <2>4. c \in Nat
    BY <1>4, <2>2, FS_CardinalityType
  <2> QED
    BY <1>1, <2>1, <2>2, <2>3, <2>4
<1>6. PICK f : f = InOrder(q, at)
  OBVIOUS
<1>7. /\ f = [k \in 1..c |-> f[k]]
      /\ \A k \in 1..c : \E j \in at : Rank(at, j) = k /\ f[k] = q[j]
  BY <1>4, <1>5, <1>6, OrderFacts
<1>9. f \in Seq(S) /\ Len(f) = c
  BY <1>4, <1>6, OrderTypes
<1>10. InOrder(p, at) = f
  <2>1. PICK g : g = InOrder(p, at)
    OBVIOUS
  <2>2. g = [k \in 1..c |-> g[k]] /\ \A j \in at : Rank(at, j) \in 1..c /\ g[Rank(at, j)] = p[j]
    BY <1>4, <1>5, <2>1, OrderFacts
  <2>3. ASSUME NEW k \in 1..c PROVE g[k] = f[k]
    BY <1>2, <1>3, <1>7, <2>2
  <2> QED
    BY <1>7, <2>1, <2>2, <2>3
<1>11. InOrder(p, more) = Append(f, r)
  <2>1. PICK g : g = InOrder(p, more)
    OBVIOUS
  <2>2. /\ g = [k \in 1..c + 1 |-> g[k]]
        /\ \A j \in more : Rank(more, j) \in 1..c + 1 /\ g[Rank(more, j)] = p[j]
    BY <1>5, <2>1, OrderFacts
  <2>3. \A j \in at : Rank(more, j) = Rank(at, j)
    <3>1. ASSUME NEW j \in at PROVE Rank(more, j) = Rank(at, j)
      <4>1. ~(n <= j)
        BY <1>1, <1>2, <1>3
      <4>2. {i \in more : i <= j} = {i \in at : i <= j}
        BY <1>1, <4>1
      <4> QED
        BY <4>2 DEF Rank
    <3> QED
      BY <3>1
  <2>4. Rank(more, n) = c + 1
    <3>1. \A i \in more : i <= n
      BY <1>1, <1>2, <1>3
    <3>2. {i \in more : i <= n} = more
      BY <3>1
    <3> QED
      BY <1>5, <3>2 DEF Rank
  <2>5. g[c + 1] = r
    BY <1>1, <1>2, <2>2, <2>4
  <2>6. ASSUME NEW k \in 1..c PROVE g[k] = f[k]
    <3>1. PICK j \in at : Rank(at, j) = k /\ f[k] = q[j]
      BY <1>7
    <3>2. j \in more /\ Rank(more, j) = k /\ p[j] = q[j]
      BY <1>1, <1>2, <1>3, <2>3, <3>1
    <3> QED
      BY <2>2, <3>1, <3>2
  <2>7. PICK h : h = Append(f, r)
    OBVIOUS
  <2>8. h = [k \in 1..c + 1 |-> h[k]] /\ h[c + 1] = r /\ \A k \in 1..c : h[k] = f[k]
    <3>1. h \in Seq(S) /\ Len(h) = c + 1 /\ h[c + 1] = r
      BY <1>9, <2>7
    <3>2. h \in [1..c + 1 -> S]
      BY <3>1
    <3>3. \A k \in 1..Len(f) : h[k] = f[k]
      BY <1>9, <2>7
    <3> QED
      BY <1>9, <3>1, <3>2, <3>3
  <2>9. \A k \in 1..c + 1 : k \in 1..c \/ k = c + 1
    BY <1>5
  <2>10. \A k \in 1..c + 1 : g[k] = h[k]
    BY <2>5, <2>6, <2>8, <2>9
  <2> QED
    BY <2>1, <2>2, <2>7, <2>8, <2>10
<1> QED
  BY <1>1, <1>6, <1>10, <1>11

\* The results in which something failed.
FailedOf(t) == {k \in DOMAIN t : t[k].failed > 0}

\* One more, if it failed.
LEMMA FailedMore ==
  ASSUME NEW S, NEW t \in Seq(S), NEW r \in S
  PROVE  /\ Cardinality(FailedOf(t)) \in Nat
         /\ Cardinality(FailedOf(Append(t, r)))
              = Cardinality(FailedOf(t)) + (IF r.failed > 0 THEN 1 ELSE 0)
<1>1. PICK m, n, p, F : m = Len(t) /\ n = m + 1 /\ p = Append(t, r) /\ F = FailedOf(t)
  OBVIOUS
<1>2. /\ m \in Nat /\ DOMAIN t = 1..m /\ DOMAIN p = 1..n /\ p[n] = r
      /\ \A k \in 1..m : p[k] = t[k]
  BY <1>1
<1>3. \A k : k \in 1..n <=> k \in 1..m \/ k = n
  BY <1>1, <1>2
<1>4. n \notin 1..m
  BY <1>1, <1>2
<1>5. F \subseteq 1..m /\ IsFiniteSet(F) /\ Cardinality(F) \in Nat
  <2>1. F \subseteq 1..m
    BY <1>1, <1>2 DEF FailedOf
  <2>2. 1 \in Int /\ m \in Int
    BY <1>2
  <2>3. IsFiniteSet(1..m)
    BY <2>2, FS_Interval
  <2>4. IsFiniteSet(F)
    BY <2>1, <2>3, FS_Subset
  <2> QED
    BY <2>1, <2>4, FS_CardinalityType
<1>6. CASE r.failed > 0
  <2>1. FailedOf(p) = F \union {n}
    BY <1>1, <1>2, <1>3, <1>4, <1>6 DEF FailedOf
  <2>2. n \notin F
    BY <1>4, <1>5
  <2>3. Cardinality(F \union {n}) = Cardinality(F) + 1
    BY <1>5, <2>2, FS_AddElement
  <2> QED
    BY <1>1, <1>5, <1>6, <2>1, <2>3
<1>7. CASE ~(r.failed > 0)
  <2>1. FailedOf(p) = F
    BY <1>1, <1>2, <1>3, <1>4, <1>7 DEF FailedOf
  <2> QED
    BY <1>1, <1>5, <1>7, <2>1
<1> QED
  BY <1>6, <1>7

-----------------------------------------------------------------------------
(* The suites. *)

SuiteAt(q, s) == {j \in DOMAIN q : SuiteOf(q[j]) = s}

Opening(q) == {j \in DOMAIN q : Opens(q, j)}

\* What the report has of a suite.
Entry(q, s) == [suite |-> s, testcases |-> InOrder(q, SuiteAt(q, s)),
                failures |-> Cardinality(FailedOf(InOrder(q, SuiteAt(q, s))))]

LEMMA ReportEntries ==
  ASSUME NEW q
  PROVE  ReportOf(q) = [n \in DOMAIN InOrder(q, Opening(q)) |->
                          Entry(q, SuiteOf(InOrder(q, Opening(q))[n]))]
BY DEF ReportOf, Entry, Opening, SuiteAt, FailedOf

\* Positions of a sequence with one element more.
LEMMA PositionsMore ==
  ASSUME NEW S, NEW q \in Seq(S), NEW r \in S
  PROVE  /\ \A s : SuiteAt(Append(q, r), s)
                     = IF SuiteOf(r) = s THEN SuiteAt(q, s) \union {Len(q) + 1} ELSE SuiteAt(q, s)
         /\ Opening(Append(q, r))
              = IF SuiteAt(q, SuiteOf(r)) = {} THEN Opening(q) \union {Len(q) + 1} ELSE Opening(q)
<1>1. PICK m, n, p : m = Len(q) /\ n = m + 1 /\ p = Append(q, r)
  OBVIOUS
<1>2. /\ m \in Nat /\ DOMAIN q = 1..m /\ DOMAIN p = 1..n /\ p[n] = r
      /\ \A k \in 1..m : p[k] = q[k]
  BY <1>1
<1>3. \A k : k \in 1..n <=> k \in 1..m \/ k = n
  BY <1>1, <1>2
<1>4. n \notin 1..m /\ 1..n - 1 = 1..m
  BY <1>1, <1>2
<1>5. ASSUME NEW s
      PROVE  SuiteAt(p, s) = IF SuiteOf(r) = s THEN SuiteAt(q, s) \union {n} ELSE SuiteAt(q, s)
  BY <1>2, <1>3, <1>4 DEF SuiteAt
<1>6. \A j \in 1..m : Opens(p, j) <=> Opens(q, j)
  <2>1. ASSUME NEW j \in 1..m PROVE Opens(p, j) <=> Opens(q, j)
    <3>1. \A i \in 1..j - 1 : i \in 1..m
      BY <1>2
    <3> QED
      BY <1>2, <3>1 DEF Opens
  <2> QED
    BY <2>1
<1>7. Opens(p, n) <=> SuiteAt(q, SuiteOf(r)) = {}
  BY <1>2, <1>4 DEF Opens, SuiteAt
<1>8. Opening(p) = IF SuiteAt(q, SuiteOf(r)) = {} THEN Opening(q) \union {n} ELSE Opening(q)
  BY <1>2, <1>3, <1>4, <1>6, <1>7 DEF Opening
<1> QED
  BY <1>1, <1>5, <1>8

\* The entry of a suite gets a new result of that suite, and no other does.
LEMMA EntryMore ==
  ASSUME NEW S, NEW q \in Seq(S), NEW r \in S, NEW s
  PROVE  /\ Entry(q, s).suite = s
         /\ Entry(q, s).testcases \in Seq(S) /\ Entry(q, s).failures \in Nat
         /\ SuiteAt(q, s) = {} => Entry(q, s).testcases = <<>> /\ Entry(q, s).failures = 0
         /\ SuiteOf(r) # s => Entry(Append(q, r), s) = Entry(q, s)
         /\ SuiteOf(r) = s =>
              /\ Entry(Append(q, r), s).testcases = Append(Entry(q, s).testcases, r)
              /\ Entry(Append(q, r), s).failures
                   = Entry(q, s).failures + (IF r.failed > 0 THEN 1 ELSE 0)
<1>1. PICK p, at, more, t, u : /\ p = Append(q, r) /\ at = SuiteAt(q, s) /\ more = SuiteAt(p, s)
                               /\ t = InOrder(q, at) /\ u = InOrder(p, more)
  OBVIOUS
<1>2. at \in SUBSET (DOMAIN q)
  BY <1>1 DEF SuiteAt
<1>3. /\ t \in Seq(S) /\ Len(t) = Cardinality(at)
      /\ InOrder(p, at) = t /\ InOrder(p, at \union {Len(q) + 1}) = Append(t, r)
  <2>1. InOrder(q, at) \in Seq(S) /\ Len(InOrder(q, at)) = Cardinality(at)
    BY <1>2, OrderTypes
  <2>2. /\ InOrder(Append(q, r), at) = InOrder(q, at)
        /\ InOrder(Append(q, r), at \union {Len(q) + 1}) = Append(InOrder(q, at), r)
    BY <1>2, OrderMore
  <2> QED
    BY <1>1, <2>1, <2>2
<1>4. /\ Entry(q, s).suite = s /\ Entry(q, s).testcases = t
      /\ Entry(q, s).failures = Cardinality(FailedOf(t))
      /\ Entry(p, s).testcases = u /\ Entry(p, s).failures = Cardinality(FailedOf(u))
  BY <1>1 DEF Entry
<1>5. /\ Cardinality(FailedOf(t)) \in Nat
      /\ Cardinality(FailedOf(Append(t, r)))
           = Cardinality(FailedOf(t)) + (IF r.failed > 0 THEN 1 ELSE 0)
  <2>1. t \in Seq(S)
    BY <1>3
  <2> QED
    BY <2>1, FailedMore
<1>10. more = IF SuiteOf(r) = s THEN at \union {Len(q) + 1} ELSE at
  BY <1>1, PositionsMore
<1>6. SuiteOf(r) = s => u = Append(t, r)
  BY <1>1, <1>3, <1>10
<1>7. SuiteOf(r) # s => more = at
  BY <1>10
<1>8. SuiteOf(r) # s => Entry(p, s) = Entry(q, s)
  <2>1. ASSUME SuiteOf(r) # s PROVE Entry(p, s) = Entry(q, s)
    <3>1. u = t
      BY <1>1, <1>3, <1>7, <2>1
    <3> QED
      BY <1>1, <3>1 DEF Entry
  <2> QED
    BY <2>1
<1>9. at = {} => t = <<>> /\ Cardinality(FailedOf(t)) = 0
  <2>1. SUFFICES ASSUME at = {} PROVE t = <<>> /\ Cardinality(FailedOf(t)) = 0
    OBVIOUS
  <2>2. Len(t) = 0
    BY <1>3, <2>1, FS_EmptySet
  <2>3. t = <<>>
    BY <1>3, <2>2
  <2>4. FailedOf(t) = {}
    BY <2>3 DEF FailedOf
  <2> QED
    BY <2>3, <2>4, FS_EmptySet
<1> QED
  BY <1>1, <1>3, <1>4, <1>5, <1>6, <1>8, <1>9

-----------------------------------------------------------------------------
(* Sequences of sequences, the last of which grows. *)

\* What is in front of a position decides what is made of it.
LEMMA FlattenAgree ==
  ASSUME NEW q, NEW r, NEW m \in Nat, NEW n \in Nat, n <= m, NEW f, NEW g,
         Flattening(q, m, f), Flattening(r, n, g), \A i \in 1..n : q[i] = r[i]
  PROVE  \A i \in 1..n : f[i] = g[i]
<1> DEFINE T == {i \in Nat : i + 1 <= n => f[i + 1] = g[i + 1]}
<1>1. /\ \A i \in 1..m : f[i] = IF i = 1 THEN q[i] ELSE f[i - 1] \o q[i]
      /\ \A i \in 1..n : g[i] = IF i = 1 THEN r[i] ELSE g[i - 1] \o r[i]
  BY DEF Flattening
<1>2. \A i \in 1..n : i \in 1..m
  OBVIOUS
<1>3. 0 \in T
  <2>1. SUFFICES ASSUME 0 + 1 <= n PROVE f[0 + 1] = g[0 + 1]
    OBVIOUS
  <2>2. 1 \in 1..n /\ 0 + 1 = 1
    BY <2>1
  <2>3. f[1] = q[1] /\ g[1] = r[1]
    BY <1>1, <1>2, <2>2
  <2> QED
    BY <2>2, <2>3
<1>4. ASSUME NEW i \in T PROVE i + 1 \in T
  <2>0. i \in Nat
    OBVIOUS
  <2>1. SUFFICES ASSUME i + 1 + 1 <= n PROVE f[i + 1 + 1] = g[i + 1 + 1]
    BY <2>0
  <2>2. PICK j : j = i + 1 + 1
    OBVIOUS
  <2>3. j \in 1..n /\ j # 1 /\ j - 1 = i + 1 /\ i + 1 <= n
    BY <2>0, <2>1, <2>2
  <2>4. f[i + 1] = g[i + 1]
    BY <2>3
  <2>5. f[j] = f[j - 1] \o q[j] /\ g[j] = g[j - 1] \o r[j] /\ q[j] = r[j]
    BY <1>1, <1>2, <2>3
  <2> QED
    BY <2>2, <2>3, <2>4, <2>5
<1>5. T = Nat
  <2> HIDE DEF T
  <2>1. T \subseteq Nat
    BY DEF T
  <2> QED
    BY <1>3, <1>4, <2>1, NatSet
<1>6. ASSUME NEW i \in 1..n PROVE f[i] = g[i]
  <2>1. PICK j : j = i - 1
    OBVIOUS
  <2>2. j \in Nat /\ j + 1 = i /\ j + 1 <= n
    BY <2>1
  <2> QED
    BY <1>5, <2>2
<1> QED
  BY <1>6

\* With one sequence more, that one comes last.
LEMMA FlattenOneMore ==
  ASSUME NEW q, NEW p, NEW n \in Nat \ {0}, NEW k, k = n + 1, Len(q) = n, Len(p) = k,
         \A i \in 1..n : p[i] = q[i]
  PROVE  FlattenSeq(p) = FlattenSeq(q) \o p[k]
<1>1. n \in Nat /\ k \in Nat \ {0} /\ k - 1 = n /\ k # 1 /\ n <= k /\ k \in 1..k /\ n \in 1..n
  OBVIOUS
<1>2. PICK f : Flattening(p, k, f) /\ FlattenSeq(p) = f[k]
  BY <1>1, FlattenDef
<1>3. PICK g : Flattening(q, n, g) /\ FlattenSeq(q) = g[n]
  BY FlattenDef
<1>4. f[n] = g[n]
  BY <1>1, <1>2, <1>3, FlattenAgree
<1>5. f[k] = f[k - 1] \o p[k]
  BY <1>1, <1>2 DEF Flattening
<1> QED
  BY <1>1, <1>2, <1>3, <1>4, <1>5

LEMMA FlattenBehind ==
  ASSUME NEW S, NEW q \in Seq(Seq(S)), NEW b \in Seq(S)
  PROVE  FlattenSeq(Append(q, b)) = FlattenSeq(q) \o b
<1>1. PICK n, k, p : n = Len(q) /\ k = n + 1 /\ p = Append(q, b)
  OBVIOUS
<1>2. /\ n \in Nat /\ Len(p) = k /\ p[k] = b
      /\ \A i \in 1..n : p[i] = q[i]
  BY <1>1
<1>3. CASE n = 0
  <2>1. Len(q) = 0
    BY <1>1, <1>3
  <2>2. q = <<>>
    BY <2>1
  <2>3. FlattenSeq(q) = <<>>
    BY <2>2 DEF FlattenSeq
  <2>4. k = 1
    BY <1>1, <1>3
  <2>9. Len(p) = 1 /\ Len(p) \in Nat \ {0}
    BY <1>2, <2>4
  <2>10. \E f : Flattening(p, Len(p), f) /\ FlattenSeq(p) = f[Len(p)]
    BY <2>9, FlattenDef
  <2>5. PICK f : Flattening(p, 1, f) /\ FlattenSeq(p) = f[1]
    BY <2>9, <2>10
  <2>6. 1 \in 1..1
    OBVIOUS
  <2>7. f[1] = p[1]
    BY <2>5, <2>6 DEF Flattening
  <2>8. <<>> \o b = b
    OBVIOUS
  <2> QED
    BY <1>1, <1>2, <2>3, <2>4, <2>5, <2>7, <2>8
<1>4. CASE n # 0
  <2>1. n \in Nat \ {0} /\ Len(q) = n
    BY <1>1, <1>2, <1>4
  <2>2. FlattenSeq(p) = FlattenSeq(q) \o p[k]
    BY <1>1, <1>2, <2>1, FlattenOneMore
  <2> QED
    BY <1>1, <1>2, <2>2
<1> QED
  BY <1>3, <1>4

\* The last one gets an element more, and so does what they make.
LEMMA FlattenLonger ==
  ASSUME NEW S, NEW q \in Seq(Seq(S)), NEW b \in Seq(S), NEW x \in S
  PROVE  FlattenSeq(Append(q, Append(b, x))) = Append(FlattenSeq(Append(q, b)), x)
<1>1. PICK a, c : a = FlattenSeq(q) /\ c = Append(b, x)
  OBVIOUS
<1>2. a \in Seq(S) /\ c \in Seq(S)
  BY <1>1, FlattenFacts
<1>3. FlattenSeq(Append(q, c)) = a \o c
  BY <1>1, <1>2, FlattenBehind
<1>4. FlattenSeq(Append(q, b)) = a \o b
  BY <1>1, FlattenBehind
<1>5. a \o Append(b, x) = Append(a \o b, x)
  BY <1>2
<1> QED
  BY <1>1, <1>3, <1>4, <1>5

-----------------------------------------------------------------------------
(* A report, and the report with one result more. *)

Lists(report) == [i \in DOMAIN report |-> report[i].testcases]

Counts(report) == [i \in DOMAIN report |-> report[i].failures]

\* A report has an entry for each suite that is opened.
LEMMA ReportFacts ==
  ASSUME NEW S, NEW q \in Seq(S)
  PROVE  \E c \in Nat : LET R == ReportOf(q) IN
           /\ c = Cardinality(Opening(q)) /\ DOMAIN R = 1..c
           /\ \A i \in 1..c : R[i] = Entry(q, SuiteOf(InOrder(q, Opening(q))[i]))
           /\ \A i \in 1..c : /\ R[i] = Entry(q, R[i].suite) /\ SuiteAt(q, R[i].suite) # {}
                              /\ R[i].testcases \in Seq(S) /\ R[i].failures \in Nat
<1>1. PICK g, c, R : g = InOrder(q, Opening(q)) /\ c = Cardinality(Opening(q)) /\ R = ReportOf(q)
  OBVIOUS
<1>2. Opening(q) \in SUBSET (DOMAIN q)
  BY DEF Opening
<1>3. /\ IsFiniteSet(Opening(q)) /\ g \in Seq(S) /\ Len(g) = c
      /\ \A i \in DOMAIN g : \E j \in Opening(q) : g[i] = q[j]
  <2>1. /\ IsFiniteSet(Opening(q)) /\ InOrder(q, Opening(q)) \in Seq(S)
        /\ Len(InOrder(q, Opening(q))) = Cardinality(Opening(q))
        /\ \A i \in DOMAIN InOrder(q, Opening(q)) : \E j \in Opening(q) : InOrder(q, Opening(q))[i] = q[j]
    BY <1>2, OrderTypes
  <2> QED
    BY <1>1, <2>1
<1>4. c \in Nat /\ DOMAIN g = 1..c
  BY <1>3
<1>5. DOMAIN R = 1..c /\ \A i \in 1..c : R[i] = Entry(q, SuiteOf(g[i]))
  <2>1. R = [i \in DOMAIN g |-> Entry(q, SuiteOf(g[i]))]
    BY <1>1, ReportEntries
  <2> QED
    BY <1>4, <2>1
<1>6. ASSUME NEW i \in 1..c
      PROVE  /\ R[i] = Entry(q, R[i].suite) /\ SuiteAt(q, R[i].suite) # {}
             /\ R[i].testcases \in Seq(S) /\ R[i].failures \in Nat
  <2>1. PICK s : s = SuiteOf(g[i])
    OBVIOUS
  <2>2. R[i] = Entry(q, s)
    BY <1>5, <2>1
  <2>3. R[i].suite = s
    BY <2>2 DEF Entry
  <2>4. SuiteAt(q, s) # {}
    <3>1. PICK j \in Opening(q) : g[i] = q[j]
      BY <1>3, <1>4
    <3>2. j \in DOMAIN q
      BY <1>2
    <3>3. j \in SuiteAt(q, s)
      BY <2>1, <3>1, <3>2 DEF SuiteAt
    <3> QED
      BY <3>3
  <2>5. R[i].testcases \in Seq(S)
    <3>1. SuiteAt(q, s) \in SUBSET (DOMAIN q)
      BY DEF SuiteAt
    <3>2. InOrder(q, SuiteAt(q, s)) \in Seq(S)
      BY <3>1, OrderTypes
    <3> QED
      BY <2>2, <3>2 DEF Entry
  <2>6. R[i].failures \in Nat
    <3>1. PICK t : t = R[i].testcases /\ t \in Seq(S)
      BY <2>5
    <3>2. R[i].failures = Cardinality(FailedOf(t))
      BY <2>2, <3>1 DEF Entry
    <3>3. PICK m : m = Len(t) /\ m \in Nat
      BY <3>1
    <3>4. 1 \in Int /\ m \in Int /\ FailedOf(t) \in SUBSET (1..m)
      BY <3>1, <3>3 DEF FailedOf
    <3>5. IsFiniteSet(1..m)
      BY <3>4, FS_Interval
    <3>6. IsFiniteSet(FailedOf(t))
      BY <3>4, <3>5, FS_Subset
    <3> QED
      BY <3>2, <3>6, FS_CardinalityType
  <2> QED
    BY <2>2, <2>3, <2>4, <2>5, <2>6
<1> QED
  BY <1>1, <1>4, <1>5, <1>6

\* From a report R with c entries to the report P with one result r more: a
\* result of a new suite opens it, one of an old suite changes its entry.
GrowsBy(q, r, c, R, P) ==
  LET p == Append(q, r)
      e == Cardinality(Opening(p))
  IN /\ DOMAIN P = 1..e
     /\ SuiteAt(q, SuiteOf(r)) = {} =>
          e = c + 1 /\ P[c + 1] = Entry(p, SuiteOf(r)) /\ \A i \in 1..c : P[i] = R[i]
     /\ SuiteAt(q, SuiteOf(r)) # {} =>
          e = c /\ \A i \in 1..c : P[i] = Entry(p, R[i].suite)

LEMMA ReportMore ==
  ASSUME NEW S, NEW q \in Seq(S), NEW r \in S
  PROVE  GrowsBy(q, r, Cardinality(Opening(q)), ReportOf(q), ReportOf(Append(q, r)))
<1>1. PICK p, R, P, c, n, g, h, e :
        /\ p = Append(q, r) /\ R = ReportOf(q) /\ P = ReportOf(p) /\ c = Cardinality(Opening(q))
        /\ n = Len(q) + 1 /\ g = InOrder(q, Opening(q)) /\ h = InOrder(p, Opening(p))
        /\ e = Cardinality(Opening(p))
  OBVIOUS
<1>2. Opening(q) \in SUBSET (DOMAIN q)
  BY DEF Opening
<1>3. g \in Seq(S) /\ Len(g) = c /\ IsFiniteSet(Opening(q)) /\ n \notin Opening(q)
  <2>1. n \notin DOMAIN q
    BY <1>1
  <2> QED
    BY <1>1, <1>2, <2>1, OrderTypes
<1>4. p \in Seq(S)
  BY <1>1
<1>5. /\ c \in Nat
      /\ \A i \in 1..c : /\ R[i] = Entry(q, SuiteOf(g[i])) /\ R[i] = Entry(q, R[i].suite)
                         /\ SuiteAt(q, R[i].suite) # {}
  BY <1>1, ReportFacts
<1>6. DOMAIN P = 1..e /\ \A i \in 1..e : P[i] = Entry(p, SuiteOf(h[i]))
  BY <1>1, <1>4, ReportFacts
<1>7. \A i \in 1..c : R[i].suite = SuiteOf(g[i])
  <2>1. \A s : Entry(q, s).suite = s
    BY DEF Entry
  <2> QED
    BY <1>5, <2>1
<1>8. ASSUME SuiteAt(q, SuiteOf(r)) = {}
      PROVE  e = c + 1 /\ P[c + 1] = Entry(p, SuiteOf(r)) /\ \A i \in 1..c : P[i] = R[i]
  <2>1. Opening(p) = Opening(q) \union {n}
    BY <1>1, <1>8, PositionsMore
  <2>2. e = c + 1
    BY <1>1, <1>3, <2>1, FS_AddElement
  <2>3. h = Append(g, r)
    <3>1. InOrder(Append(q, r), Opening(q) \union {Len(q) + 1}) = Append(InOrder(q, Opening(q)), r)
      BY <1>2, OrderMore
    <3> QED
      BY <1>1, <2>1, <3>1
  <2>4. h[c + 1] = r /\ \A i \in 1..c : h[i] = g[i]
    BY <1>3, <2>3
  <2>5. c + 1 \in 1..e /\ \A i \in 1..c : i \in 1..e
    BY <1>5, <2>2
  <2>6. P[c + 1] = Entry(p, SuiteOf(r))
    BY <1>6, <2>4, <2>5
  <2>7. ASSUME NEW i \in 1..c PROVE P[i] = R[i]
    <3>1. PICK s : s = SuiteOf(g[i])
      OBVIOUS
    <3>4. R[i].suite = s /\ SuiteAt(q, R[i].suite) # {}
      BY <1>5, <1>7, <3>1
    <3>2. SuiteOf(r) # s
      BY <1>8, <3>4
    <3>3. Entry(Append(q, r), s) = Entry(q, s)
      BY <3>2, EntryMore
    <3> QED
      BY <1>1, <1>5, <1>6, <2>4, <2>5, <3>1, <3>3
  <2> QED
    BY <2>2, <2>6, <2>7
<1>9. ASSUME SuiteAt(q, SuiteOf(r)) # {}
      PROVE  e = c /\ \A i \in 1..c : P[i] = Entry(p, R[i].suite)
  <2>1. Opening(p) = Opening(q)
    BY <1>1, <1>9, PositionsMore
  <2>2. h = g
    <3>1. PICK at : at = Opening(q) /\ at \in SUBSET (DOMAIN q)
      BY <1>2
    <3>2. InOrder(Append(q, r), at) = InOrder(q, at)
      BY <3>1, OrderMore
    <3> QED
      BY <1>1, <2>1, <3>1, <3>2
  <2>3. e = c
    BY <1>1, <2>1
  <2>4. \A i \in 1..c : P[i] = Entry(p, R[i].suite)
    BY <1>6, <1>7, <2>2, <2>3
  <2> QED
    BY <2>3, <2>4
<1>10. GrowsBy(q, r, c, R, P)
  BY <1>1, <1>6, <1>8, <1>9 DEF GrowsBy
<1> QED
  BY <1>1, <1>10

\* g has x behind the c elements of f, which are in T.
OneBehind(g, f, c, x, T) ==
  /\ c \in Nat /\ f \in [1..c -> T] /\ x \in T
  /\ g = [i \in 1..c + 1 |-> g[i]] /\ g[c + 1] = x /\ \A i \in 1..c : g[i] = f[i]

LEMMA IsLonger ==
  ASSUME NEW T, NEW c, NEW f, NEW x, NEW g, OneBehind(g, f, c, x, T)
  PROVE  f \in Seq(T) /\ g = Append(f, x)
<1>0. /\ c \in Nat /\ f \in [1..c -> T] /\ x \in T
      /\ g = [i \in 1..c + 1 |-> g[i]] /\ g[c + 1] = x /\ \A i \in 1..c : g[i] = f[i]
  BY DEF OneBehind
<1>1. f \in Seq(T) /\ Len(f) = c
  BY <1>0
<1>2. \A i \in 1..c + 1 : i \in 1..c \/ i = c + 1
  BY <1>0
<1>3. PICK h : h = Append(f, x)
  OBVIOUS
<1>4. h \in Seq(T) /\ Len(h) = c + 1 /\ h[c + 1] = x /\ \A i \in 1..c : h[i] = f[i]
  BY <1>0, <1>1, <1>3
<1>5. h \in [1..c + 1 -> T]
  BY <1>4
<1>6. \A i \in 1..c + 1 : g[i] = h[i]
  BY <1>0, <1>2, <1>4
<1>7. g = h
  BY <1>0, <1>5, <1>6
<1> QED
  BY <1>1, <1>3, <1>7

-----------------------------------------------------------------------------
(* The results of a suite come one behind the other. *)

\* The report of q is in order, and suite s is its last one or not in it yet.
Arranged(q, s) ==
  LET R == ReportOf(q)
      c == Cardinality(Opening(q))
  IN /\ \A i, j \in 1..c : R[i].suite = R[j].suite => i = j
     /\ FlattenSeq(Lists(R)) = q
     /\ SumFunctionOnSet(Counts(R), 1..c) = Cardinality(FailedOf(q))
     /\ SuiteAt(q, s) # {} => c > 0 /\ R[c].suite = s

\* The first result of a suite comes behind everything there is.
LEMMA SuiteOpened ==
  ASSUME NEW S, NEW q \in Seq(S), NEW r \in S, NEW s, SuiteOf(r) = s,
         Arranged(q, s), SuiteAt(q, s) = {}
  PROVE  Arranged(Append(q, r), s)
<1>1. PICK p, R, P, c : /\ p = Append(q, r) /\ R = ReportOf(q) /\ P = ReportOf(p)
                        /\ c = Cardinality(Opening(q)) /\ GrowsBy(q, r, c, R, P)
  BY ReportMore
<1>2. /\ c \in Nat /\ DOMAIN R = 1..c
      /\ \A i \in 1..c : /\ SuiteAt(q, R[i].suite) # {}
                         /\ R[i].testcases \in Seq(S) /\ R[i].failures \in Nat
  BY <1>1, ReportFacts
<1>3. /\ Cardinality(Opening(p)) = c + 1 /\ DOMAIN P = 1..c + 1 /\ P[c + 1] = Entry(p, s)
      /\ \A i \in 1..c : P[i] = R[i]
  BY <1>1 DEF GrowsBy
<1>6. PICK bit : bit = IF r.failed > 0 THEN 1 ELSE 0
  OBVIOUS
<1>7. P[c + 1].suite = s /\ P[c + 1].testcases = <<r>> /\ P[c + 1].failures = bit
  <2>1. /\ Entry(q, s).testcases = <<>> /\ Entry(q, s).failures = 0
        /\ Entry(Append(q, r), s).testcases = Append(Entry(q, s).testcases, r)
        /\ Entry(Append(q, r), s).failures
             = Entry(q, s).failures + (IF r.failed > 0 THEN 1 ELSE 0)
    BY EntryMore
  <2>2. Entry(p, s).suite = s
    BY DEF Entry
  <2>3. Entry(p, s).failures = bit
    BY <1>1, <1>6, <2>1
  <2>4. Entry(p, s).testcases = <<r>>
    BY <1>1, <2>1
  <2> QED
    BY <1>3, <2>2, <2>3, <2>4
<1>8. \A i \in 1..c + 1 : i \in 1..c \/ i = c + 1
  BY <1>2
<1>9. \A i, j \in 1..c : R[i].suite = R[j].suite => i = j
  BY <1>1 DEF Arranged
<1>10. \A i \in 1..c : P[i].suite # s
  BY <1>2, <1>3
<1>11. \A i, j \in 1..c + 1 : P[i].suite = P[j].suite => i = j
  BY <1>3, <1>7, <1>8, <1>9, <1>10
<1>12. FlattenSeq(Lists(P)) = p
  <2>1. PICK L, M : L = Lists(R) /\ M = Lists(P)
    OBVIOUS
  <2>2. PICK T : T = Seq(S)
    OBVIOUS
  <2>12. L \in [1..c -> T]
    <3>1. \A i \in 1..c : R[i].testcases \in T
      BY <1>2, <2>2
    <3>2. L = [i \in 1..c |-> R[i].testcases]
      BY <1>2, <2>1 DEF Lists
    <3> QED
      BY <3>1, <3>2
  <2>3. <<r>> \in Seq(S)
    OBVIOUS
  <2>4. M = [i \in 1..c + 1 |-> M[i]] /\ M[c + 1] = <<r>> /\ \A i \in 1..c : M[i] = L[i]
    <3>1. M = [i \in 1..c + 1 |-> P[i].testcases]
      BY <1>3, <2>1 DEF Lists
    <3>2. c + 1 \in 1..c + 1 /\ \A i \in 1..c : i \in 1..c + 1
      BY <1>2
    <3>3. M[c + 1] = <<r>>
      BY <1>7, <3>1, <3>2
    <3>4. \A i \in 1..c : M[i] = P[i].testcases
      BY <3>1, <3>2
    <3>5. \A i \in 1..c : L[i] = R[i].testcases
      BY <1>2, <2>1 DEF Lists
    <3> QED
      BY <1>3, <3>1, <3>3, <3>4, <3>5
  <2>9. PICK b : b = <<r>> /\ b \in Seq(S)
    BY <2>3
  <2>10. M[c + 1] = b
    BY <2>4, <2>9
  <2>11. L \in Seq(T) /\ M = Append(L, b)
    <3>1. OneBehind(M, L, c, b, T)
      BY <1>2, <2>2, <2>4, <2>9, <2>12 DEF OneBehind
    <3> QED
      BY <3>1, IsLonger
  <2>5. M = Append(L, <<r>>)
    BY <2>9, <2>11
  <2>6. FlattenSeq(M) = FlattenSeq(L) \o <<r>>
    BY <2>2, <2>9, <2>11, FlattenBehind
  <2>7. FlattenSeq(L) = q
    BY <1>1, <2>1 DEF Arranged
  <2>8. q \o <<r>> = Append(q, r)
    OBVIOUS
  <2> QED
    BY <1>1, <2>1, <2>6, <2>7, <2>8
<1>13. SumFunctionOnSet(Counts(P), 1..c + 1) = Cardinality(FailedOf(p))
  <2>1. PICK f, g, x : f = Counts(R) /\ g = Counts(P) /\ x = c + 1
    OBVIOUS
  <2>2. /\ \A i \in 1..c : g[i] = f[i] /\ f[i] \in Int
        /\ g[x] = bit /\ bit \in Int
    <3>1. c + 1 \in 1..c + 1 /\ \A i \in 1..c : i \in 1..c + 1
      BY <1>2
    <3>2. g = [i \in 1..c + 1 |-> P[i].failures] /\ f = [i \in 1..c |-> R[i].failures]
      BY <1>2, <1>3, <2>1 DEF Counts
    <3>3. \A i \in 1..c : g[i] = P[i].failures /\ f[i] = R[i].failures
      BY <3>1, <3>2
    <3>4. g[x] = bit /\ bit \in Int
      BY <1>6, <1>7, <2>1, <3>1, <3>2
    <3> QED
      BY <1>2, <1>3, <3>3, <3>4
  <2>3. IsFiniteSet(1..c) /\ x \notin 1..c /\ (1..c) \union {x} = 1..c + 1
    <3>1. 1 \in Int /\ c \in Int
      BY <1>2
    <3>2. IsFiniteSet(1..c)
      BY <3>1, FS_Interval
    <3> QED
      BY <1>2, <2>1, <3>2
  <2>4. \A i \in (1..c) \union {x} : g[i] \in Int
    BY <2>2
  <2>5. SumFunctionOnSet(g, (1..c) \union {x}) = g[x] + SumFunctionOnSet(g, 1..c)
    BY <2>3, <2>4, SumWith
  <2>6. SumFunctionOnSet(g, 1..c) = SumFunctionOnSet(f, 1..c)
    BY <2>2, <2>3, SumSame
  <2>7. SumFunctionOnSet(f, 1..c) = Cardinality(FailedOf(q))
    BY <1>1, <2>1 DEF Arranged
  <2>8. Cardinality(FailedOf(q)) \in Nat /\ Cardinality(FailedOf(p)) = Cardinality(FailedOf(q)) + bit
    BY <1>1, <1>6, FailedMore
  <2>9. SumFunctionOnSet(g, 1..c + 1) = bit + Cardinality(FailedOf(q))
    BY <2>2, <2>3, <2>5, <2>6, <2>7
  <2> QED
    BY <2>1, <2>2, <2>8, <2>9
<1>14. c + 1 > 0 /\ P[c + 1].suite = s
  BY <1>2, <1>7
<1>15. Arranged(p, s)
  BY <1>1, <1>3, <1>11, <1>12, <1>13, <1>14 DEF Arranged
<1> QED
  BY <1>1, <1>15

\* A further result of the last suite comes behind everything there is.
LEMMA SuiteContinued ==
  ASSUME NEW S, NEW q \in Seq(S), NEW r \in S, NEW s, SuiteOf(r) = s,
         Arranged(q, s), SuiteAt(q, s) # {}
  PROVE  Arranged(Append(q, r), s)
<1>1. PICK p, R, P, c : /\ p = Append(q, r) /\ R = ReportOf(q) /\ P = ReportOf(p)
                        /\ c = Cardinality(Opening(q)) /\ GrowsBy(q, r, c, R, P)
  BY ReportMore
<1>2. /\ c \in Nat /\ DOMAIN R = 1..c
      /\ \A i \in 1..c : /\ R[i] = Entry(q, R[i].suite)
                         /\ R[i].testcases \in Seq(S) /\ R[i].failures \in Nat
  BY <1>1, ReportFacts
<1>3. /\ Cardinality(Opening(p)) = c /\ DOMAIN P = 1..c
      /\ \A i \in 1..c : P[i] = Entry(p, R[i].suite)
  BY <1>1 DEF GrowsBy
<1>4. /\ c > 0 /\ R[c].suite = s
      /\ \A i, j \in 1..c : R[i].suite = R[j].suite => i = j
  BY <1>1 DEF Arranged
<1>5. PICK k : k = c - 1
  OBVIOUS
<1>6. /\ k \in Nat /\ k + 1 = c /\ c \in 1..c /\ c \notin 1..k
      /\ \A i \in 1..c : i \in 1..k \/ i = c
      /\ \A i \in 1..k : i \in 1..c /\ i # c
  BY <1>2, <1>4, <1>5
<1>7. PICK bit : bit = IF r.failed > 0 THEN 1 ELSE 0
  OBVIOUS
<1>8. ASSUME NEW i \in 1..k PROVE P[i] = R[i]
  <2>1. PICK u : u = R[i].suite
    OBVIOUS
  <2>2. u # s
    BY <1>4, <1>6, <2>1
  <2>3. Entry(Append(q, r), u) = Entry(q, u)
    BY <2>2, EntryMore
  <2>4. i \in 1..c
    BY <1>6
  <2> QED
    BY <1>1, <1>2, <1>3, <2>1, <2>3, <2>4
<1>9. PICK t : t = R[c].testcases
  OBVIOUS
<1>10. /\ P[c].suite = s /\ P[c].testcases = Append(t, r)
       /\ P[c].failures = R[c].failures + bit
  <2>1. R[c] = Entry(q, s) /\ P[c] = Entry(p, s)
    BY <1>2, <1>3, <1>4, <1>6
  <2>2. Entry(Append(q, r), s).testcases = Append(Entry(q, s).testcases, r)
    BY EntryMore
  <2>3. Entry(Append(q, r), s).failures
           = Entry(q, s).failures + (IF r.failed > 0 THEN 1 ELSE 0)
    BY EntryMore
  <2>4. P[c].suite = s
    BY <2>1 DEF Entry
  <2>5. P[c].testcases = Append(t, r)
    BY <1>1, <1>9, <2>1, <2>2
  <2>6. P[c].failures = R[c].failures + bit
    BY <1>1, <1>7, <2>1, <2>3
  <2> QED
    BY <2>4, <2>5, <2>6
<1>11. \A i \in 1..c : P[i].suite = R[i].suite
  BY <1>4, <1>6, <1>8, <1>10
<1>12. \A i, j \in 1..c : P[i].suite = P[j].suite => i = j
  BY <1>4, <1>11
<1>13. FlattenSeq(Lists(P)) = p
  <2>1. PICK L, M : L = Lists(R) /\ M = Lists(P)
    OBVIOUS
  <2>2. PICK T, b : T = Seq(S) /\ b = Append(t, r)
    OBVIOUS
  <2>3. \A i \in 1..c : R[i].testcases \in T
    BY <1>2, <2>2
  <2>4. t \in T /\ b \in T
    <3>1. t \in T
      BY <1>6, <1>9, <2>3
    <3>2. t \in Seq(S)
      BY <2>2, <3>1
    <3>3. Append(t, r) \in Seq(S)
      BY <3>2
    <3> QED
      BY <2>2, <3>1, <3>3
  <2>5. L = [i \in 1..c |-> R[i].testcases] /\ M = [i \in 1..c |-> P[i].testcases]
    BY <1>2, <1>3, <2>1 DEF Lists
  <2>6. PICK f : f = [i \in 1..k |-> R[i].testcases]
    OBVIOUS
  <2>7. f \in [1..k -> T]
    BY <1>6, <2>3, <2>6
  <2>8. OneBehind(L, f, k, t, T)
    <3>1. \A i \in 1..c : L[i] = R[i].testcases
      BY <2>5
    <3>2. \A i \in 1..k : f[i] = R[i].testcases
      BY <2>6
    <3>3. \A i \in 1..k : L[i] = f[i]
      BY <1>6, <3>1, <3>2
    <3>4. L[k + 1] = t
      BY <1>6, <1>9, <3>1
    <3>5. L = [i \in 1..k + 1 |-> L[i]]
      BY <1>6, <2>5
    <3> QED
      BY <1>6, <2>4, <2>7, <3>3, <3>4, <3>5 DEF OneBehind
  <2>9. OneBehind(M, f, k, b, T)
    <3>1. \A i \in 1..c : M[i] = P[i].testcases
      BY <2>5
    <3>2. \A i \in 1..k : f[i] = R[i].testcases
      BY <2>6
    <3>3. \A i \in 1..k : M[i] = f[i]
      BY <1>6, <1>8, <3>1, <3>2
    <3>4. M[k + 1] = b
      BY <1>6, <1>10, <2>2, <3>1
    <3>5. M = [i \in 1..k + 1 |-> M[i]]
      BY <1>6, <2>5
    <3> QED
      BY <1>6, <2>4, <2>7, <3>3, <3>4, <3>5 DEF OneBehind
  <2>10. f \in Seq(T) /\ L = Append(f, t)
    BY <2>8, IsLonger
  <2>11. M = Append(f, b)
    BY <2>9, IsLonger
  <2>12. FlattenSeq(Append(f, Append(t, r))) = Append(FlattenSeq(Append(f, t)), r)
    BY <2>2, <2>4, <2>10, FlattenLonger
  <2>13. FlattenSeq(L) = q
    BY <1>1, <2>1 DEF Arranged
  <2> QED
    BY <1>1, <2>1, <2>2, <2>10, <2>11, <2>12, <2>13
<1>14. SumFunctionOnSet(Counts(P), 1..c) = Cardinality(FailedOf(p))
  <2>1. PICK f, g : f = Counts(R) /\ g = Counts(P)
    OBVIOUS
  <2>2. PICK X : X = 1..c
    OBVIOUS
  <2>3. g = [i \in 1..c |-> P[i].failures] /\ f = [i \in 1..c |-> R[i].failures]
    BY <1>2, <1>3, <2>1 DEF Counts
  <2>4. bit \in Int
    BY <1>7
  <2>5. /\ \A y \in X : f[y] \in Int
        /\ c \in X /\ g[c] = f[c] + bit /\ \A y \in X \ {c} : g[y] = f[y]
    <3>1. \A y \in 1..c : g[y] = P[y].failures /\ f[y] = R[y].failures
      BY <2>3
    <3>2. \A y \in X : f[y] \in Int
      BY <1>2, <2>2, <3>1
    <3>3. c \in X /\ g[c] = f[c] + bit
      BY <1>6, <1>10, <2>2, <3>1
    <3>4. \A y \in X \ {c} : y \in 1..k /\ y \in 1..c
      BY <1>6, <2>2
    <3>5. \A y \in X \ {c} : g[y] = f[y]
      BY <1>8, <3>1, <3>4
    <3> QED
      BY <3>2, <3>3, <3>5
  <2>6. IsFiniteSet(X)
    <3>1. 1 \in Int /\ c \in Int
      BY <1>2
    <3> QED
      BY <2>2, <3>1, FS_Interval
  <2>7. SumFunctionOnSet(g, X) = SumFunctionOnSet(f, X) + bit
    BY <2>4, <2>5, <2>6, SumGrows
  <2>8. SumFunctionOnSet(f, X) = Cardinality(FailedOf(q))
    BY <1>1, <2>1, <2>2 DEF Arranged
  <2>9. Cardinality(FailedOf(p)) = Cardinality(FailedOf(q)) + bit
    BY <1>1, <1>7, FailedMore
  <2> QED
    BY <2>1, <2>2, <2>7, <2>8, <2>9
<1>15. Arranged(p, s)
  BY <1>1, <1>3, <1>4, <1>10, <1>12, <1>13, <1>14 DEF Arranged
<1> QED
  BY <1>1, <1>15

\* A report without results is in order.
LEMMA NothingArranged ==
  ASSUME NEW s
  PROVE  Arranged(<<>>, s)
<1>1. PICK q, S : q = <<>> /\ S = {0}
  OBVIOUS
<1>2. q \in Seq(S) /\ DOMAIN q = {}
  BY <1>1
<1>3. Opening(q) = {} /\ SuiteAt(q, s) = {} /\ FailedOf(q) = {}
  BY <1>2 DEF Opening, SuiteAt, FailedOf
<1>4. PICK R : R = ReportOf(q)
  OBVIOUS
<1>5. Cardinality(Opening(q)) = 0 /\ Cardinality(FailedOf(q)) = 0
  BY <1>3, FS_EmptySet
<1>6. DOMAIN R = 1..0
  BY <1>2, <1>4, <1>5, ReportFacts
<1>7. 1..0 = {}
  OBVIOUS
<1>8. FlattenSeq(Lists(R)) = q
  <2>1. Lists(R) = [i \in {} |-> R[i].testcases]
    BY <1>6, <1>7 DEF Lists
  <2>2. PICK L : L = Lists(R)
    OBVIOUS
  <2>3. L = <<>>
    BY <2>1, <2>2
  <2>4. FlattenSeq(L) = <<>>
    BY <2>3 DEF FlattenSeq
  <2> QED
    BY <1>1, <2>2, <2>4
<1>9. SumFunctionOnSet(Counts(R), 1..0) = 0
  BY <1>7, SumEmpty
<1>10. Arranged(q, s)
  BY <1>3, <1>4, <1>5, <1>7, <1>8, <1>9 DEF Arranged
<1> QED
  BY <1>1, <1>10

-----------------------------------------------------------------------------
(* A case runs none of its phases twice. *)

NoneTwice(q) == \A i, j \in DOMAIN q : q[i] = q[j] => i = j

LEMMA StillNoneTwice ==
  ASSUME NEW S, NEW q \in Seq(S), NoneTwice(q), NEW p, p \notin S, NEW e, e = <<p>> \/ e = <<>>
  PROVE  q \o e \in Seq(S \union {p}) /\ NoneTwice(q \o e)
<1>1. PICK T, n, z : T = S \union {p} /\ n = Len(q) /\ z = q \o e
  OBVIOUS
<1>2. q \in Seq(T) /\ n \in Nat /\ DOMAIN q = 1..n /\ \A i \in 1..n : q[i] \in S
  BY <1>1
<1>3. CASE e = <<>>
  <2>1. q \o <<>> = q
    OBVIOUS
  <2> QED
    BY <1>1, <1>2, <1>3, <2>1
<1>4. CASE e = <<p>>
  <2>1. <<p>> \in Seq(T) /\ Len(<<p>>) = 1 /\ <<p>>[1] = p
    BY <1>1
  <2>2. z \in Seq(T) /\ Len(z) = n + 1
    BY <1>1, <1>2, <1>4, <2>1
  <2>3. z[n + 1] = p /\ \A i \in 1..n : z[i] = q[i]
    BY <1>1, <1>2, <1>4, <2>1
  <2>4. DOMAIN z = 1..n + 1 /\ \A i \in 1..n + 1 : i \in 1..n \/ i = n + 1
    BY <1>2, <2>2
  <2>5. \A i \in 1..n : z[i] # p
    BY <1>2, <2>3
  <2>6. NoneTwice(z)
    BY <1>2, <2>3, <2>4, <2>5 DEF NoneTwice
  <2> QED
    BY <1>1, <2>2, <2>6
<1> QED
  BY <1>3, <1>4

LEMMA DueOnce ==
  ASSUME NEW n
  PROVE  NoneTwice(Due(n))
<1> DEFINE taken(p) == IF p \in asked /\ (p \in {"STRESS", "MEMORY"} => p \in Offers[n])
                       THEN <<p>> ELSE <<>>
<1>1. PICK a, b, d, e : /\ a = taken("BASIC") /\ b = taken("MEASURE")
                        /\ d = taken("STRESS") /\ e = taken("MEMORY")
  OBVIOUS
<1>2. Due(n) = a \o b \o d \o e
  BY <1>1 DEF Due
<1>3. \A p : taken(p) = <<p>> \/ taken(p) = <<>>
  OBVIOUS
<1> HIDE DEF taken
<1>4. /\ a = <<"BASIC">> \/ a = <<>>
      /\ b = <<"MEASURE">> \/ b = <<>>
      /\ d = <<"STRESS">> \/ d = <<>>
      /\ e = <<"MEMORY">> \/ e = <<>>
  BY <1>1, <1>3
<1>5. PICK A, B, D : A = {"BASIC"} /\ B = A \union {"MEASURE"} /\ D = B \union {"STRESS"}
  OBVIOUS
<1>6. "MEASURE" \notin A /\ "STRESS" \notin B /\ "MEMORY" \notin D
  BY <1>5
<1>7. a \in Seq(A) /\ NoneTwice(a)
  <2>1. CASE a = <<"BASIC">>
    <3>1. <<"BASIC">> \in Seq(A) /\ DOMAIN <<"BASIC">> = 1..1
      BY <1>5
    <3>2. \A i, j \in 1..1 : i = j
      OBVIOUS
    <3> QED
      BY <2>1, <3>1, <3>2 DEF NoneTwice
  <2>2. CASE a = <<>>
    <3>1. <<>> \in Seq(A) /\ DOMAIN <<>> = {}
      OBVIOUS
    <3> QED
      BY <2>2, <3>1 DEF NoneTwice
  <2> QED
    BY <1>4, <2>1, <2>2
<1>8. PICK x : x = a \o b
  OBVIOUS
<1>9. x \in Seq(B) /\ NoneTwice(x)
  BY <1>4, <1>5, <1>6, <1>7, <1>8, StillNoneTwice
<1>10. PICK y : y = x \o d
  OBVIOUS
<1>11. y \in Seq(D) /\ NoneTwice(y)
  BY <1>4, <1>5, <1>6, <1>9, <1>10, StillNoneTwice
<1>12. NoneTwice(y \o e)
  BY <1>4, <1>6, <1>11, StillNoneTwice
<1> QED
  BY <1>2, <1>8, <1>10, <1>12

-----------------------------------------------------------------------------
(* Steps of the runner, and the results they leave. *)

Suite == <<case, Phase>>

\* The results are those of cases before this one and of its phases so far.
Earlier ==
  \A i \in DOMAIN results :
    /\ results[i].case \in Nat /\ results[i].case <= case
    /\ results[i].case = case =>
         \E k \in 1..phase : k \in DOMAIN Due(case) /\ results[i].phase = Due(case)[k]

ReportInv == (pc = "main" => results = <<>>) /\ Earlier /\ Arranged(results, Suite)

\* The report is in order for a suite that has no result yet.
LEMMA ArrangedForNew ==
  ASSUME NEW q, NEW s, NEW t, Arranged(q, s), SuiteAt(q, t) = {}
  PROVE  Arranged(q, t)
BY DEF Arranged

LEMMA SameSuite ==
  ASSUME ReportInv, UNCHANGED <<results, asked, case, phase>>, pc' # "main" \/ pc' = pc
  PROVE  ReportInv'
<1>1. Due(case)' = Due(case) /\ Suite' = Suite
  BY DueStays, PhaseStays DEF Suite
<1>2. Arranged(results, Suite)'
  <2>1. PICK q, s : q = results /\ s = Suite
    OBVIOUS
  <2>2. results' = q /\ Suite' = s /\ Arranged(q, s)
    BY <1>1, <2>1 DEF ReportInv
  <2> QED
    BY <2>2
<1>3. Earlier'
  BY <1>1 DEF ReportInv, Earlier
<1> QED
  BY <1>2, <1>3 DEF ReportInv

LEMMA NextSuite ==
  ASSUME RunInv, ReportInv, UNCHANGED <<results, asked, case>>, phase' = phase + 1,
         case > 0, phase + 1 \in 1..Len(Due(case)), pc' # "main"
  PROVE  ReportInv'
<1>1. PICK d, k, q : d = Due(case) /\ k = phase + 1 /\ q = results
  OBVIOUS
<1>2. Due(case)' = d /\ results' = q /\ case' = case
  BY <1>1, DueStays
<1>3. phase \in Nat /\ k \in DOMAIN d /\ phase' = k /\ 1..phase \subseteq 1..k /\ k \notin 1..phase
  <2>1. phase \in Nat
    BY DEF RunInv, RunTypes
  <2>2. DOMAIN d = 1..Len(d)
    BY <1>1, DueFacts
  <2> QED
    BY <1>1, <2>1, <2>2
<1>4. Suite' = <<case, d[k]>>
  BY <1>2, <1>3 DEF Suite, Phase
<1>5. Earlier'
  <2>1. \A i \in DOMAIN q :
          /\ q[i].case \in Nat /\ q[i].case <= case
          /\ q[i].case = case => \E j \in 1..phase : j \in DOMAIN d /\ q[i].phase = d[j]
    BY <1>1 DEF ReportInv, Earlier
  <2>2. \A i \in DOMAIN q :
          /\ q[i].case \in Nat /\ q[i].case <= case
          /\ q[i].case = case => \E j \in 1..k : j \in DOMAIN d /\ q[i].phase = d[j]
    BY <1>3, <2>1
  <2> QED
    BY <1>2, <1>3, <2>2 DEF Earlier
<1>6. SuiteAt(q, <<case, d[k]>>) = {}
  <2>1. ASSUME NEW i \in DOMAIN q, SuiteOf(q[i]) = <<case, d[k]>> PROVE FALSE
    <3>1. q[i].case = case /\ q[i].phase = d[k]
      BY <2>1 DEF SuiteOf
    <3>2. PICK j \in 1..phase : j \in DOMAIN d /\ q[i].phase = d[j]
      BY <1>1, <3>1 DEF ReportInv, Earlier
    <3>3. NoneTwice(d)
      BY <1>1, DueOnce
    <3>4. j = k
      BY <1>3, <3>1, <3>2, <3>3 DEF NoneTwice
    <3> QED
      BY <1>3, <3>2, <3>4
  <2> QED
    BY <2>1 DEF SuiteAt
<1>7. Arranged(q, <<case, d[k]>>)
  BY <1>1, <1>6, ArrangedForNew DEF ReportInv
<1>8. Arranged(results, Suite)'
  BY <1>2, <1>4, <1>7
<1> QED
  BY <1>5, <1>8 DEF ReportInv

LEMMA NextCase ==
  ASSUME RunInv, ReportInv, results' = results, case' = case + 1, pc' # "main"
  PROVE  ReportInv'
<1>1. PICK q, c, s : q = results /\ c = case + 1 /\ s = Suite'
  OBVIOUS
<1>2. results' = q /\ case' = c /\ case \in Nat
  BY <1>1 DEF RunInv, RunTypes
<1>3. \A i \in DOMAIN q : q[i].case \in Nat /\ q[i].case <= c /\ q[i].case # c
  <2>1. \A i \in DOMAIN q : q[i].case \in Nat /\ q[i].case <= case
    BY <1>1 DEF ReportInv, Earlier
  <2> QED
    BY <1>1, <1>2, <2>1
<1>4. Earlier'
  BY <1>2, <1>3 DEF Earlier
<1>5. SuiteAt(q, s) = {}
  <2>1. PICK p : s = <<c, p>>
    BY <1>1 DEF Suite
  <2> QED
    BY <1>3, <2>1 DEF SuiteAt, SuiteOf
<1>6. Arranged(q, s)
  BY <1>1, <1>5, ArrangedForNew DEF ReportInv
<1>7. Arranged(results, Suite)'
  BY <1>1, <1>2, <1>6
<1> QED
  BY <1>4, <1>7 DEF ReportInv

\* A group that ends leaves a result of the suite that runs.
LEMMA ResultLeft ==
  ASSUME RunInv, FixtureInv, ReportInv, pc = "body", pc' = "body",
         UNCHANGED <<asked, case, phase>>, NEW r, r.case = case, r.phase = Phase,
         results' = Append(results, r)
  PROVE  ReportInv'
<1>1. PICK d, k, q, s : d = Due(case) /\ k = phase /\ q = results /\ s = Suite
  OBVIOUS
<1>2. Due(case)' = d /\ Suite' = s /\ case' = case /\ phase' = k /\ results' = Append(q, r)
  BY <1>1, DueStays, PhaseStays DEF Suite
<1>3. k \in 1..k /\ k \in DOMAIN d /\ r.phase = d[k] /\ case \in Nat
  <2>1. phase \in 1..Len(d) /\ Len(d) \in Nat /\ Phase = d[phase]
    BY <1>1, PhaseRuns DEF InCase
  <2>2. DOMAIN d = 1..Len(d)
    BY <1>1, DueFacts
  <2>3. case \in Nat
    BY DEF RunInv, RunTypes
  <2> QED
    BY <1>1, <2>1, <2>2, <2>3
<1>4. PICK S : S = Range(q) \union {r}
  OBVIOUS
<1>5. q \in Seq(S) /\ r \in S
  <2>1. q \in Seq(Range(q))
    BY <1>1 DEF RunInv, GroupsCount
  <2> QED
    BY <1>4, <2>1
<1>6. SuiteOf(r) = s
  BY <1>1 DEF SuiteOf, Suite
<1>7. Arranged(q, s)
  BY <1>1 DEF ReportInv
<1>8. Arranged(Append(q, r), s)
  BY <1>5, <1>6, <1>7, SuiteOpened, SuiteContinued
<1>9. Arranged(results, Suite)'
  BY <1>2, <1>8
<1>10. Earlier'
  <2>1. PICK p, n : p = Append(q, r) /\ n = Len(q)
    OBVIOUS
  <2>2. /\ n \in Nat /\ DOMAIN q = 1..n /\ DOMAIN p = 1..n + 1 /\ p[n + 1] = r
        /\ \A i \in 1..n : p[i] = q[i]
    BY <1>5, <2>1
  <2>3. \A i \in 1..n + 1 : i \in 1..n \/ i = n + 1
    BY <2>2
  <2>4. \A i \in 1..n :
          /\ q[i].case \in Nat /\ q[i].case <= case
          /\ q[i].case = case => \E j \in 1..k : j \in DOMAIN d /\ q[i].phase = d[j]
    BY <1>1, <2>2 DEF ReportInv, Earlier
  <2>5. /\ r.case \in Nat /\ r.case <= case
        /\ \E j \in 1..k : j \in DOMAIN d /\ r.phase = d[j]
    BY <1>3
  <2>6. \A i \in DOMAIN p :
          /\ p[i].case \in Nat /\ p[i].case <= case
          /\ p[i].case = case => \E j \in 1..k : j \in DOMAIN d /\ p[i].phase = d[j]
    BY <2>2, <2>3, <2>4, <2>5
  <2> QED
    BY <1>2, <2>1, <2>6 DEF Earlier
<1> QED
  BY <1>9, <1>10 DEF ReportInv

LEMMA PhaseLeft ==
  ASSUME RunInv, FixtureInv, ReportInv, pc = "tearDown", NEW obj, NEW value, NEW line,
         Leave(obj, value, line), UNCHANGED <<results, asked, case>>
  PROVE  ReportInv'
<1>1. phase \in 1..Len(Due(case)) /\ Len(Due(case)) \in Nat /\ case > 0
  BY PhaseRuns DEF InCase, RunInv, RunTypes
<1>2. CASE ~stopped /\ phase < Len(Due(case))
  <2>1. phase' = phase + 1 /\ pc' = "setUp"
    BY <1>2 DEF Leave
  <2>2. phase + 1 \in 1..Len(Due(case))
    BY <1>1, <1>2
  <2> QED
    BY <1>1, <2>1, <2>2, NextSuite
<1>3. CASE ~(~stopped /\ phase < Len(Due(case)))
  <2>1. phase' = phase /\ pc' = "next"
    BY <1>3 DEF Leave, EndCase
  <2> QED
    BY <2>1, SameSuite
<1> QED
  BY <1>2, <1>3

LEMMA ReportNext ==
  ASSUME RunInv, FixtureInv, ReportInv,
         Steps \/ UNCHANGED vars \/ \E b, m, ph : testAll(b, m, ph)
  PROVE  ReportInv'
<1>1. CASE UNCHANGED vars
  BY <1>1, SameSuite DEF vars, chosen
<1>2. CASE \E b, m, ph : testAll(b, m, ph)
  <2>1. pc = "main" /\ pc' = "next" /\ results' = results
    BY <1>2 DEF testAll
  <2>2. results = <<>>
    BY <2>1 DEF ReportInv
  <2>3. Arranged(<<>>, Suite')
    BY NothingArranged
  <2>4. Arranged(results, Suite)'
    BY <2>1, <2>2, <2>3
  <2>5. Earlier'
    BY <2>1, <2>2 DEF Earlier
  <2> QED
    BY <2>1, <2>4, <2>5 DEF ReportInv
<1>3. CASE CountNotRun \/ PassOver \/ BeginCase \/ RunNothing
  <2>1. results' = results /\ case' = case + 1 /\ pc' # "main"
    BY <1>3 DEF CountNotRun, PassOver, BeginCase, RunNothing
  <2> QED
    BY <2>1, NextCase
<1>4. CASE Finish \/ EndBody \/ CheckPasses \/ CheckFails \/ MeasureTime \/ RecordMemory \/ startGroup
  <2>1. UNCHANGED <<results, asked, case, phase>> /\ (pc' # "main" \/ pc' = pc)
    BY <1>4 DEF Finish, EndBody, BodyReturned, CheckPasses, CheckFails, MeasureTime, RecordMemory,
                startGroup, chosen
  <2> QED
    BY <2>1, SameSuite
<1>5. CASE SetUp
  <2>1. UNCHANGED <<results, asked, case, phase>> /\ pc' # "main"
    BY <1>5 DEF SetUp, SetUpFailed, EndCase, chosen
  <2> QED
    BY <2>1, SameSuite
<1>6. CASE TearDown
  <2>1. pc = "tearDown" /\ UNCHANGED <<results, asked, case>>
    BY <1>6 DEF TearDown, chosen
  <2>2. PICK value \in BOOLEAN : Leave(o, value, IF value THEN failures ELSE failures + 1)
    BY <1>6 DEF TearDown
  <2> QED
    BY <2>1, <2>2, PhaseLeft
<1>7. CASE CheckStops
  <2>1. UNCHANGED <<results, asked, case>>
    BY <1>7 DEF CheckStops, chosen
  <2>2. PICK dumped : dumped = DumpGroupEnd(AddLog(AddResult(o, FALSE), failures + 1))
    OBVIOUS
  <2>3. CASE pc = "tearDown"
    <3>1. PICK value, line : value = FALSE /\ line = failures + 2
      OBVIOUS
    <3>2. Leave(dumped, value, line)
      BY <1>7, <2>2, <2>3, <3>1 DEF CheckStops
    <3> QED
      BY <2>1, <2>3, <3>2, PhaseLeft
  <2>4. CASE pc # "tearDown"
    <3>1. phase' = phase /\ pc' # "main"
      BY <1>7, <2>4 DEF CheckStops, BodyReturned, SetUpFailed, EndCase
    <3> QED
      BY <2>1, <3>1, SameSuite
  <2> QED
    BY <2>3, <2>4
<1>8. CASE endGroup
  <2>1. pc = "body" /\ pc' = "body" /\ UNCHANGED <<asked, case, phase>>
    BY <1>8 DEF endGroup, chosen
  <2>2. PICK r : r.case = case /\ r.phase = Phase /\ results' = Append(results, r)
    BY <1>8 DEF endGroup
  <2> QED
    BY <2>1, <2>2, ResultLeft
<1> QED
  BY <1>1, <1>2, <1>3, <1>4, <1>5, <1>6, <1>7, <1>8 DEF Steps

LEMMA ReportInit ==
  ASSUME Init
  PROVE  ReportInv
<1>1. results = <<>>
  BY DEF Init
<1>2. Arranged(results, Suite)
  BY <1>1, NothingArranged
<1>3. Earlier
  BY <1>1 DEF Earlier
<1> QED
  BY <1>1, <1>2, <1>3 DEF ReportInv

LEMMA ReportIs ==
  ASSUME RunInv, ReportInv
  PROVE  ReportExact
<1>1. PICK q, R, c : q = results /\ R = ReportOf(q) /\ c = Cardinality(Opening(q))
  OBVIOUS
<1>2. writeJUnit = R
  BY <1>1 DEF writeJUnit
<1>3. q \in Seq(Range(q)) /\ DOMAIN q = DOMAIN ended
  <2>1. /\ results \in Seq(Range(results)) /\ ended \in Seq(Nat) /\ Len(results) = Len(ended)
    BY DEF RunInv, GroupsCount
  <2> QED
    BY <1>1, <2>1
<1>4. DOMAIN R = 1..c
  BY <1>1, <1>3, ReportFacts
<1>5. /\ FlattenSeq(Lists(R)) = q
      /\ SumFunctionOnSet(Counts(R), 1..c) = Cardinality(FailedOf(q))
  BY <1>1 DEF ReportInv, Arranged
<1>6. Lists(R) = [i \in DOMAIN R |-> R[i].testcases]
  BY DEF Lists
<1>7. SumFunction([i \in DOMAIN R |-> R[i].failures]) = SumFunctionOnSet(Counts(R), 1..c)
  <2>1. DOMAIN Counts(R) = 1..c
    BY <1>4 DEF Counts
  <2>2. SumFunction(Counts(R)) = SumFunctionOnSet(Counts(R), 1..c)
    BY <2>1 DEF SumFunction, SumFunctionOnSet, FoldFunction
  <2> QED
    BY <2>2 DEF Counts
<1>8. FailedOf(q) = {i \in DOMAIN ended : truth[ended[i]].failed > 0}
  <2>1. \A i \in DOMAIN ended : q[i].id = ended[i] /\ q[i].failed = truth[q[i].id].failed
    BY <1>1 DEF RunInv, GroupsCount
  <2>2. \A i \in DOMAIN ended : q[i].failed = truth[ended[i]].failed
    BY <2>1
  <2> QED
    BY <1>3, <2>2 DEF FailedOf
<1>9. /\ FlattenSeq([i \in DOMAIN R |-> R[i].testcases]) = results
      /\ SumFunction([i \in DOMAIN R |-> R[i].failures])
           = Cardinality({i \in DOMAIN ended : truth[ended[i]].failed > 0})
  BY <1>1, <1>5, <1>6, <1>7, <1>8
<1> QED
  BY <1>2, <1>9 DEF ReportExact

\* The JUnit report has a suite for every case and phase in which a group ended,
\* with those groups in the order in which they ended, and counts as failures the
\* groups in which an assertion failed: whatever groups start, end and are nested,
\* and wherever a case ends.  A case runs none of its phases twice and cases run
\* one after another, so no suite is left and come back to.
THEOREM ReportIsExact ==
  /\ Spec => []ReportExact
  /\ ProgramSpec => []ReportExact
<1> DEFINE Inv == FixtureInv /\ ReportInv
<1>1. RunInv /\ Inv => ReportExact
  BY ReportIs
<1>2. RunInv /\ Inv /\ [Next]_vars => Inv'
  <2>1. SUFFICES ASSUME RunInv, FixtureInv, ReportInv, [Next]_vars PROVE FixtureInv' /\ ReportInv'
    OBVIOUS
  <2>2. Steps \/ UNCHANGED vars \/ \E b, m, ph : testAll(b, m, ph)
    BY <2>1 DEF Next, Gone
  <2> QED
    BY <2>1, <2>2, HooksNext, ReportNext
<1>3. ProgramInv /\ Inv /\ [ProgramNext]_programVars => Inv'
  <2>1. SUFFICES ASSUME ProgramInv, FixtureInv, ReportInv, [ProgramNext]_programVars
                 PROVE  FixtureInv' /\ ReportInv'
    OBVIOUS
  <2>2. Steps \/ UNCHANGED vars \/ \E b, m, ph : testAll(b, m, ph)
    BY <2>1, ProgramStep
  <2> QED
    BY <2>1, <2>2, HooksNext, ReportNext DEF ProgramInv
<1>4. Init => Inv
  BY HooksInit, ReportInit
<1>5. ProgramInit => Inv
  BY <1>4 DEF ProgramInit
<1>6. ProgramInv => RunInv
  BY DEF ProgramInv
<1> HIDE DEF Inv
<1>7. Spec => []ReportExact
  BY <1>1, <1>2, <1>4, RunnerInvariant, PTL DEF Spec
<1>8. ProgramSpec => []ReportExact
  BY <1>1, <1>3, <1>5, <1>6, ProgramInvariant, PTL DEF ProgramSpec
<1> QED
  BY <1>7, <1>8

-----------------------------------------------------------------------------
(* Arguments that are about different things. *)

LocalNames == {"phases", "loop", "stop", "detail", "help", "wantList", "basicOnly", "timeOnly",
               "command", "junitPath"}

IsLocals(s) == s = [x \in LocalNames |-> s[x]]

\* The locals that an argument is about, beside --only= and its like.
About == [report |-> "junitPath", list |-> "wantList", help |-> "help", no_stop |-> "stop",
          detail |-> "detail", times |-> "loop", unknown |-> "none", case |-> "command"]

PhaseSwitches == {"mem", "stress", "measure", "basic", "phases"}

Footprint(arg) ==
  IF arg.is \in PhaseSwitches THEN {"phases", "basicOnly", "timeOnly"} ELSE {About[arg.is]}

\* What is in F is as in r, and the rest as in t.
Merge(t, r, F) == [x \in LocalNames |-> IF x \in F THEN r[x] ELSE t[x]]

\* Locals that differ elsewhere are treated alike.
ReadAlike(s, t, arg) ==
  Read(t, arg) = {Merge(t, r, Footprint(arg)) : r \in Read(s, arg)}

Alike(s, t, arg) ==
  IsLocals(s) /\ IsLocals(t) /\ \A x \in LocalNames : x \in Footprint(arg) => s[x] = t[x]

LEMMA OneAlike ==
  ASSUME NEW s, NEW t, NEW arg, NEW x, NEW y, NEW F, Read(s, arg) = {x}, Read(t, arg) = {y},
         Footprint(arg) = F, y = Merge(t, x, F)
  PROVE  ReadAlike(s, t, arg)
BY DEF ReadAlike

LEMMA NoneAlike ==
  ASSUME NEW s, NEW t, NEW arg, Read(s, arg) = {}, Read(t, arg) = {}
  PROVE  ReadAlike(s, t, arg)
BY DEF ReadAlike

\* Arguments that set one of the locals, and those that set none.
LEMMA OneLocalAlike ==
  ASSUME NEW s, NEW t, NEW arg, Alike(s, t, arg),
         arg.is \in {"list", "help", "no_stop", "detail", "report", "case", "times", "unknown"}
  PROVE  ReadAlike(s, t, arg)
<1>1. IsLocals(s) /\ IsLocals(t) /\ \A x \in LocalNames : x \in Footprint(arg) => s[x] = t[x]
  BY DEF Alike
<1>2. CASE arg.is = "list"
  <2>1. Footprint(arg) = {"wantList"}
    BY <1>2 DEF Footprint, About, PhaseSwitches
  <2>2. PICK x, y : x = [s EXCEPT !.wantList = TRUE] /\ y = [t EXCEPT !.wantList = TRUE]
    OBVIOUS
  <2>6. Read(s, arg) = {x} /\ Read(t, arg) = {y}
    BY <1>2, <2>2 DEF Read
  <2>7. y = Merge(t, x, {"wantList"})
    BY <1>1, <2>2 DEF Merge, IsLocals, LocalNames
  <2> QED
    BY <2>1, <2>6, <2>7, OneAlike
<1>3. CASE arg.is = "help"
  <2>1. Footprint(arg) = {"help"}
    BY <1>3 DEF Footprint, About, PhaseSwitches
  <2>2. PICK x, y : x = [s EXCEPT !.help = TRUE] /\ y = [t EXCEPT !.help = TRUE]
    OBVIOUS
  <2>6. Read(s, arg) = {x} /\ Read(t, arg) = {y}
    BY <1>3, <2>2 DEF Read
  <2>7. y = Merge(t, x, {"help"})
    BY <1>1, <2>2 DEF Merge, IsLocals, LocalNames
  <2> QED
    BY <2>1, <2>6, <2>7, OneAlike
<1>4. CASE arg.is = "no_stop"
  <2>1. Footprint(arg) = {"stop"}
    BY <1>4 DEF Footprint, About, PhaseSwitches
  <2>2. PICK x, y : x = [s EXCEPT !.stop = FALSE] /\ y = [t EXCEPT !.stop = FALSE]
    OBVIOUS
  <2>6. Read(s, arg) = {x} /\ Read(t, arg) = {y}
    BY <1>4, <2>2 DEF Read
  <2>7. y = Merge(t, x, {"stop"})
    BY <1>1, <2>2 DEF Merge, IsLocals, LocalNames
  <2> QED
    BY <2>1, <2>6, <2>7, OneAlike
<1>5. CASE arg.is = "detail"
  <2>1. Footprint(arg) = {"detail"}
    BY <1>5 DEF Footprint, About, PhaseSwitches
  <2>2. PICK x, y : x = [s EXCEPT !.detail = TRUE] /\ y = [t EXCEPT !.detail = TRUE]
    OBVIOUS
  <2>6. Read(s, arg) = {x} /\ Read(t, arg) = {y}
    BY <1>5, <2>2 DEF Read
  <2>7. y = Merge(t, x, {"detail"})
    BY <1>1, <2>2 DEF Merge, IsLocals, LocalNames
  <2> QED
    BY <2>1, <2>6, <2>7, OneAlike
<1>6. CASE arg.is = "report"
  <2>1. Footprint(arg) = {"junitPath"}
    BY <1>6 DEF Footprint, About, PhaseSwitches
  <2>3. ASSUME arg.path = "" PROVE ReadAlike(s, t, arg)
    <3>1. Read(s, arg) = {} /\ Read(t, arg) = {}
      BY <1>6, <2>3 DEF Read
    <3> QED
      BY <3>1, NoneAlike
  <2>4. ASSUME ~(arg.path = "") PROVE ReadAlike(s, t, arg)
    <3>2. PICK x, y : x = [s EXCEPT !.junitPath = arg.path] /\ y = [t EXCEPT !.junitPath = arg.path]
      OBVIOUS
    <3>6. Read(s, arg) = {x} /\ Read(t, arg) = {y}
      BY <1>6, <3>2, <2>4 DEF Read
    <3>7. y = Merge(t, x, {"junitPath"})
      BY <1>1, <3>2 DEF Merge, IsLocals, LocalNames
    <3> QED
      BY <2>1, <3>6, <3>7, OneAlike
  <2> QED
    BY <2>3, <2>4
<1>7. CASE arg.is = "case"
  <2>1. Footprint(arg) = {"command"}
    BY <1>7 DEF Footprint, About, PhaseSwitches
  <2>5. s.command = t.command
    BY <1>1, <2>1 DEF LocalNames
  <2>3. ASSUME s.command # "" PROVE ReadAlike(s, t, arg)
    <3>1. Read(s, arg) = {} /\ Read(t, arg) = {}
      BY <1>7, <2>3, <2>5 DEF Read
    <3> QED
      BY <3>1, NoneAlike
  <2>4. ASSUME ~(s.command # "") PROVE ReadAlike(s, t, arg)
    <3>2. PICK x, y : x = [s EXCEPT !.command = arg.name] /\ y = [t EXCEPT !.command = arg.name]
      OBVIOUS
    <3>6. Read(s, arg) = {x} /\ Read(t, arg) = {y}
      BY <1>7, <3>2, <2>4, <2>5 DEF Read
    <3>7. y = Merge(t, x, {"command"})
      BY <1>1, <3>2 DEF Merge, IsLocals, LocalNames
    <3> QED
      BY <2>1, <3>6, <3>7, OneAlike
  <2> QED
    BY <2>3, <2>4
<1>8. CASE arg.is = "times"
  <2>1. Footprint(arg) = {"loop"}
    BY <1>8 DEF Footprint, About, PhaseSwitches
  <2>2. PICK N : N = arg.value.number \intersect (1..MaxLoop)
    OBVIOUS
  <2>3. /\ Read(s, arg) = {[s EXCEPT !.loop = n] : n \in N}
        /\ Read(t, arg) = {[t EXCEPT !.loop = n] : n \in N}
    BY <1>8, <2>2 DEF Read
  <2>4. \A n \in N : [t EXCEPT !.loop = n] = Merge(t, [s EXCEPT !.loop = n], {"loop"})
    BY <1>1 DEF Merge, IsLocals, LocalNames
  <2>5. PICK g, h : /\ g = [n \in N |-> [s EXCEPT !.loop = n]]
                    /\ h = [n \in N |-> [t EXCEPT !.loop = n]]
    OBVIOUS
  <2>6. Read(s, arg) = {g[n] : n \in N} /\ Read(t, arg) = {h[n] : n \in N}
    BY <2>3, <2>5
  <2>7. \A n \in N : h[n] = Merge(t, g[n], {"loop"})
    BY <2>4, <2>5
  <2>8. {h[n] : n \in N} = {Merge(t, r, {"loop"}) : r \in {g[n] : n \in N}}
    BY <2>7
  <2> QED
    BY <2>1, <2>6, <2>8 DEF ReadAlike
<1>9. CASE arg.is = "unknown"
  BY <1>9, NoneAlike DEF Read
<1> QED
  BY <1>2, <1>3, <1>4, <1>5, <1>6, <1>7, <1>8, <1>9

\* Arguments that set the phases.
LEMMA PhasesAlike ==
  ASSUME NEW s, NEW t, NEW arg, Alike(s, t, arg), arg.is \in PhaseSwitches
  PROVE  ReadAlike(s, t, arg)
<1>1. PICK F : F = {"phases", "basicOnly", "timeOnly"}
  OBVIOUS
<1>2. Footprint(arg) = F
  BY <1>1 DEF Footprint
<1>3. IsLocals(s) /\ IsLocals(t) /\ \A x \in F : s[x] = t[x]
  BY <1>1, <1>2 DEF Alike, LocalNames
<1>4. s.phases = t.phases /\ s.basicOnly = t.basicOnly /\ s.timeOnly = t.timeOnly
  BY <1>1, <1>3
<1>5. ASSUME NEW x, NEW y, Read(s, arg) = {x}, Read(t, arg) = {y}, y = Merge(t, x, F)
      PROVE  ReadAlike(s, t, arg)
  BY <1>2, <1>5, OneAlike
<1>6. CASE arg.is \in {"mem", "stress"}
  <2>1. PICK v : v = IF arg.is = "mem" THEN {"MEMORY"} ELSE {"STRESS"}
    OBVIOUS
  <2>2. PICK x, y : x = [s EXCEPT !.phases = v] /\ y = [t EXCEPT !.phases = v]
    OBVIOUS
  <2>3. Read(s, arg) = {x} /\ Read(t, arg) = {y}
    BY <1>6, <2>1, <2>2 DEF Read
  <2>4. y = Merge(t, x, F)
    BY <1>1, <1>3, <1>4, <2>2 DEF Merge, IsLocals, LocalNames
  <2> QED
    BY <1>5, <2>3, <2>4
<1>7. CASE arg.is = "measure"
  <2>1. ASSUME s.basicOnly PROVE ReadAlike(s, t, arg)
    <3>1. Read(s, arg) = {} /\ Read(t, arg) = {}
      BY <1>4, <1>7, <2>1 DEF Read
    <3> QED
      BY <3>1, NoneAlike
  <2>2. ASSUME ~s.basicOnly PROVE ReadAlike(s, t, arg)
    <3>1. PICK x, y : /\ x = [s EXCEPT !.timeOnly = TRUE, !.phases = {"MEASURE"}]
                      /\ y = [t EXCEPT !.timeOnly = TRUE, !.phases = {"MEASURE"}]
      OBVIOUS
    <3>2. Read(s, arg) = {x} /\ Read(t, arg) = {y}
      BY <1>4, <1>7, <2>2, <3>1 DEF Read
    <3>3. y = Merge(t, x, F)
      BY <1>1, <1>3, <1>4, <3>1 DEF Merge, IsLocals, LocalNames
    <3> QED
      BY <1>5, <3>2, <3>3
  <2> QED
    BY <2>1, <2>2
<1>8. CASE arg.is = "basic"
  <2>1. ASSUME s.timeOnly PROVE ReadAlike(s, t, arg)
    <3>1. Read(s, arg) = {} /\ Read(t, arg) = {}
      BY <1>4, <1>8, <2>1 DEF Read
    <3> QED
      BY <3>1, NoneAlike
  <2>2. ASSUME ~s.timeOnly PROVE ReadAlike(s, t, arg)
    <3>1. PICK x, y : /\ x = [s EXCEPT !.basicOnly = TRUE, !.phases = {"BASIC"}]
                      /\ y = [t EXCEPT !.basicOnly = TRUE, !.phases = {"BASIC"}]
      OBVIOUS
    <3>2. Read(s, arg) = {x} /\ Read(t, arg) = {y}
      BY <1>4, <1>8, <2>2, <3>1 DEF Read
    <3>3. y = Merge(t, x, F)
      BY <1>1, <1>3, <1>4, <3>1 DEF Merge, IsLocals, LocalNames
    <3> QED
      BY <1>5, <3>2, <3>3
  <2> QED
    BY <2>1, <2>2
<1>9. CASE arg.is = "phases"
  <2>1. ASSUME arg.names = {} \/ ~(arg.names \subseteq AllPhases) PROVE ReadAlike(s, t, arg)
    <3>1. Read(s, arg) = {} /\ Read(t, arg) = {}
      BY <1>9, <2>1 DEF Read
    <3> QED
      BY <3>1, NoneAlike
  <2>2. ASSUME ~(arg.names = {} \/ ~(arg.names \subseteq AllPhases)) PROVE ReadAlike(s, t, arg)
    <3>1. PICK v : v = Picked(s, arg)
      OBVIOUS
    <3>2. v = Picked(t, arg)
      BY <1>4, <3>1 DEF Picked
    <3>3. PICK x, y : x = Only(s, v) /\ y = Only(t, v)
      OBVIOUS
    <3>4. Read(s, arg) = {x} /\ Read(t, arg) = {y}
      BY <1>9, <2>2, <3>1, <3>2, <3>3 DEF Read
    <3>5. y = Merge(t, x, F)
      BY <1>1, <1>3, <1>4, <3>3 DEF Merge, IsLocals, LocalNames, Only
    <3> QED
      BY <1>5, <3>4, <3>5
  <2> QED
    BY <2>1, <2>2
<1> QED
  BY <1>6, <1>7, <1>8, <1>9 DEF PhaseSwitches

LEMMA AllAlike ==
  ASSUME NEW arg \in Arguments, arg.is # "option", NEW s, NEW t, Alike(s, t, arg)
  PROVE  ReadAlike(s, t, arg)
<1>1. \/ arg.is \in PhaseSwitches
      \/ arg.is \in {"list", "help", "no_stop", "detail", "report", "case", "times", "unknown"}
  BY CommandLineAssumption DEF PhaseSwitches
<1> QED
  BY <1>1, PhasesAlike, OneLocalAlike

\* What an argument leaves are locals again, as they were elsewhere.
LEMMA ReadLocals ==
  ASSUME NEW arg \in Arguments, arg.is # "option", NEW s, IsLocals(s), NEW r \in Read(s, arg)
  PROVE  r = Merge(s, r, Footprint(arg)) /\ IsLocals(r)
<1>1. ReadAlike(s, s, arg)
  BY AllAlike DEF Alike
<1>2. PICK u \in Read(s, arg) : r = Merge(s, u, Footprint(arg))
  BY <1>1 DEF ReadAlike
<1>3. PICK F : F = Footprint(arg)
  OBVIOUS
<1> QED
  BY <1>2, <1>3 DEF Merge, IsLocals

Unrelated(a, b) == \A x \in LocalNames : x \notin Footprint(a) \/ x \notin Footprint(b)

LEMMA MergeTwice ==
  ASSUME NEW s, NEW r, NEW u, NEW F, NEW G, \A x \in LocalNames : x \notin F \/ x \notin G
  PROVE  Merge(Merge(s, r, F), u, G) = Merge(Merge(s, u, G), r, F)
BY DEF Merge

\* Two arguments, one behind the other.
LEMMA ReadTwo ==
  ASSUME NEW a \in Arguments, a.is # "option", NEW b \in Arguments, b.is # "option",
         Unrelated(a, b), NEW s, IsLocals(s)
  PROVE  \A z : z \in UNION {Read(t, b) : t \in Read(s, a)} <=>
           \E r \in Read(s, a), u \in Read(s, b) :
             z = Merge(Merge(s, r, Footprint(a)), u, Footprint(b))
<1>1. PICK F, G : F = Footprint(a) /\ G = Footprint(b)
  OBVIOUS
<1>2. ASSUME NEW t \in Read(s, a)
      PROVE  t = Merge(s, t, F) /\ Read(t, b) = {Merge(Merge(s, t, F), u, G) : u \in Read(s, b)}
  <2>1. t = Merge(s, t, F) /\ IsLocals(t)
    BY <1>1, <1>2, ReadLocals
  <2>2. \A x \in LocalNames : x \in G => t[x] = s[x]
    <3>1. \A x \in LocalNames : x \notin F => Merge(s, t, F)[x] = s[x]
      BY DEF Merge
    <3> QED
      BY <1>1, <2>1, <3>1 DEF Unrelated
  <2>3. Alike(s, t, b)
    BY <1>1, <2>1, <2>2 DEF Alike
  <2>4. ReadAlike(s, t, b)
    BY <2>3, AllAlike
  <2> QED
    BY <1>1, <2>1, <2>4 DEF ReadAlike
<1>3. ASSUME NEW z
      PROVE  z \in UNION {Read(t, b) : t \in Read(s, a)} <=>
               \E r \in Read(s, a), u \in Read(s, b) : z = Merge(Merge(s, r, F), u, G)
  BY <1>2
<1> QED
  BY <1>1, <1>3

\* It does not matter which comes first, if they are unrelated.
LEMMA ReadEither ==
  ASSUME NEW a \in Arguments, a.is # "option", NEW b \in Arguments, b.is # "option",
         Unrelated(a, b), NEW s, IsLocals(s)
  PROVE  \A z : z \in UNION {Read(t, b) : t \in Read(s, a)}
                  <=> z \in UNION {Read(t, a) : t \in Read(s, b)}
<1>1. PICK F, G : F = Footprint(a) /\ G = Footprint(b)
  OBVIOUS
<1>2. Unrelated(b, a)
  BY DEF Unrelated
<1>3. \A r, u : Merge(Merge(s, r, F), u, G) = Merge(Merge(s, u, G), r, F)
  <2>1. \A x \in LocalNames : x \notin F \/ x \notin G
    BY <1>1 DEF Unrelated
  <2> QED
    BY <2>1, MergeTwice
<1>4. ASSUME NEW z
      PROVE  z \in UNION {Read(t, b) : t \in Read(s, a)}
               <=> \E r \in Read(s, a), u \in Read(s, b) : z = Merge(Merge(s, r, F), u, G)
  BY <1>1, ReadTwo
<1>5. ASSUME NEW z
      PROVE  z \in UNION {Read(t, a) : t \in Read(s, b)}
               <=> \E r \in Read(s, b), u \in Read(s, a) : z = Merge(Merge(s, r, G), u, F)
  BY <1>1, <1>2, ReadTwo
<1>6. ASSUME NEW z
      PROVE  z \in UNION {Read(t, b) : t \in Read(s, a)}
               <=> z \in UNION {Read(t, a) : t \in Read(s, b)}
  <2>1. (\E r \in Read(s, a), u \in Read(s, b) : z = Merge(Merge(s, r, F), u, G))
          <=> \E r \in Read(s, b), u \in Read(s, a) : z = Merge(Merge(s, r, G), u, F)
    BY <1>3
  <2> QED
    BY <1>4, <1>5, <2>1
<1> QED
  BY <1>6

LEMMA AfterEither ==
  ASSUME NEW a \in Arguments, NEW b \in Arguments, Concern(a) # Concern(b),
         NEW all, \A s \in all : IsLocals(s)
  PROVE  ReadAfter(ReadAfter(all, a), b) = ReadAfter(ReadAfter(all, b), a)
<1>1. CASE a.is = "option" \/ b.is = "option"
  BY <1>1 DEF ReadAfter
<1>2. CASE a.is # "option" /\ b.is # "option"
  <2>1. Unrelated(a, b)
    <3>1. a.is \in PhaseSwitches => b.is \notin PhaseSwitches
      BY DEF Concern, Selects, PhaseSwitches
    <3>2. a.is # b.is
      BY <1>2 DEF Concern, Selects
    <3> QED
      BY <1>2, <3>1, <3>2, CommandLineAssumption
         DEF Unrelated, Footprint, About, PhaseSwitches, LocalNames
  <2>2. /\ ReadAfter(ReadAfter(all, a), b) = UNION {Read(t, b) : t \in UNION {Read(s, a) : s \in all}}
        /\ ReadAfter(ReadAfter(all, b), a) = UNION {Read(t, a) : t \in UNION {Read(s, b) : s \in all}}
    BY <1>2 DEF ReadAfter
  <2>3. ASSUME NEW s \in all
        PROVE  \A z : z \in UNION {Read(t, b) : t \in Read(s, a)}
                        <=> z \in UNION {Read(t, a) : t \in Read(s, b)}
    BY <1>2, <2>1, ReadEither
  <2>4. \A z : z \in UNION {Read(t, b) : t \in UNION {Read(s, a) : s \in all}}
                 <=> \E s \in all : z \in UNION {Read(t, b) : t \in Read(s, a)}
    OBVIOUS
  <2>5. \A z : z \in UNION {Read(t, a) : t \in UNION {Read(s, b) : s \in all}}
                 <=> \E s \in all : z \in UNION {Read(t, a) : t \in Read(s, b)}
    OBVIOUS
  <2>6. \A z : z \in UNION {Read(t, b) : t \in UNION {Read(s, a) : s \in all}}
                 <=> z \in UNION {Read(t, a) : t \in UNION {Read(s, b) : s \in all}}
    BY <2>3, <2>4, <2>5
  <2> QED
    BY <2>2, <2>6
<1> QED
  BY <1>1, <1>2

LEMMA AfterLocals ==
  ASSUME NEW a \in Arguments, NEW all, \A s \in all : IsLocals(s)
  PROVE  \A s \in ReadAfter(all, a) : IsLocals(s)
<1>1. CASE a.is = "option"
  BY <1>1 DEF ReadAfter
<1>2. CASE a.is # "option"
  <2>1. ASSUME NEW s \in ReadAfter(all, a) PROVE IsLocals(s)
    <3>1. PICK t \in all : s \in Read(t, a)
      BY <1>2 DEF ReadAfter
    <3> QED
      BY <1>2, <3>1, ReadLocals
  <2> QED
    BY <2>1
<1> QED
  BY <1>1, <1>2

-----------------------------------------------------------------------------
(* The scan of a command line. *)

Scanning(q, n, f) ==
  /\ f = [i \in 0..n |-> f[i]] /\ f[0] = {Defaults}
  /\ \A i \in 1..n : f[i] = ReadAfter(f[i - 1], q[i])

LEMMA ScanDef ==
  ASSUME NEW q, Len(q) \in Nat
  PROVE  \E f : Scanning(q, Len(q), f) /\ Scanned(q) = f[Len(q)]
<1> DEFINE T == {n \in Nat : \E f : Scanning(q, n, f)}
<1>1. 0 \in T
  <2>1. PICK f : f = [i \in 0..0 |-> {Defaults}]
    OBVIOUS
  <2>2. Scanning(q, 0, f)
    BY <2>1 DEF Scanning
  <2> QED
    BY <2>2
<1>2. ASSUME NEW n \in T PROVE n + 1 \in T
  <2>1. n \in Nat
    OBVIOUS
  <2>2. PICK f : Scanning(q, n, f)
    OBVIOUS
  <2> HIDE DEF T
  <2>3. PICK k : k = n + 1
    OBVIOUS
  <2>4. PICK g : g = [i \in 0..k |-> IF i = k THEN ReadAfter(f[n], q[k]) ELSE f[i]]
    OBVIOUS
  <2>5. /\ k \in Nat /\ 0 \in 0..k /\ 0 # k /\ k \in 0..k /\ k - 1 = n /\ n # k /\ n \in 0..k
        /\ \A i \in 1..k : i = k \/ (i \in 1..n /\ i # k /\ i \in 0..k /\ i - 1 \in 0..k /\ i - 1 # k)
    BY <2>1, <2>3
  <2>6. g[k] = ReadAfter(f[n], q[k]) /\ \A i \in 0..k : i # k => g[i] = f[i]
    BY <2>4, <2>5
  <2>7. \A i \in 1..n : f[i] = ReadAfter(f[i - 1], q[i])
    BY <2>2 DEF Scanning
  <2>8. ASSUME NEW i \in 1..k PROVE g[i] = ReadAfter(g[i - 1], q[i])
    <3>1. CASE i = k
      BY <2>5, <2>6, <3>1
    <3>2. CASE i # k
      <4>1. g[i] = f[i] /\ g[i - 1] = f[i - 1] /\ i \in 1..n
        BY <2>5, <2>6, <3>2
      <4> QED
        BY <2>7, <4>1
    <3> QED
      BY <3>1, <3>2
  <2>9. g = [i \in 0..k |-> g[i]] /\ g[0] = {Defaults}
    BY <2>2, <2>4, <2>5, <2>6 DEF Scanning
  <2>10. Scanning(q, k, g)
    BY <2>8, <2>9 DEF Scanning
  <2> QED
    BY <2>3, <2>5, <2>10 DEF T
<1>3. T = Nat
  <2> HIDE DEF T
  <2>1. T \subseteq Nat
    BY DEF T
  <2> QED
    BY <1>1, <1>2, <2>1, NatSet
<1>4. PICK n : n = Len(q) /\ n \in Nat
  OBVIOUS
<1>5. \E f : Scanning(q, n, f)
  BY <1>3, <1>4
<1> DEFINE Body(f) == [i \in 0..n |-> IF i = 0 THEN {Defaults} ELSE ReadAfter(f[i - 1], q[i])]
<1>6. ASSUME NEW f PROVE f = Body(f) <=> Scanning(q, n, f)
  <2>1. PICK e : e = Body(f)
    OBVIOUS
  <2>2. 0 \in 0..n /\ \A i \in 0..n : i = 0 \/ (i \in 1..n /\ i # 0)
    BY <1>4
  <2>3. \A i \in 1..n : i \in 0..n /\ i # 0
    BY <1>4
  <2>4. e[0] = {Defaults} /\ \A i \in 1..n : e[i] = ReadAfter(f[i - 1], q[i])
    BY <2>1, <2>2, <2>3
  <2>5. e = [i \in 0..n |-> e[i]]
    BY <2>1
  <2>6. f = e <=> f = [i \in 0..n |-> f[i]] /\ \A i \in 0..n : f[i] = e[i]
    BY <2>5
  <2>7. (\A i \in 0..n : f[i] = e[i]) <=> f[0] = e[0] /\ \A i \in 1..n : f[i] = e[i]
    BY <2>2, <2>3
  <2>8. f = e <=> Scanning(q, n, f)
    BY <2>4, <2>6, <2>7 DEF Scanning
  <2> QED
    BY <2>1, <2>8
<1> DEFINE F == CHOOSE f : f = Body(f)
<1>7. Scanned(q) = F[n]
  BY <1>4 DEF Scanned
<1>8. F = Body(F)
  <2>1. \E f : f = Body(f)
    <3> HIDE DEF Body
    <3> QED
      BY <1>5, <1>6
  <2> QED
    BY <2>1
<1>9. Scanning(q, n, F)
  <2> HIDE DEF F, Body
  <2> QED
    BY <1>6, <1>8
<1> QED
  BY <1>4, <1>7, <1>9

\* Where two scans agree, they do as long as their arguments do.
SameFrom(q, r, k, l) == k \in Nat /\ l \in Nat /\ k <= l /\ \A j \in k + 1..l : q[j] = r[j]

LEMMA ScansAgree ==
  ASSUME NEW q, NEW r, NEW m \in Nat, NEW n \in Nat, NEW f, NEW g,
         Scanning(q, m, f), Scanning(r, n, g), NEW k, NEW l, SameFrom(q, r, k, l),
         l <= m, l <= n, f[k] = g[k]
  PROVE  f[l] = g[l]
<1>0. k \in Nat /\ l \in Nat /\ k <= l /\ \A j \in k + 1..l : q[j] = r[j]
  BY DEF SameFrom
<1> DEFINE T == {d \in Nat : k + d <= l => f[k + d] = g[k + d]}
<1>1. /\ \A i \in 1..m : f[i] = ReadAfter(f[i - 1], q[i])
      /\ \A i \in 1..n : g[i] = ReadAfter(g[i - 1], r[i])
  BY DEF Scanning
<1>2. 0 \in T
  <2>1. k + 0 = k
    BY <1>0
  <2> QED
    BY <2>1
<1>3. ASSUME NEW d \in T PROVE d + 1 \in T
  <2>0. d \in Nat
    OBVIOUS
  <2>1. SUFFICES ASSUME k + (d + 1) <= l PROVE f[k + (d + 1)] = g[k + (d + 1)]
    BY <2>0
  <2>2. PICK i, e : i = k + (d + 1) /\ e = k + d
    OBVIOUS
  <2>3. i \in 1..m /\ i \in 1..n /\ i \in k + 1..l /\ i - 1 = e /\ e <= l
    BY <1>0, <2>0, <2>1, <2>2
  <2>4. f[e] = g[e]
    BY <2>2, <2>3
  <2>5. q[i] = r[i]
    BY <1>0, <2>3
  <2>6. f[i] = ReadAfter(f[e], q[i]) /\ g[i] = ReadAfter(g[e], r[i])
    BY <1>1, <2>3
  <2> QED
    BY <2>2, <2>4, <2>5, <2>6
<1>4. T = Nat
  <2> HIDE DEF T
  <2>1. T \subseteq Nat
    BY DEF T
  <2> QED
    BY <1>2, <1>3, <2>1, NatSet
<1>5. PICK d : d = l - k
  OBVIOUS
<1>6. d \in Nat /\ k + d = l /\ k + d <= l
  BY <1>0, <1>5
<1> QED
  BY <1>4, <1>6

LEMMA ScanLocals ==
  ASSUME NEW q, NEW n \in Nat, NEW f, Scanning(q, n, f), \A i \in 1..n : q[i] \in Arguments
  PROVE  \A i \in 0..n : \A s \in f[i] : IsLocals(s)
<1> DEFINE T == {i \in Nat : i <= n => \A s \in f[i] : IsLocals(s)}
<1>1. f[0] = {Defaults} /\ \A i \in 1..n : f[i] = ReadAfter(f[i - 1], q[i])
  BY DEF Scanning
<1>2. 0 \in T
  BY <1>1 DEF IsLocals, Defaults, LocalNames
<1>3. ASSUME NEW i \in T PROVE i + 1 \in T
  <2>0. i \in Nat
    OBVIOUS
  <2>1. SUFFICES ASSUME i + 1 <= n PROVE \A s \in f[i + 1] : IsLocals(s)
    BY <2>0
  <2>2. PICK k : k = i + 1
    OBVIOUS
  <2>3. k \in 1..n /\ k - 1 = i /\ i <= n
    BY <2>0, <2>1, <2>2
  <2>4. f[k] = ReadAfter(f[i], q[k]) /\ q[k] \in Arguments /\ \A s \in f[i] : IsLocals(s)
    BY <1>1, <2>3
  <2> HIDE DEF T
  <2>5. \A s \in f[k] : IsLocals(s)
    BY <2>4, AfterLocals
  <2> QED
    BY <2>2, <2>5
<1>4. T = Nat
  <2> HIDE DEF T
  <2>1. T \subseteq Nat
    BY DEF T
  <2> QED
    BY <1>2, <1>3, <2>1, NatSet
<1> QED
  BY <1>4

\* One argument more.
LEMMA ScannedMore ==
  ASSUME NEW S, NEW q \in Seq(S), NEW a \in S
  PROVE  Scanned(Append(q, a)) = ReadAfter(Scanned(q), a)
<1>1. PICK p, n, k : p = Append(q, a) /\ n = Len(q) /\ k = n + 1
  OBVIOUS
<1>2. n \in Nat /\ Len(p) = k /\ p[k] = a /\ \A i \in 1..n : p[i] = q[i]
  BY <1>1
<1>3. PICK f : Scanning(q, n, f) /\ Scanned(q) = f[n]
  BY <1>1, <1>2, ScanDef
<1>4. k \in Nat /\ n <= k /\ n <= n /\ 0 <= n /\ 0 \in Nat /\ k \in 1..k /\ k - 1 = n /\ 0 + 1 = 1
  BY <1>1, <1>2
<1>5. PICK g : Scanning(p, k, g) /\ Scanned(p) = g[k]
  BY <1>2, <1>4, ScanDef
<1>6. f[0] = g[0]
  BY <1>3, <1>5 DEF Scanning
<1>7. SameFrom(q, p, 0, n)
  BY <1>2, <1>4 DEF SameFrom
<1>8. f[n] = g[n]
  BY <1>2, <1>3, <1>4, <1>5, <1>6, <1>7, ScansAgree
<1>9. g[k] = ReadAfter(g[n], p[k])
  BY <1>4, <1>5 DEF Scanning
<1> QED
  BY <1>1, <1>2, <1>3, <1>5, <1>8, <1>9

\* Neighbours that are about different things.
LEMMA ScannedEither ==
  ASSUME NEW q \in Seq(Arguments), NEW i \in 1..Len(q) - 1, Concern(q[i]) # Concern(q[i + 1])
  PROVE  Scanned([q EXCEPT ![i] = q[i + 1], ![i + 1] = q[i]]) = Scanned(q)
<1>1. PICK p, n, h, k : /\ p = [q EXCEPT ![i] = q[i + 1], ![i + 1] = q[i]] /\ n = Len(q)
                        /\ h = i - 1 /\ k = i + 1
  OBVIOUS
<1>2. /\ n \in Nat /\ DOMAIN q = 1..n /\ \A j \in 1..n : q[j] \in Arguments
      /\ i \in 1..n /\ k \in 1..n /\ h \in 0..n /\ h \in Nat /\ k \in Nat /\ i # k /\ k - 1 = i
  BY <1>1
<1>3. /\ p[i] = q[k] /\ p[k] = q[i] /\ DOMAIN p = 1..n
      /\ \A j \in 1..n : j # i /\ j # k => p[j] = q[j]
  BY <1>1, <1>2
<1>4. Len(p) = n
  <2>1. p = [j \in 1..n |-> p[j]]
    BY <1>1, <1>2, <1>3
  <2>2. \A j \in 1..n : p[j] \in Arguments
    BY <1>2, <1>3
  <2>3. p \in [1..n -> Arguments]
    BY <2>1, <2>2
  <2> QED
    BY <1>2, <2>3
<1>5. PICK f : Scanning(q, n, f) /\ Scanned(q) = f[n]
  BY <1>1, <1>2, ScanDef
<1>6. PICK g : Scanning(p, n, g) /\ Scanned(p) = g[n]
  BY <1>2, <1>4, ScanDef
<1>7. f[0] = g[0]
  BY <1>5, <1>6 DEF Scanning
<1>8. f[h] = g[h]
  <2>1. \A j \in 0 + 1..h : q[j] = p[j]
    BY <1>1, <1>2, <1>3
  <2>2. SameFrom(q, p, 0, h) /\ h <= n
    BY <1>2, <2>1 DEF SameFrom
  <2> QED
    BY <1>2, <1>5, <1>6, <1>7, <2>2, ScansAgree
<1>9. /\ f[i] = ReadAfter(f[h], q[i]) /\ f[k] = ReadAfter(f[i], q[k])
      /\ g[i] = ReadAfter(g[h], p[i]) /\ g[k] = ReadAfter(g[i], p[k])
  BY <1>1, <1>2, <1>5, <1>6 DEF Scanning
<1>10. \A s \in f[h] : IsLocals(s)
  BY <1>2, <1>5, ScanLocals
<1>11. ReadAfter(ReadAfter(f[h], q[i]), q[k]) = ReadAfter(ReadAfter(f[h], q[k]), q[i])
  BY <1>1, <1>2, <1>10, AfterEither
<1>12. f[k] = g[k]
  BY <1>3, <1>8, <1>9, <1>11
<1>13. f[n] = g[n]
  <2>1. \A j \in k + 1..n : q[j] = p[j]
    BY <1>1, <1>2, <1>3
  <2>2. SameFrom(q, p, k, n) /\ n <= n
    BY <1>2, <2>1 DEF SameFrom
  <2> QED
    BY <1>2, <1>5, <1>6, <1>12, <2>2, ScansAgree
<1> QED
  BY <1>1, <1>5, <1>6, <1>13

\* An argument leaves no choice.
LEMMA ReadOnce ==
  ASSUME NEW arg \in Arguments, arg.is # "option", NEW s, NEW r \in Read(s, arg)
  PROVE  Read(s, arg) = {r}
<1>1. CASE arg.is = "times"
  <2>1. Read(s, arg) = {[s EXCEPT !.loop = n] : n \in arg.value.number \intersect (1..MaxLoop)}
    BY <1>1 DEF Read
  <2>2. \A m, n \in arg.value.number : m = n
    BY <1>1, CommandLineAssumption
  <2> QED
    BY <2>1, <2>2
<1>2. CASE arg.is # "times"
  <2>1. PICK X : X = Read(s, arg)
    OBVIOUS
  <2>2. X = {} \/ \E x : X = {x}
    <3>1. \/ arg.is \in PhaseSwitches
          \/ arg.is \in {"list", "help", "no_stop", "detail", "report", "case", "unknown"}
      BY <1>2, CommandLineAssumption DEF PhaseSwitches
    <3>2. CASE arg.is \in PhaseSwitches
      BY <2>1, <3>2 DEF Read, PhaseSwitches
    <3>3. CASE arg.is \in {"list", "help", "no_stop", "detail", "report", "case", "unknown"}
      BY <2>1, <3>3 DEF Read
    <3> QED
      BY <3>1, <3>2, <3>3
  <2> QED
    BY <2>1, <2>2
<1> QED
  BY <1>1, <1>2

\* What main has read is what a scan of the arguments so far ends with.
ScannedInv == stage = "scan" => Scanned(given) = {settings}

LEMMA ScannedNext ==
  ASSUME ProgramInv, ScannedInv, [ProgramNext]_programVars
  PROVE  ScannedInv'
<1>1. given \in Seq(Arguments)
  BY DEF ProgramInv, ScanInv, ScanTypes
<1>2. CASE ScanArgument
  <2>1. stage = "scan" /\ Scanned(given) = {settings}
    BY <1>2 DEF ScannedInv, ScanArgument, Scan, AppliesOption, RejectsOption, AcceptsArgument,
         RejectsArgument, ListsOrHelps, NothingToRun, MayRead
  <2>2. CASE ListsOrHelps \/ NothingToRun
    BY <2>2 DEF ListsOrHelps, NothingToRun, Exits, ScannedInv
  <2>3. ASSUME NEW arg \in Arguments, RejectsOption(arg) \/ RejectsArgument(arg)
        PROVE  ScannedInv'
    BY <2>3 DEF RejectsOption, RejectsArgument, Exits, ScannedInv
  <2>4. ASSUME NEW arg \in Arguments, AppliesOption(arg) PROVE ScannedInv'
    <3>1. given' = Append(given, arg) /\ settings' = settings /\ arg.is = "option"
      BY <2>4 DEF AppliesOption, MayRead
    <3>2. Scanned(Append(given, arg)) = ReadAfter(Scanned(given), arg)
      BY <1>1, ScannedMore
    <3>3. ReadAfter({settings}, arg) = {settings}
      BY <3>1 DEF ReadAfter
    <3> QED
      BY <2>1, <3>1, <3>2, <3>3 DEF ScannedInv
  <2>5. ASSUME NEW arg \in Arguments, AcceptsArgument(arg) PROVE ScannedInv'
    <3>1. given' = Append(given, arg) /\ settings' \in Read(settings, arg) /\ arg.is # "option"
      BY <2>5 DEF AcceptsArgument, MayRead
    <3>2. Scanned(Append(given, arg)) = ReadAfter(Scanned(given), arg)
      BY <1>1, ScannedMore
    <3>3. ReadAfter({settings}, arg) = Read(settings, arg)
      BY <3>1 DEF ReadAfter
    <3>4. PICK r : r = settings'
      OBVIOUS
    <3>5. Read(settings, arg) = {r}
      BY <3>1, <3>4, ReadOnce
    <3> QED
      BY <2>1, <3>1, <3>2, <3>3, <3>4, <3>5 DEF ScannedInv
  <2> QED
    BY <1>2, <2>2, <2>3, <2>4, <2>5 DEF ScanArgument, Scan
<1>3. CASE CallTestAll
  BY <1>3 DEF CallTestAll, ScannedInv
<1>4. CASE \/ RunnerStep \/ StressCheck \/ StressRun \/ StressAsserted
           \/ WriteReport \/ ExitWithout \/ Exited \/ UNCHANGED programVars
  <2>1. UNCHANGED <<given, settings>> /\ (stage' = "scan" => stage = "scan")
    BY <1>4 DEF RunnerStep, StressCheck, StressRun, StressAsserted, WriteReport,
         ExitWithout, Exited, Exits, programVars, scanVars
  <2> QED
    BY <2>1 DEF ScannedInv
<1> QED
  BY <1>2, <1>3, <1>4 DEF ProgramNext

\* Neighbours on a command line that are about different things may change
\* places: main has read the same from both orders, for command lines of any
\* length and any arguments.
THEOREM PlacesAreFree ==
  ProgramSpec => []PlaceFree
<1>1. ProgramInit => ScannedInv
  <2>1. SUFFICES ASSUME ProgramInit PROVE Scanned(given) = {settings}
    BY DEF ScannedInv
  <2>2. given = <<>> /\ settings = Defaults
    BY <2>1 DEF ProgramInit, ScanInit
  <2>3. PICK q : q = <<>>
    OBVIOUS
  <2>4. Len(q) = 0 /\ Len(q) \in Nat
    BY <2>3
  <2>5. PICK f : Scanning(q, 0, f) /\ Scanned(q) = f[0]
    BY <2>4, ScanDef
  <2> QED
    BY <2>2, <2>3, <2>5 DEF Scanning
<1>2. ProgramInv /\ ScannedInv /\ [ProgramNext]_programVars => ScannedInv'
  BY ScannedNext
<1>3. ProgramInv /\ ScannedInv => PlaceFree
  <2>1. SUFFICES ASSUME ProgramInv, ScannedInv, stage = "scan", NEW i \in 1..Len(given) - 1,
                        Concern(given[i]) # Concern(given[i + 1])
                 PROVE  Scanned([given EXCEPT ![i] = given[i + 1], ![i + 1] = given[i]]) = {settings}
    BY DEF PlaceFree
  <2>2. given \in Seq(Arguments)
    BY <2>1 DEF ProgramInv, ScanInv, ScanTypes
  <2>3. PICK q : q = given
    OBVIOUS
  <2>4. Scanned([q EXCEPT ![i] = q[i + 1], ![i + 1] = q[i]]) = Scanned(q)
    BY <2>1, <2>2, <2>3, ScannedEither
  <2> QED
    BY <2>1, <2>3, <2>4 DEF ScannedInv
<1> QED
  BY <1>1, <1>2, <1>3, ProgramInvariant, PTL DEF ProgramSpec
==============================================================================

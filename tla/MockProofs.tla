------------------------------- MODULE MockProofs -------------------------------
(***************************************************************************)
(* Mock keeps its types, its counters describe the same calls, and its     *)
(* calls act out the script, for any number of threads, actions and calls, *)
(* however the actions call back.                                          *)
(***************************************************************************)
EXTENDS MCMock, SequenceTheorems, TLAPS

Frames == {"enter", "choose", "action"}

\* What is below the top of a stack.
LEMMA FrontFrames ==
  ASSUME NEW s \in Seq(Frames), s # <<>>
  PROVE  /\ Front(s) \in Seq(Frames) /\ Len(Front(s)) = Len(s) - 1
         /\ \A i \in 1..(Len(s) - 1) : Front(s)[i] = s[i]
<1> DEFINE n == Len(s) - 1
<1>1. n \in Nat /\ Front(s) = SubSeq(s, 1, n)
  BY EmptySeq DEF Front
<1>2. \A i \in 1..n : s[i] \in Frames
  BY <1>1, ElementOfSeq
<1> HIDE DEF n
<1>3. /\ SubSeq(s, 1, n) \in Seq(Frames)
      /\ Len(SubSeq(s, 1, n)) = IF 1 <= n THEN n - 1 + 1 ELSE 0
      /\ \A i \in 1..(n - 1 + 1) : SubSeq(s, 1, n)[i] = s[1 + i - 1]
  BY <1>1, <1>2, SubSeqProperties
<1>4. Len(Front(s)) = n /\ Front(s) \in Seq(Frames)
  BY <1>1, <1>3
<1>5. \A i \in 1..n : Front(s)[i] = s[i]
  <2> SUFFICES ASSUME NEW i \in 1..n PROVE Front(s)[i] = s[i]
    OBVIOUS
  <2>1. i \in 1..(n - 1 + 1) /\ 1 + i - 1 = i
    BY <1>1
  <2> QED
    BY <1>1, <1>3, <2>1
<1> QED
  BY <1>4, <1>5 DEF n

\* A call advances: only the top of the stack changes.
LEMMA AdvanceStack ==
  ASSUME NEW t \in Threads, stack \in [Threads -> Seq(Frames)], stack[t] # <<>>,
         NEW l \in Frames, Advance(t, l)
  PROVE  /\ stack' \in [Threads -> Seq(Frames)]
         /\ \A u \in Threads \ {t} : stack'[u] = stack[u]
         /\ stack'[t] # <<>> /\ Last(stack'[t]) = l
         /\ Len(stack'[t]) = Len(stack[t])
         /\ \A i \in 1..(Len(stack[t]) - 1) : stack'[t][i] = stack[t][i]
<1> DEFINE s == stack[t]
           n == Len(s) - 1
<1>1. s \in Seq(Frames) /\ n \in Nat /\ Len(s) = n + 1
  BY EmptySeq
<1>2. /\ Front(s) \in Seq(Frames) /\ Len(Front(s)) = n
      /\ \A i \in 1..n : Front(s)[i] = s[i]
  BY <1>1, FrontFrames
<1>3. stack' = [stack EXCEPT ![t] = Append(Front(s), l)]
  BY DEF Advance
<1> HIDE DEF s, n
<1>4. /\ Append(Front(s), l) \in Seq(Frames)
      /\ Len(Append(Front(s), l)) = n + 1
      /\ Append(Front(s), l)[n + 1] = l
      /\ \A i \in 1..n : Append(Front(s), l)[i] = s[i]
  BY <1>1, <1>2
<1> QED
  BY <1>1, <1>3, <1>4 DEF s, n, Last

\* A call leaves: the stack below it is as it was.
LEMMA LeaveStack ==
  ASSUME NEW t \in Threads, stack \in [Threads -> Seq(Frames)], stack[t] # <<>>,
         Leave(t)
  PROVE  /\ stack' \in [Threads -> Seq(Frames)]
         /\ \A u \in Threads \ {t} : stack'[u] = stack[u]
         /\ Len(stack'[t]) = Len(stack[t]) - 1
         /\ \A i \in 1..Len(stack'[t]) : stack'[t][i] = stack[t][i]
<1> DEFINE s == stack[t]
           n == Len(s) - 1
<1>1. s \in Seq(Frames) /\ n \in Nat
  BY EmptySeq
<1>2. /\ Front(s) \in Seq(Frames) /\ Len(Front(s)) = n
      /\ \A i \in 1..n : Front(s)[i] = s[i]
  BY <1>1, FrontFrames
<1>3. stack' = [stack EXCEPT ![t] = Front(s)]
  BY DEF Leave
<1> QED
  BY <1>2, <1>3

\* A call begins: it is put on top.
LEMMA PushStack ==
  ASSUME NEW t \in Threads, stack \in [Threads -> Seq(Frames)],
         stack' = [stack EXCEPT ![t] = Append(@, "enter")]
  PROVE  /\ stack' \in [Threads -> Seq(Frames)]
         /\ \A u \in Threads \ {t} : stack'[u] = stack[u]
         /\ Len(stack'[t]) = Len(stack[t]) + 1
         /\ stack'[t][Len(stack[t]) + 1] = "enter"
         /\ \A i \in 1..Len(stack[t]) : stack'[t][i] = stack[t][i]
<1>1. stack[t] \in Seq(Frames)
  OBVIOUS
<1>2. stack'[t] = Append(stack[t], "enter")
  OBVIOUS
<1>3. Append(stack[t], "enter") \in Seq(Frames)
  BY <1>1 DEF Frames
<1> QED
  BY <1>1, <1>2, <1>3

-----------------------------------------------------------------------------
MockInv == TypeOK /\ HolderChooses /\ CallsInv

\* No call has begun.
LEMMA MockInvInit == Init => MockInv
<1> SUFFICES ASSUME Init PROVE MockInv
  OBVIOUS
<1>1. TypeOK
  <2>1. \A S : <<>> \in Seq(S)
    BY EmptySeq
  <2>2. m_once \in Seq(1..MaxOnce) /\ m_onceUsed \in 0..Len(m_once)
    BY DEF Init
  <2>3. stack \in [Threads -> Seq({"enter", "choose", "action"})]
    BY <2>1 DEF Init
  <2>4. /\ m_recorded \in Seq(Arguments) /\ served \in Seq(1..MaxOnce \union Bodies)
        /\ calls \in 0..MaxCalls /\ m_count \in Nat /\ lost \in Nat
        /\ m_unconfigured \in 0..m_count /\ unrecorded \in 0..m_count
    BY <2>1, MockAssumption DEF Init
  <2>5. /\ Ret \in ReturnTypes /\ m_mutex \in Threads \union {NoOne}
        /\ m_body \in Bodies \union {NoBody} /\ aborted \in BOOLEAN
    BY DEF Init
  <2> QED
    BY <2>2, <2>3, <2>4, <2>5 DEF TypeOK
<1>2. HolderChooses
  BY MockAssumption DEF Init, HolderChooses
<1>3. CallsInv
  BY DEF Init, CallsInv, Choosing, Unlocked
<1> QED
  BY <1>1, <1>2, <1>3 DEF MockInv

\* The thread that chooses holds the lock, and one that is in the program
\* does not.
LEMMA WhoHolds ==
  ASSUME MockInv, NEW t \in Threads
  PROVE  /\ stack \in [Threads -> Seq(Frames)]
         /\ At(t, "choose") => m_mutex = t /\ Choosing = 1
         /\ At(t, "enter") \/ At(t, "action") => m_mutex # t
         /\ InProgram(t) => m_mutex # t
<1>1. stack \in [Threads -> Seq(Frames)] /\ t # NoOne
  BY MockAssumption DEF MockInv, TypeOK, Frames
<1>2. stack[t] # <<>> => Len(stack[t]) \in DOMAIN stack[t]
  <2>1. stack[t] \in Seq(Frames)
    BY <1>1
  <2> QED
    BY <2>1, EmptySeq, LenProperties
<1>3. At(t, "choose") => m_mutex = t
  BY <1>2 DEF MockInv, HolderChooses, At, Last
<1>4. m_mutex = t => stack[t] # <<>> /\ Last(stack[t]) = "choose"
  BY DEF MockInv, HolderChooses
<1> QED
  BY <1>1, <1>3, <1>4 DEF At, InProgram, Choosing, Unlocked

\* How a step moves the lock and the top of a stack: what HolderChooses needs.
LEMMA AdvanceKeepsHolder ==
  ASSUME MockInv, NEW t \in Threads, stack[t] # <<>>, NEW l \in Frames, Advance(t, l),
         m_mutex' \in {t, NoOne},
         m_mutex \in {t, NoOne},
         l = "choose" <=> m_mutex' = t
  PROVE  HolderChooses' /\ stack' \in [Threads -> Seq(Frames)]
<1>1. stack \in [Threads -> Seq(Frames)] /\ NoOne \notin Threads
  BY MockAssumption, WhoHolds
<1>2. /\ stack' \in [Threads -> Seq(Frames)]
      /\ \A u \in Threads \ {t} : stack'[u] = stack[u]
      /\ stack'[t] # <<>> /\ Last(stack'[t]) = l
      /\ Len(stack'[t]) = Len(stack[t])
      /\ \A i \in 1..(Len(stack[t]) - 1) : stack'[t][i] = stack[t][i]
  BY <1>1, AdvanceStack
<1>3. ASSUME NEW u \in Threads \ {t}
      PROVE  /\ m_mutex' # u
             /\ \A i \in DOMAIN stack'[u] : stack'[u][i] # "choose"
  BY <1>1, <1>2, <1>3 DEF MockInv, HolderChooses
<1>4. ASSUME NEW i \in DOMAIN stack'[t], stack'[t][i] = "choose"
      PROVE  i = Len(stack'[t]) /\ m_mutex' = t
  <2>1. /\ stack'[t] \in Seq(Frames) /\ stack[t] \in Seq(Frames)
        /\ i \in 1..Len(stack'[t]) /\ DOMAIN stack[t] = 1..Len(stack[t])
    BY <1>1, <1>2, <1>4, LenProperties
  <2>2. i = Len(stack'[t])
    <3> SUFFICES ASSUME i # Len(stack'[t]) PROVE FALSE
      OBVIOUS
    <3>1. i \in 1..(Len(stack[t]) - 1) /\ i \in DOMAIN stack[t] /\ i # Len(stack[t])
      BY <1>2, <2>1
    <3> QED
      BY <1>2, <1>4, <3>1 DEF MockInv, HolderChooses
  <2> QED
    BY <1>2, <1>4, <2>2 DEF Last
<1> QED
  BY <1>2, <1>3, <1>4 DEF HolderChooses

\* A call that leaves takes the lock with it, if it had it.
LEMMA LeaveKeepsHolder ==
  ASSUME MockInv, NEW t \in Threads, stack[t] # <<>>, Leave(t),
         m_mutex' = IF m_mutex = t THEN NoOne ELSE m_mutex
  PROVE  HolderChooses' /\ stack' \in [Threads -> Seq(Frames)]
<1>1. stack \in [Threads -> Seq(Frames)] /\ NoOne \notin Threads
  BY MockAssumption, WhoHolds
<1>2. /\ stack' \in [Threads -> Seq(Frames)]
      /\ \A u \in Threads \ {t} : stack'[u] = stack[u]
      /\ Len(stack'[t]) = Len(stack[t]) - 1
      /\ \A i \in 1..Len(stack'[t]) : stack'[t][i] = stack[t][i]
  BY <1>1, LeaveStack
<1>3. ASSUME NEW i \in DOMAIN stack'[t] PROVE stack'[t][i] # "choose"
  <2>1. stack'[t] \in Seq(Frames) /\ stack[t] \in Seq(Frames)
    BY <1>1, <1>2
  <2>2. /\ i \in 1..Len(stack'[t]) /\ Len(stack[t]) \in Nat
        /\ DOMAIN stack[t] = 1..Len(stack[t])
    BY <2>1, <1>3, LenProperties
  <2>3. i \in DOMAIN stack[t] /\ i # Len(stack[t])
    BY <1>2, <2>2
  <2> QED
    BY <1>2, <2>2, <2>3 DEF MockInv, HolderChooses
<1>4. \A u \in Threads \ {t} : m_mutex' = u <=> m_mutex = u
  BY <1>1
<1> QED
  BY <1>1, <1>2, <1>3, <1>4 DEF MockInv, HolderChooses

\* A call that begins does not choose.
LEMMA PushKeepsHolder ==
  ASSUME MockInv, NEW t \in Threads, InProgram(t), UNCHANGED m_mutex,
         stack' = [stack EXCEPT ![t] = Append(@, "enter")]
  PROVE  HolderChooses' /\ stack' \in [Threads -> Seq(Frames)]
<1>1. stack \in [Threads -> Seq(Frames)] /\ m_mutex # t
  BY WhoHolds
<1>2. /\ stack' \in [Threads -> Seq(Frames)]
      /\ \A u \in Threads \ {t} : stack'[u] = stack[u]
      /\ Len(stack'[t]) = Len(stack[t]) + 1
      /\ stack'[t][Len(stack[t]) + 1] = "enter"
      /\ \A i \in 1..Len(stack[t]) : stack'[t][i] = stack[t][i]
  BY <1>1, PushStack
<1>3. ASSUME NEW i \in DOMAIN stack'[t] PROVE stack'[t][i] # "choose"
  <2>1. stack'[t] \in Seq(Frames) /\ stack[t] \in Seq(Frames)
    BY <1>1, <1>2
  <2>2. /\ i \in 1..(Len(stack[t]) + 1) /\ Len(stack[t]) \in Nat
        /\ DOMAIN stack[t] = 1..Len(stack[t])
    BY <2>1, <1>2, <1>3, LenProperties
  <2>3. CASE i = Len(stack[t]) + 1
    BY <1>2, <2>3
  <2>4. CASE i \in 1..Len(stack[t])
    BY <1>1, <1>2, <2>2, <2>4 DEF MockInv, HolderChooses
  <2> QED
    BY <2>2, <2>3, <2>4
<1> QED
  BY <1>1, <1>2, <1>3 DEF MockInv, HolderChooses

-----------------------------------------------------------------------------
\* Every step of every thread keeps the invariant.
LEMMA MockInvNext == ASSUME MockInv, [Next]_vars PROVE MockInv'
<1> USE MockAssumption DEF Frames
<1>1. ASSUME NEW t \in Threads, Record(t) PROVE MockInv'
  <2>1. HolderChooses' /\ stack' \in [Threads -> Seq(Frames)]
    BY <1>1, AdvanceKeepsHolder DEF Record, At, Unlocked, Holder
  <2>2. TypeOK'
    BY <1>1, <2>1 DEF MockInv, TypeOK, Record, Holder
  <2>3. Len(m_recorded') = Len(m_recorded) + 1 /\ Len(m_recorded) \in Nat
    BY <1>1 DEF MockInv, TypeOK, Record
  <2>4. CallsInv'
    BY <1>1, <2>3 DEF MockInv, TypeOK, CallsInv, Choosing, Record, Unlocked, Holder
  <2> QED
    BY <2>1, <2>2, <2>4 DEF MockInv
<1>2. ASSUME NEW t \in Threads, RecordThrows(t) PROVE MockInv'
  <2>1. HolderChooses' /\ stack' \in [Threads -> Seq(Frames)]
    BY <1>2, LeaveKeepsHolder DEF RecordThrows, At, Unlocked
  <2>2. TypeOK'
    BY <1>2, <2>1 DEF MockInv, TypeOK, RecordThrows
  <2>3. CallsInv'
    BY <1>2 DEF MockInv, TypeOK, CallsInv, Choosing, RecordThrows, Unlocked
  <2> QED
    BY <2>1, <2>2, <2>3 DEF MockInv
<1>3. ASSUME NEW t \in Threads, ServeOnce(t) PROVE MockInv'
  <2>1. m_mutex = t /\ Choosing = 1 /\ stack[t] # <<>>
    BY <1>3, WhoHolds DEF ServeOnce, At
  <2>2. HolderChooses' /\ stack' \in [Threads -> Seq(Frames)]
    BY <1>3, <2>1, AdvanceKeepsHolder DEF ServeOnce, Serve, Freed
  <2>3. m_once[m_onceUsed + 1] \in 1..MaxOnce
    BY <1>3 DEF MockInv, TypeOK, ServeOnce
  <2>4. TypeOK'
    BY <1>3, <2>2, <2>3 DEF MockInv, TypeOK, ServeOnce, Serve, Freed
  <2>5. CallsInv'
    BY <1>3, <2>1 DEF MockInv, TypeOK, CallsInv, Choosing, ServeOnce, Serve, Freed, Unlocked
  <2> QED
    BY <2>2, <2>4, <2>5 DEF MockInv
<1>4. ASSUME NEW t \in Threads, ServeBody(t) PROVE MockInv'
  <2>1. m_mutex = t /\ Choosing = 1 /\ stack[t] # <<>>
    BY <1>4, WhoHolds DEF ServeBody, At
  <2>2. HolderChooses' /\ stack' \in [Threads -> Seq(Frames)]
    BY <1>4, <2>1, AdvanceKeepsHolder DEF ServeBody, Serve, Freed
  <2>3. m_body \in Bodies
    BY <1>4 DEF MockInv, TypeOK, ServeBody
  <2>4. TypeOK'
    BY <1>4, <2>2, <2>3 DEF MockInv, TypeOK, ServeBody, Serve, Freed
  <2>5. CallsInv'
    BY <1>4, <2>1 DEF MockInv, TypeOK, CallsInv, Choosing, ServeBody, Serve, Freed, Unlocked
  <2> QED
    BY <2>2, <2>4, <2>5 DEF MockInv
<1>5. ASSUME NEW t \in Threads, ServeNothing(t) PROVE MockInv'
  <2>1. m_mutex = t /\ Choosing = 1 /\ stack[t] # <<>>
    BY <1>5, WhoHolds DEF ServeNothing, At
  <2>2. HolderChooses' /\ stack' \in [Threads -> Seq(Frames)]
    BY <1>5, <2>1, LeaveKeepsHolder DEF ServeNothing
  <2>3. CallsInv'
    BY <1>5, <2>1 DEF MockInv, TypeOK, CallsInv, Choosing, ServeNothing, Unlocked
  <2>4. TypeOK'
    BY <1>5, <2>1, <2>2 DEF MockInv, TypeOK, CallsInv, ServeNothing
  <2> QED
    BY <2>2, <2>3, <2>4 DEF MockInv
<1>12. ASSUME NEW t \in Threads, ChooseThrows(t) PROVE MockInv'
  <2>1. m_mutex = t /\ Choosing = 1 /\ stack[t] # <<>>
    BY <1>12, WhoHolds DEF ChooseThrows, At
  <2>2. HolderChooses' /\ stack' \in [Threads -> Seq(Frames)]
    BY <1>12, <2>1, LeaveKeepsHolder DEF ChooseThrows
  <2>3. m_onceUsed' \in 0..Len(m_once) /\ m_onceUsed' <= m_onceUsed + 1
    BY <1>12 DEF MockInv, TypeOK, ChooseThrows
  <2>4. CallsInv'
    BY <1>12, <2>1, <2>3 DEF MockInv, TypeOK, CallsInv, Choosing, ChooseThrows, Unlocked
  <2>5. TypeOK'
    BY <1>12, <2>2, <2>3 DEF MockInv, TypeOK, ChooseThrows
  <2> QED
    BY <2>2, <2>4, <2>5 DEF MockInv
<1>6. ASSUME NEW t \in Threads, ActionEnds(t) PROVE MockInv'
  <2>1. m_mutex # t
    BY <1>6, WhoHolds DEF ActionEnds
  <2>2. HolderChooses' /\ stack' \in [Threads -> Seq(Frames)]
    BY <1>6, LeaveKeepsHolder DEF ActionEnds, At
  <2>3. TypeOK'
    BY <1>6, <2>2 DEF MockInv, TypeOK, ActionEnds, methodVars
  <2>4. CallsInv'
    BY <1>6, <2>1 DEF MockInv, CallsInv, Choosing, ActionEnds, Unlocked, methodVars
  <2> QED
    BY <2>2, <2>3, <2>4 DEF MockInv
<1>7. ASSUME NEW t \in Threads, Invoke(t) PROVE MockInv'
  <2>1. HolderChooses' /\ stack' \in [Threads -> Seq(Frames)]
    BY <1>7, PushKeepsHolder DEF Invoke
  <2>2. TypeOK'
    BY <1>7, <2>1 DEF MockInv, TypeOK, Invoke, methodVars
  <2>3. CallsInv'
    BY <1>7 DEF MockInv, CallsInv, Choosing, Invoke, Unlocked, methodVars
  <2> QED
    BY <2>1, <2>2, <2>3 DEF MockInv
<1>8. ASSUME NEW t \in Threads, does(t) PROVE MockInv'
  BY <1>8 DEF MockInv, TypeOK, HolderChooses, CallsInv, Choosing, Unlocked, does
<1>9. ASSUME NEW t \in Threads, doesOnce(t) PROVE MockInv'
  <2>1. HolderChooses'
    BY <1>9 DEF MockInv, HolderChooses, doesOnce
  <2>2. Len(m_once') = Len(m_once) + 1 /\ m_once' \in Seq(1..MaxOnce)
    BY <1>9 DEF MockInv, TypeOK, doesOnce
  <2>3. TypeOK'
    BY <1>9, <2>2 DEF MockInv, TypeOK, doesOnce
  <2>4. CallsInv'
    BY <1>9 DEF MockInv, CallsInv, Choosing, Unlocked, doesOnce
  <2> QED
    BY <2>1, <2>3, <2>4 DEF MockInv
<1>10. ASSUME NEW t \in Threads, resetCalls(t) PROVE MockInv'
  <2>1. HolderChooses'
    BY <1>10 DEF MockInv, HolderChooses, resetCalls
  <2>2. TypeOK'
    BY <1>10, EmptySeq DEF MockInv, TypeOK, resetCalls, Rewound
  <2>3. CallsInv'
    BY <1>10, EmptySeq DEF MockInv, CallsInv, Choosing, Unlocked, resetCalls, Rewound
  <2> QED
    BY <2>1, <2>2, <2>3 DEF MockInv
<1>11. ASSUME UNCHANGED vars PROVE MockInv'
  BY <1>11 DEF vars, methodVars, MockInv, TypeOK, HolderChooses, CallsInv, Choosing, Unlocked
<1> QED
  BY <1>1, <1>2, <1>3, <1>4, <1>5, <1>6, <1>7, <1>8, <1>9, <1>10, <1>11, <1>12
     DEF Next, Continue, Gone

\* The types, in every behaviour.
THEOREM MockTypes == Spec => []TypeOK
<1>1. MockInv => TypeOK
  BY DEF MockInv
<1>2. QED
  BY MockInvInit, MockInvNext, <1>1, PTL DEF Spec

\* The counters a test reads are those of the same calls, whichever threads
\* call, throw and reset, and whatever the actions call back: CallsAgree.
THEOREM CountersAgree == Spec => []CallsAgree
<1>1. MockInv => CallsAgree
  BY DEF MockInv, TypeOK, CallsInv, Choosing, CallsAgree
<1>2. QED
  BY MockInvInit, MockInvNext, <1>1, PTL DEF Spec

-----------------------------------------------------------------------------
(* The script. *)

\* What is left of a queue of which k were used.
Remainder(q, k) == SubSeq(q, k + 1, Len(q))

\* How what is left grows, shrinks and starts over.
LEMMA RemainderFacts ==
  ASSUME NEW S, NEW q \in Seq(S), NEW k \in 0..Len(q)
  PROVE  /\ \A e \in S : Remainder(Append(q, e), k) = Append(Remainder(q, k), e)
         /\ k < Len(q) => /\ Remainder(q, k) # <<>>
                          /\ Head(Remainder(q, k)) = q[k + 1]
                          /\ Tail(Remainder(q, k)) = Remainder(q, k + 1)
         /\ Remainder(q, Len(q)) = <<>>
         /\ Remainder(q, 0) = q
<1>1. Len(q) \in Nat /\ k \in Nat /\ k <= Len(q)
  BY LenProperties
<1>2. ASSUME NEW e \in S PROVE Remainder(Append(q, e), k) = Append(Remainder(q, k), e)
  <2> DEFINE a == Append(q, e)
             n == Len(q)
  <2>1. a \in Seq(S) /\ Len(a) = n + 1 /\ a[n + 1] = e /\ \A i \in 1..n : a[i] = q[i]
    BY <1>2, AppendProperties
  <2>2. SubSeq(a, k + 1, n + 1) = SubSeq(a, k + 1, n) \o <<a[n + 1]>>
    <3>1. k + 1 \in 1..Len(a) /\ n + 1 \in (k + 1)..Len(a) /\ (n + 1) - 1 = n
      BY <1>1, <2>1
    <3> HIDE DEF a, n
    <3>2. SubSeq(a, k + 1, n + 1) = SubSeq(a, k + 1, (n + 1) - 1) \o <<a[n + 1]>>
      BY <2>1, <3>1, SubSeqRecursiveSecond
    <3> QED
      BY <3>1, <3>2
  <2>3. SubSeq(a, k + 1, n) = SubSeq(q, k + 1, n) /\ SubSeq(q, k + 1, n) \in Seq(S)
    <3>1. \A i \in (k + 1)..n : a[i] = q[i] /\ q[i] \in S
      BY <1>1, <2>1, ElementOfSeq
    <3> HIDE DEF a
    <3>2. /\ SubSeq(a, k + 1, n) \in Seq(S) /\ SubSeq(q, k + 1, n) \in Seq(S)
          /\ Len(SubSeq(a, k + 1, n)) = Len(SubSeq(q, k + 1, n))
          /\ Len(SubSeq(q, k + 1, n)) = IF k + 1 <= n THEN n - (k + 1) + 1 ELSE 0
          /\ \A i \in 1..(n - (k + 1) + 1) : SubSeq(a, k + 1, n)[i] = a[k + 1 + i - 1]
          /\ \A i \in 1..(n - (k + 1) + 1) : SubSeq(q, k + 1, n)[i] = q[k + 1 + i - 1]
      BY <1>1, <3>1, SubSeqProperties
    <3>3. ASSUME NEW i \in 1..Len(SubSeq(q, k + 1, n))
          PROVE  SubSeq(a, k + 1, n)[i] = SubSeq(q, k + 1, n)[i]
      <4>1. i \in 1..(n - (k + 1) + 1) /\ k + 1 + i - 1 \in (k + 1)..n
        BY <1>1, <3>2, <3>3
      <4> QED
        BY <3>1, <3>2, <4>1
    <3> QED
      BY <3>2, <3>3, SeqEqual
  <2>4. SubSeq(q, k + 1, n) \o <<e>> = Append(SubSeq(q, k + 1, n), e)
    BY <1>2, <2>3, AppendIsConcat
  <2> QED
    BY <2>1, <2>2, <2>3, <2>4 DEF Remainder
<1>3. ASSUME k < Len(q)
      PROVE  /\ Remainder(q, k) # <<>>
             /\ Head(Remainder(q, k)) = q[k + 1]
             /\ Tail(Remainder(q, k)) = Remainder(q, k + 1)
  <2>1. k + 1 \in 1..Len(q) /\ Len(q) \in (k + 1)..Len(q) /\ k + 1 + 1 = (k + 1) + 1
    BY <1>1, <1>3
  <2>2. Len(SubSeq(q, k + 1, Len(q))) = Len(q) - (k + 1) + 1
    <3>1. \A i \in (k + 1)..Len(q) : q[i] \in S
      BY <1>1, ElementOfSeq
    <3> QED
      BY <1>1, <2>1, <3>1, SubSeqProperties
  <2>3. SubSeq(q, k + 1, Len(q)) # <<>>
    <3>1. Len(SubSeq(q, k + 1, Len(q))) # 0
      BY <1>1, <1>3, <2>2
    <3>2. \A r : r = <<>> => Len(r) = 0
      BY EmptySeq
    <3> QED
      BY <3>1, <3>2
  <2> QED
    BY <2>1, <2>3, HeadTailOfSubSeq DEF Remainder
<1>4. Remainder(q, Len(q)) = <<>>
  BY <1>1, SubSeqEmpty DEF Remainder
<1>5. Remainder(q, 0) = q
  BY SubSeqFull DEF Remainder
<1> QED
  BY <1>2, <1>3, <1>4, <1>5

\* No call is made and nothing is queued.
LEMMA ScriptInit == Init => Script!Init
<1>1. Len(<<>>) = 0 /\ SubSeq(<<>>, 0 + 1, 0) = <<>>
  BY SubSeqEmpty, EmptySeq
<1> QED
  BY <1>1 DEF Init, Script!Init

\* Every step of Mock is a step of the script, or none.
LEMMA ScriptNext ==
  ASSUME MockInv, [Next]_vars
  PROVE  [Script!Next]_Script!vars
<1> DEFINE rest == Remainder(m_once, m_onceUsed)
<1>1. /\ m_once \in Seq(1..MaxOnce) /\ m_onceUsed \in 0..Len(m_once)
      /\ Len(m_once) \in Nat /\ MaxOnce \in Nat
  BY MockAssumption, LenProperties DEF MockInv, TypeOK
<1>2. /\ m_onceUsed < Len(m_once) => /\ rest # <<>>
                                     /\ Head(rest) = m_once[m_onceUsed + 1]
                                     /\ Tail(rest) = Remainder(m_once, m_onceUsed + 1)
      /\ m_onceUsed = Len(m_once) => rest = <<>>
      /\ \A e \in 1..MaxOnce : Remainder(Append(m_once, e), m_onceUsed) = Append(rest, e)
      /\ Remainder(m_once, 0) = m_once
  <2>1. PICK S : S = 1..MaxOnce
    OBVIOUS
  <2>2. m_once \in Seq(S)
    BY <1>1, <2>1
  <2>3. /\ \A e \in S : Remainder(Append(m_once, e), m_onceUsed) = Append(rest, e)
        /\ m_onceUsed < Len(m_once) => /\ rest # <<>>
                                       /\ Head(rest) = m_once[m_onceUsed + 1]
                                       /\ Tail(rest) = Remainder(m_once, m_onceUsed + 1)
        /\ Remainder(m_once, Len(m_once)) = <<>> /\ Remainder(m_once, 0) = m_once
    BY <1>1, <2>2, RemainderFacts
  <2> QED
    BY <2>1, <2>3
<1>3. ASSUME NEW t \in Threads, Record(t) \/ RecordThrows(t) PROVE Script!Begin
  BY <1>3 DEF Record, RecordThrows, Script!Begin
<1>4. ASSUME NEW t \in Threads, ServeOnce(t) PROVE Script!ActScript
  BY <1>2, <1>4 DEF ServeOnce, Serve, Script!ActScript, Remainder
<1>5. ASSUME NEW t \in Threads, ServeBody(t) PROVE Script!ActAlways
  BY <1>2, <1>5 DEF ServeBody, Serve, Script!ActAlways, Remainder
<1>6. ASSUME NEW t \in Threads, ChooseThrows(t) PROVE Script!LoseLine
  <2>1. CASE m_onceUsed < Len(m_once)
    BY <1>2, <1>6, <2>1 DEF ChooseThrows, Script!LoseLine, Remainder
  <2>2. CASE m_onceUsed = Len(m_once)
    BY <1>1, <1>2, <1>6, <2>2 DEF ChooseThrows, Script!LoseLine, Remainder
  <2> QED
    BY <1>1, <2>1, <2>2
<1>7. ASSUME NEW t \in Threads, does(t) PROVE Script!Change
  BY <1>7 DEF does, Script!Change
<1>8. ASSUME NEW t \in Threads, doesOnce(t)
      PROVE  m_once' # <<>> /\ Script!Queue(m_once'[Len(m_once')])
  <2> DEFINE e == Len(m_once) + 1
  <2>1. e \in 1..MaxOnce /\ m_once' = Append(m_once, e)
    BY <1>1, <1>8 DEF doesOnce
  <2> HIDE DEF e
  <2>2. m_once' # <<>> /\ m_once'[Len(m_once')] = e
    BY <1>1, <2>1, AppendProperties DEF e
  <2>3. Remainder(m_once', m_onceUsed') = Append(rest, e)
    BY <1>2, <1>8, <2>1 DEF doesOnce
  <2> QED
    BY <1>8, <2>1, <2>2, <2>3 DEF doesOnce, Script!Queue, Remainder
<1>9. ASSUME NEW t \in Threads, resetCalls(t) PROVE Script!StartOver
  BY <1>2, <1>9 DEF resetCalls, Rewound, Script!StartOver, Remainder
<1>10. ASSUME NEW t \in Threads, Invoke(t) \/ ActionEnds(t) \/ ServeNothing(t)
       PROVE  UNCHANGED Script!vars
  BY <1>10 DEF Invoke, ActionEnds, ServeNothing, methodVars, Script!vars
<1>11. ASSUME UNCHANGED vars PROVE UNCHANGED Script!vars
  BY <1>11 DEF vars, methodVars, Script!vars
<1> QED
  BY <1>3, <1>4, <1>5, <1>6, <1>7, <1>8, <1>9, <1>10, <1>11
     DEF Next, Continue, Gone, Script!Next

\* Mock implements MockScript: for any number of threads, queued actions and
\* nested calls, the calls act out what was queued, each line at most once and
\* in order, then what is always done: FollowsScript.
THEOREM ScriptIsFollowed == Spec => FollowsScript
<1>1. MockInv /\ [Next]_vars => [Script!Next]_Script!vars
  BY ScriptNext
<1>2. QED
  BY MockInvInit, MockInvNext, ScriptInit, <1>1, PTL DEF Spec, FollowsScript, Script!Spec

=============================================================================

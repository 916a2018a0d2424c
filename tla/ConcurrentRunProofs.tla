------------------------- MODULE ConcurrentRunProofs -------------------------
(***************************************************************************)
(* Proofs about ConcurrentRun, for any number of workers, calls of run,    *)
(* nested or not, and assertions.                                          *)
(***************************************************************************)
EXTENDS ConcurrentRun, SumFacts

-----------------------------------------------------------------------------
(* The inductive invariant. *)

InCall(t) == pc[t] \in {"spawn", "join", "merge", "logging"}

\* The workers of the call that t is in, and those of them that passed arriveAndWait's count.
Of(t) == {w \in Workers : pc[w] # "unborn" /\ caller[w] = t}

HasArrived(w) == pc[w] \in {"wait", "woken"} \union Started

Arrived(t) == {w \in Of(t) : HasArrived(w)}

\* workers[t] lists the workers of t's call, each once, and nobody else's.
Regions ==
  \A t \in Threads :
    /\ Of(t) = Range(workers[t])
    /\ \A i, j \in DOMAIN workers[t] : workers[t][i] = workers[t][j] => i = j
    /\ Cardinality(Of(t)) = Len(workers[t])
    /\ ~InCall(t) => workers[t] = <<>>
    /\ pc[t] = "spawn" => Len(workers[t]) < threads[t]
    /\ pc[t] \in {"join", "merge", "logging"} => Len(workers[t]) = threads[t]

\* The gate counts who has not arrived, and a worker is past it only when it is open.
Gate ==
  /\ \A t \in Threads : InCall(t) =>
       /\ m_remaining[t] + Cardinality(Arrived(t)) = threads[t]
       /\ m_open[t] => m_remaining[t] = 0
  /\ \A w \in Workers : pc[w] # "unborn" => caller[w] \in Threads
  /\ \A w \in Workers : pc[w] \in Started => m_open[caller[w]]

Failed(S) == {w \in S : ~ok[w]}
Threw(S)  == {w \in S : error[w] # "none"}

\* The workers whose ok and error the call has added to its result.
Handled(t) ==
  {workers[t][i] : i \in 1..(IF pc[t] = "logging" THEN merged[t] + 1 ELSE merged[t])}

\* Every exception has something to say: run takes none for no exception.
AllSpeak == "nowhat" \notin Thrown

\* What the call that t is in, or the last one, has to tell.
EndsAt(t) ==
  /\ InCall(t) => outcome[t] = [failed     |-> Cardinality(Failed(Of(t))),
                                exceptions |-> Cardinality(Threw(Of(t)))]
  /\ pc[t] \in {"spawn", "join"} => merged[t] = 0 /\ result[t] = NoResult
  /\ pc[t] \in {"merge", "logging"} =>
       /\ \A w \in Of(t) : pc[w] = "ended"
       /\ merged[t] <= Len(workers[t])
       /\ pc[t] = "logging" => merged[t] < Len(workers[t])
       /\ AllSpeak => result[t] = [failed     |-> Cardinality(Failed(Handled(t))),
                                   exceptions |-> Cardinality(Threw(Handled(t)))]
  /\ ~InCall(t) /\ AllSpeak => result[t] = outcome[t]

Ends ==
  /\ \A w \in Workers :
       pc[w] \notin {"unborn", "unbind", "ended"} => ok[w] /\ error[w] = "none"
  /\ \A t \in Threads : EndsAt(t)

RunInv == TypeOK /\ Regions /\ Gate /\ Ends

\* Parent links do not run in circles: they lead from every worker to Main.
Rooted ==
  \A C \in SUBSET Workers :
    (\A w \in C : pc[w] # "unborn" /\ caller[w] \in C) => C = {}

-----------------------------------------------------------------------------
(* Steps that leave parts of the state as they are. *)

LEMMA OfFinite ==
  ASSUME NEW t
  PROVE  /\ IsFiniteSet(Of(t)) /\ Cardinality(Of(t)) \in Nat
         /\ IsFiniteSet(Arrived(t)) /\ Cardinality(Arrived(t)) \in Nat
         /\ Cardinality(Arrived(t)) <= Cardinality(Of(t))
<1>1. Of(t) \in SUBSET Workers /\ Arrived(t) \in SUBSET Of(t)
  BY DEF Of, Arrived
<1>2. IsFiniteSet(Of(t)) /\ Cardinality(Of(t)) \in Nat
  BY <1>1, ThreadsAssumption, FS_Subset, FS_CardinalityType
<1> QED
  BY <1>1, <1>2, FS_Subset, FS_CardinalityType

\* Nobody is born, dies, starts a call or leaves one.
LEMMA RegionsKept ==
  ASSUME Regions, UNCHANGED <<workers, threads, caller>>,
         \A w \in Workers : pc'[w] = "unborn" <=> pc[w] = "unborn",
         \A t \in Threads : InCall(t)' <=> InCall(t),
         \A t \in Threads : pc'[t] = "spawn" <=> pc[t] = "spawn"
  PROVE  Regions' /\ \A t \in Threads : Of(t)' = Of(t)
<1>1. \A t \in Threads : Of(t)' = Of(t)
  BY DEF Of
<1>2. ASSUME NEW t \in Threads
      PROVE  /\ Of(t)' = Range(workers[t])'
             /\ \A i, j \in DOMAIN workers'[t] : workers'[t][i] = workers'[t][j] => i = j
             /\ Cardinality(Of(t)') = Len(workers'[t])
             /\ ~InCall(t)' => workers'[t] = <<>>
             /\ pc'[t] = "spawn" => Len(workers'[t]) < threads'[t]
             /\ pc'[t] \in {"join", "merge", "logging"} => Len(workers'[t]) = threads'[t]
  <2>1. pc'[t] \in {"join", "merge", "logging"} => pc[t] \in {"join", "merge", "logging"}
    BY DEF InCall
  <2> QED
    BY <1>1, <2>1 DEF Regions
<1> QED
  BY <1>1, <1>2 DEF Regions

\* Nobody arrives; who starts finds the gate open.
LEMMA GateKept ==
  ASSUME Gate, UNCHANGED <<threads, caller, m_remaining, m_open>>,
         \A w \in Workers : pc'[w] = "unborn" <=> pc[w] = "unborn",
         \A t \in Threads : InCall(t)' <=> InCall(t),
         \A w \in Workers : HasArrived(w)' <=> HasArrived(w),
         \A w \in Workers : pc'[w] \in Started => pc[w] \in Started \/ m_open[caller[w]]
  PROVE  Gate'
<1>1. \A t \in Threads : Arrived(t)' = Arrived(t)
  BY DEF Arrived, Of
<1> QED
  BY <1>1 DEF Gate

\* A call of which no body ends and whose caller does nothing.
LEMMA EndsAtKept ==
  ASSUME TypeOK, Regions, NEW t \in Threads, EndsAt(t), Of(t)' = Of(t),
         pc'[t] = pc[t] \/ (~InCall(t) /\ ~InCall(t)'),
         outcome'[t] = outcome[t], merged'[t] = merged[t], result'[t] = result[t],
         workers'[t] = workers[t],
         \A w \in Of(t) : /\ ok'[w] = ok[w] /\ error'[w] = error[w]
                          /\ pc[w] = "ended" => pc'[w] = "ended"
  PROVE  EndsAt(t)'
<1>1. /\ InCall(t)' <=> InCall(t)
      /\ \A l \in {"spawn", "join", "merge", "logging"} : pc'[t] = l <=> pc[t] = l
  BY DEF InCall
<1>2. \A S \in SUBSET Of(t) : Failed(S)' = Failed(S) /\ Threw(S)' = Threw(S)
  BY DEF Failed, Threw
<1>3. Failed(Of(t))' = Failed(Of(t)) /\ Threw(Of(t))' = Threw(Of(t))
  BY <1>2 DEF Failed, Threw
<1>4. ASSUME pc[t] \in {"merge", "logging"}
      PROVE  Failed(Handled(t))' = Failed(Handled(t)) /\ Threw(Handled(t))' = Threw(Handled(t))
  <2>1. Handled(t) \in SUBSET Of(t)
    <3>1. Of(t) = Range(workers[t]) /\ workers[t] \in Seq(Workers) /\ merged[t] \in Nat
      BY DEF Regions, TypeOK
    <3> QED
      BY <1>4, <3>1 DEF Handled, Range, EndsAt
  <2>2. Handled(t)' = Handled(t)
    BY <1>1 DEF Handled
  <2> QED
    BY <1>2, <2>1, <2>2 DEF Failed, Threw
<1>5. /\ InCall(t)' => outcome'[t] = [failed     |-> Cardinality(Failed(Of(t))'),
                                     exceptions |-> Cardinality(Threw(Of(t))')]
      /\ pc'[t] \in {"spawn", "join"} => merged'[t] = 0 /\ result'[t] = NoResult'
      /\ ~InCall(t)' /\ AllSpeak => result'[t] = outcome'[t]
  <2>1. pc'[t] \in {"spawn", "join"} => pc[t] \in {"spawn", "join"}
    BY <1>1
  <2> QED
    BY <1>1, <1>3, <2>1 DEF EndsAt, NoResult
<1>6. ASSUME pc'[t] \in {"merge", "logging"}
      PROVE  /\ \A w \in Of(t)' : pc'[w] = "ended"
             /\ merged'[t] <= Len(workers'[t])
             /\ pc'[t] = "logging" => merged'[t] < Len(workers'[t])
             /\ AllSpeak => result'[t] = [failed     |-> Cardinality(Failed(Handled(t))'),
                                         exceptions |-> Cardinality(Threw(Handled(t))')]
  <2>1. pc[t] \in {"merge", "logging"}
    BY <1>1, <1>6
  <2> QED
    BY <1>1, <1>4, <1>6, <2>1 DEF EndsAt
<1> QED
  BY <1>5, <1>6 DEF EndsAt

\* No body ends and no call merges.
LEMMA EndsKept ==
  ASSUME TypeOK, Regions, Ends, UNCHANGED <<ok, error, outcome, merged, result, workers>>,
         \A t \in Threads : Of(t)' = Of(t),
         \A w \in Workers : pc'[w] = pc[w] \/ pc'[w] \in {"unbind", "ended"}
                                           \/ pc[w] \notin {"unborn", "unbind", "ended"},
         \A t \in Threads : InCall(t) \/ InCall(t)' => pc'[t] = pc[t],
         \A w \in Workers : pc[w] = "ended" => pc'[w] = "ended"
  PROVE  Ends'
<1>1. \A w \in Workers :
        pc'[w] \notin {"unborn", "unbind", "ended"} => ok'[w] /\ error'[w] = "none"
  BY DEF Ends
<1>2. ASSUME NEW t \in Threads PROVE EndsAt(t)'
  <2>1. \A w \in Of(t) : w \in Workers
    BY DEF Of
  <2> QED
    BY <2>1, EndsAtKept DEF Ends
<1> QED
  BY <1>1, <1>2 DEF Ends

-----------------------------------------------------------------------------
(* The steps of a worker. *)

\* The worker binds its tally before it arrives.
LEMMA BindKeeps ==
  ASSUME RunInv, NEW w \in Workers, BindThreadTally(w)
  PROVE  RunInv'
<1> USE ThreadsAssumption DEF BindThreadTally, At, Goto, Threads, workerVars, regionVars, history
<1>1. TypeOK'
  BY DEF RunInv, TypeOK, Labels
<1>2. pc \in [Threads -> Labels] /\ pc' \in [Threads -> Labels]
  BY <1>1 DEF RunInv, TypeOK
<1>3. Regions' /\ \A t \in Threads : Of(t)' = Of(t)
  BY <1>2, RegionsKept DEF RunInv, InCall
<1>4. Gate'
  BY <1>2, GateKept DEF RunInv, InCall, HasArrived, Started, Gate
<1>5. Ends'
  BY <1>2, <1>3, EndsKept DEF RunInv, InCall
<1> QED
  BY <1>1, <1>3, <1>4, <1>5 DEF RunInv

\* A spurious wake-up changes nothing a waiting worker relies on.
LEMMA SpuriousKeeps ==
  ASSUME RunInv, NEW w \in Workers, WakeSpuriously(w)
  PROVE  RunInv'
<1> USE ThreadsAssumption DEF WakeSpuriously, At, Goto, Threads, workerVars, regionVars, history
<1>1. TypeOK'
  BY DEF RunInv, TypeOK, Labels
<1>2. pc \in [Threads -> Labels] /\ pc' \in [Threads -> Labels]
  BY <1>1 DEF RunInv, TypeOK
<1>3. Regions' /\ \A t \in Threads : Of(t)' = Of(t)
  BY <1>2, RegionsKept DEF RunInv, InCall
<1>4. Gate'
  BY <1>2, GateKept DEF RunInv, InCall, HasArrived, Started, Gate
<1>5. Ends'
  BY <1>2, <1>3, EndsKept DEF RunInv, InCall
<1> QED
  BY <1>1, <1>3, <1>4, <1>5 DEF RunInv

\* A woken worker goes on only through an open gate.
LEMMA WakeKeeps ==
  ASSUME RunInv, NEW w \in Workers, Wake(w)
  PROVE  RunInv'
<1> USE ThreadsAssumption DEF Wake, MayPass, At, Goto, Threads, workerVars, regionVars, history
<1>1. TypeOK'
  BY DEF RunInv, TypeOK, Labels
<1>2. pc \in [Threads -> Labels] /\ pc' \in [Threads -> Labels]
  BY <1>1 DEF RunInv, TypeOK
<1>3. Regions' /\ \A t \in Threads : Of(t)' = Of(t)
  BY <1>2, RegionsKept DEF RunInv, InCall
<1>4. Gate'
  BY <1>2, GateKept DEF RunInv, InCall, HasArrived, Started, Gate
<1>5. Ends'
  BY <1>2, <1>3, EndsKept DEF RunInv, InCall
<1> QED
  BY <1>1, <1>3, <1>4, <1>5 DEF RunInv

\* A body that has ended stays ended.
LEMMA UnbindKeeps ==
  ASSUME RunInv, NEW w \in Workers, UnbindThreadTally(w)
  PROVE  RunInv'
<1> USE ThreadsAssumption DEF UnbindThreadTally, At, Goto, Threads, workerVars, regionVars, history
<1>1. TypeOK'
  BY DEF RunInv, TypeOK, Labels
<1>2. pc \in [Threads -> Labels] /\ pc' \in [Threads -> Labels]
  BY <1>1 DEF RunInv, TypeOK
<1>3. Regions' /\ \A t \in Threads : Of(t)' = Of(t)
  BY <1>2, RegionsKept DEF RunInv, InCall
<1>4. Gate'
  BY <1>2, GateKept DEF RunInv, InCall, HasArrived, Started, Gate
<1>5. Ends'
  BY <1>2, <1>3, EndsKept DEF RunInv, InCall
<1> QED
  BY <1>1, <1>3, <1>4, <1>5 DEF RunInv

\* Who called a live worker is in a call.
LEMMA CallerInCall ==
  ASSUME TypeOK, Regions, Gate, NEW w \in Workers, pc[w] # "unborn"
  PROVE  caller[w] \in Threads /\ w \in Of(caller[w]) /\ InCall(caller[w])
<1>1. caller[w] \in Threads /\ w \in Of(caller[w])
  BY DEF Gate, Of
<1>2. workers[caller[w]] # <<>>
  BY <1>1 DEF Regions, Range
<1> QED
  BY <1>1, <1>2 DEF Regions

\* The last to arrive opens the gate and wakes those that wait.
LEMMA ArriveKeeps ==
  ASSUME RunInv, NEW w \in Workers, Arrive(w)
  PROVE  RunInv'
<1> DEFINE t == caller[w]
<1> USE ThreadsAssumption DEF At, Goto, Threads, workerVars, regionVars, history
<1>1. pc[w] = "arrive" /\ t \in Threads /\ w \in Of(t) /\ InCall(t)
  BY CallerInCall DEF RunInv, Arrive
<1>2. /\ m_remaining' = [m_remaining EXCEPT ![t] = @ - 1]
      /\ UNCHANGED <<stop, bound, caller, tally, ok, error, threads, workers, merged, result,
                     root, terminated, asserted, outcome, runs>>
      /\ m_open' = IF m_remaining[t] = 1 THEN [m_open EXCEPT ![t] = TRUE] ELSE m_open
  BY DEF Arrive
<1>3. pc' \in [Threads -> Labels]
      /\ \A u \in Threads :
           \/ u # w /\ pc'[u] = pc[u]
           \/ u # w /\ pc[u] = "wait" /\ pc'[u] = "woken" /\ u \in Workers
           \/ u = w /\ pc'[u] = "wait"
           \/ u = w /\ pc'[u] = "body" /\ m_remaining[t] = 1
  <2>1. pc \in [Threads -> Labels]
    BY DEF RunInv, TypeOK
  <2>2. CASE m_remaining[t] = 1
    <3>1. pc' = [u \in Threads |-> IF u = w THEN "body"
                                  ELSE IF u \in Notified(t) THEN "woken" ELSE pc[u]]
      BY <2>2 DEF Arrive
    <3> QED
      BY <2>1, <2>2, <3>1 DEF Labels, Notified
  <2>3. CASE m_remaining[t] # 1
    <3>1. pc' = [pc EXCEPT ![w] = "wait"]
      BY <2>3 DEF Arrive
    <3> QED
      BY <2>1, <3>1 DEF Labels
  <2> QED
    BY <2>2, <2>3
<1>4. pc \in [Threads -> Labels]
  BY DEF RunInv, TypeOK
<1>5. ~HasArrived(w) /\ HasArrived(w)'
      /\ \A u \in Workers \ {w} : HasArrived(u)' <=> HasArrived(u)
  BY <1>1, <1>3 DEF HasArrived, Started
<1>6. Regions' /\ \A u \in Threads : Of(u)' = Of(u)
  BY <1>1, <1>2, <1>3, RegionsKept DEF RunInv, InCall
<1>7. /\ Arrived(t)' = Arrived(t) \union {w} /\ w \notin Arrived(t)
      /\ \A u \in Threads \ {t} : Arrived(u)' = Arrived(u)
  BY <1>1, <1>2, <1>5, <1>6 DEF Arrived, Of
<1>8. /\ Cardinality(Arrived(t)') = Cardinality(Arrived(t)) + 1
      /\ Cardinality(Arrived(t)') <= Cardinality(Of(t))
  <2>1. IsFiniteSet(Arrived(t)) /\ IsFiniteSet(Of(t))
    BY OfFinite
  <2>2. Arrived(t) \union {w} \in SUBSET Of(t)
    BY <1>1 DEF Arrived
  <2> QED
    BY <1>7, <2>1, <2>2, FS_AddElement, FS_Subset
<1>9. Len(workers[t]) <= threads[t] /\ Cardinality(Of(t)) = Len(workers[t])
      /\ threads[t] \in Nat /\ Len(workers[t]) \in Nat
  BY <1>1 DEF RunInv, Regions, InCall, TypeOK
<1>10. Cardinality(Arrived(t)) \in Nat /\ m_remaining[t] \in Nat
  BY <1>1, OfFinite DEF RunInv, TypeOK
<1>11. m_remaining[t] >= 1
  BY <1>1, <1>8, <1>9, <1>10 DEF RunInv, Gate
<1>12. TypeOK'
  BY <1>1, <1>2, <1>3, <1>10, <1>11 DEF RunInv, TypeOK
<1>13. \A u \in Threads : InCall(u)' <=> InCall(u)
  BY <1>1, <1>3 DEF InCall
<1>14. Gate'
  <2>1. ASSUME NEW u \in Threads, InCall(u)'
        PROVE  /\ m_remaining'[u] + Cardinality(Arrived(u)') = threads'[u]
               /\ m_open'[u] => m_remaining'[u] = 0
    <3>1. CASE u = t
      <4>1. m_remaining'[t] = m_remaining[t] - 1
        BY <1>1, <1>2 DEF RunInv, TypeOK
      <4>2. m_remaining[t] + Cardinality(Arrived(t)) = threads[t]
            /\ (m_open[t] => m_remaining[t] = 0)
        BY <1>1 DEF RunInv, Gate
      <4>3. m_open'[t] => m_remaining[t] = 1
        BY <1>2, <1>11, <4>2
      <4> QED
        BY <1>2, <1>8, <1>10, <3>1, <4>1, <4>2, <4>3
    <3>2. CASE u # t
      BY <1>1, <1>2, <1>7, <1>13, <2>1, <3>2 DEF RunInv, Gate, TypeOK
    <3> QED
      BY <3>1, <3>2
  <2>2. ASSUME NEW v \in Workers
        PROVE  /\ pc'[v] # "unborn" => caller'[v] \in Threads
               /\ pc'[v] \in Started => m_open'[caller'[v]]
    <3>1. CASE v = w /\ pc'[v] = "body"
      BY <1>1, <1>2, <1>3, <3>1 DEF RunInv, TypeOK
    <3>2. CASE pc[v] \in Started /\ v # w
      BY <1>1, <1>2, <3>2 DEF RunInv, Gate, TypeOK, Started
    <3>3. CASE pc'[v] \notin Started
      BY <1>1, <1>2, <1>3, <3>3 DEF RunInv, Gate
    <3> QED
      BY <1>3, <3>1, <3>2, <3>3 DEF Started
  <2> QED
    BY <2>1, <2>2 DEF Gate
<1>15. Ends'
  BY <1>1, <1>2, <1>3, <1>6, EndsKept DEF RunInv, InCall
<1> QED
  BY <1>6, <1>12, <1>14, <1>15 DEF RunInv

\* A body that ends, or cannot start the first worker of a call of its own,
\* counts once in what its caller will hear.
LEMMA BodyOverKeeps ==
  ASSUME RunInv, TypeOK', NEW w \in Workers,
         pc[w] = "body" \/ (pc[w] = "spawn" /\ workers[w] = <<>>),
         Goto(w, "unbind"),
         \A u \in Workers \ {w} : ok'[u] = ok[u] /\ error'[u] = error[u],
         outcome'[caller[w]] =
           [failed     |-> IF ok'[w] THEN outcome[caller[w]].failed
                           ELSE outcome[caller[w]].failed + 1,
            exceptions |-> IF error'[w] = "none" THEN outcome[caller[w]].exceptions
                           ELSE outcome[caller[w]].exceptions + 1],
         \A u \in Threads \ {caller[w]} : outcome'[u] = outcome[u],
         UNCHANGED <<caller, threads, workers, m_remaining, m_open, merged, result>>
  PROVE  RunInv'
<1> DEFINE t == caller[w]
<1> USE ThreadsAssumption DEF Goto, Threads
<1>1. /\ t \in Threads /\ w \in Of(t) /\ InCall(t)
      /\ pc \in [Threads -> Labels]
      /\ pc[w] \notin {"unborn", "unbind", "ended"} /\ ok[w] /\ error[w] = "none"
  BY CallerInCall DEF RunInv, Ends, EndsAt, TypeOK
<1>2. pc[t] \in {"spawn", "join"} /\ t # w
  <2>1. pc[t] \notin {"merge", "logging"}
    BY <1>1 DEF RunInv, Ends, EndsAt
  <2>2. workers[t] # <<>>
    BY <1>1 DEF RunInv, Regions, Range
  <2> QED
    BY <1>1, <2>1, <2>2 DEF InCall
<1>3. \A u \in Threads : Of(u)' = Of(u)
  BY <1>1 DEF Of
<1>4. Regions'
  <2>1. ASSUME NEW u \in Threads, u # w
        PROVE  /\ Of(u)' = Range(workers[u])'
               /\ \A i, j \in DOMAIN workers'[u] : workers'[u][i] = workers'[u][j] => i = j
               /\ Cardinality(Of(u)') = Len(workers'[u])
               /\ ~InCall(u)' => workers'[u] = <<>>
               /\ pc'[u] = "spawn" => Len(workers'[u]) < threads'[u]
               /\ pc'[u] \in {"join", "merge", "logging"} => Len(workers'[u]) = threads'[u]
    BY <1>1, <1>3, <2>1 DEF RunInv, Regions, InCall
  <2>2. /\ Of(w)' = Range(workers[w])'
        /\ \A i, j \in DOMAIN workers'[w] : workers'[w][i] = workers'[w][j] => i = j
        /\ Cardinality(Of(w)') = Len(workers'[w])
        /\ ~InCall(w)' => workers'[w] = <<>>
        /\ pc'[w] = "unbind"
    BY <1>1, <1>3 DEF RunInv, Regions, InCall
  <2> QED
    BY <2>1, <2>2 DEF Regions
<1>5. Gate'
  <2>1. \A u \in Workers : HasArrived(u)' <=> HasArrived(u)
    BY <1>1 DEF HasArrived, Started
  <2>2. \A u \in Threads : Arrived(u)' = Arrived(u)
    BY <1>3, <2>1 DEF Arrived, Of
  <2>3. \A u \in Threads : InCall(u)' => InCall(u)
    BY <1>1 DEF InCall
  <2>4. \A u \in Workers : /\ pc'[u] # "unborn" => pc[u] # "unborn"
                           /\ pc'[u] \in Started => pc[u] \in Started
    BY <1>1 DEF Started
  <2> QED
    BY <2>2, <2>3, <2>4 DEF RunInv, Gate
<1>6. /\ Failed(Of(t))' = IF ok'[w] THEN Failed(Of(t)) ELSE Failed(Of(t)) \union {w}
      /\ Threw(Of(t))' = IF error'[w] = "none" THEN Threw(Of(t)) ELSE Threw(Of(t)) \union {w}
      /\ w \notin Failed(Of(t)) /\ w \notin Threw(Of(t))
      /\ IsFiniteSet(Failed(Of(t))) /\ IsFiniteSet(Threw(Of(t)))
  <2>1. /\ Failed(Of(t))' = IF ok'[w] THEN Failed(Of(t)) ELSE Failed(Of(t)) \union {w}
        /\ Threw(Of(t))' = IF error'[w] = "none" THEN Threw(Of(t)) ELSE Threw(Of(t)) \union {w}
        /\ w \notin Failed(Of(t)) /\ w \notin Threw(Of(t))
    BY <1>1, <1>3 DEF Failed, Threw, Of
  <2>2. Failed(Of(t)) \in SUBSET Of(t) /\ Threw(Of(t)) \in SUBSET Of(t)
    BY DEF Failed, Threw
  <2> QED
    BY <2>1, <2>2, OfFinite, FS_Subset
<1>7. outcome'[t] = [failed     |-> Cardinality(Failed(Of(t))'),
                     exceptions |-> Cardinality(Threw(Of(t))')]
  <2>1. outcome[t] = [failed     |-> Cardinality(Failed(Of(t))),
                      exceptions |-> Cardinality(Threw(Of(t)))]
    BY <1>1 DEF RunInv, Ends, EndsAt
  <2>2. outcome'[t] = [failed     |-> IF ok'[w] THEN outcome[t].failed ELSE outcome[t].failed + 1,
                       exceptions |-> IF error'[w] = "none" THEN outcome[t].exceptions
                                      ELSE outcome[t].exceptions + 1]
    OBVIOUS
  <2>3. /\ Cardinality(Failed(Of(t)) \union {w}) = Cardinality(Failed(Of(t))) + 1
        /\ Cardinality(Threw(Of(t)) \union {w}) = Cardinality(Threw(Of(t))) + 1
    BY <1>6, FS_AddElement
  <2> QED
    BY <1>6, <2>1, <2>2, <2>3
<1>8. \A u \in Threads \ {t} : outcome'[u] = outcome[u]
  OBVIOUS
<1>10. ASSUME NEW v \in Workers, pc'[v] \notin {"unborn", "unbind", "ended"}
       PROVE  ok'[v] /\ error'[v] = "none"
  BY <1>1, <1>10 DEF RunInv, Ends, EndsAt, TypeOK
<1>11. ASSUME NEW u \in Threads, u # t, u # w PROVE EndsAt(u)'
  <2>1. Of(u) \subseteq Workers \ {w}
    BY <1>11 DEF Of
  <2>2. pc'[u] = pc[u] /\ \A v \in Of(u) : pc'[v] = pc[v]
    BY <1>1, <1>11, <2>1
  <2> QED
    BY <1>3, <1>8, <1>11, <2>1, <2>2, EndsAtKept DEF RunInv, Ends
<1>12. (AllSpeak => result'[w] = outcome'[w]) /\ ~InCall(w)'
  <2>1. CASE pc[w] = "body"
    <3>1. AllSpeak => result[w] = outcome[w]
      BY <2>1 DEF RunInv, Ends, EndsAt, InCall
    <3> QED
      BY <1>1, <1>2, <1>8, <3>1 DEF InCall
  <2>2. CASE pc[w] = "spawn" /\ workers[w] = <<>>
    <3>1. Of(w) = {}
      BY <2>2 DEF RunInv, Regions, Range
    <3>2. Failed(Of(w)) = {} /\ Threw(Of(w)) = {}
      BY <3>1 DEF Failed, Threw
    <3>3. outcome[w] = NoResult /\ result[w] = NoResult
      BY <2>2, <3>2, FS_EmptySet DEF RunInv, Ends, EndsAt, InCall, NoResult
    <3> QED
      BY <1>1, <1>2, <1>8, <3>3 DEF InCall
  <2> QED
    BY <2>1, <2>2
<1>13. Ends'
  <2>1. pc'[t] = pc[t] /\ InCall(t)' /\ pc'[w] = "unbind"
    BY <1>1, <1>2 DEF InCall
  <2>2. merged'[t] = 0 /\ result'[t] = NoResult'
    BY <1>1, <1>2 DEF RunInv, Ends, EndsAt
  <2> QED
    BY <1>2, <1>7, <1>10, <1>11, <1>12, <2>1, <2>2 DEF Ends, EndsAt
<1> QED
  BY <1>4, <1>5, <1>13 DEF RunInv

\* Counting in one field of a Result.
LEMMA CountResult ==
  ASSUME NEW r \in Results, NEW n \in Nat
  PROVE  /\ [r EXCEPT !.failed = n] = [failed |-> n, exceptions |-> r.exceptions]
         /\ [r EXCEPT !.exceptions = n] = [failed |-> r.failed, exceptions |-> n]
         /\ r = [failed |-> r.failed, exceptions |-> r.exceptions]
         /\ r.failed \in Nat /\ r.exceptions \in Nat
BY DEF Results

LEMMA BodyEndsKeeps ==
  ASSUME RunInv, NEW w \in Workers, BodyEnds(w)
  PROVE  RunInv'
<1> USE ThreadsAssumption, BodiesAssumption DEF At, Goto, Threads, workerVars, regionVars, history
<1> DEFINE r == outcome[caller[w]]
<1>1. /\ pc[w] = "body" /\ ok[w] /\ error[w] = "none"
      /\ caller[w] \in Threads /\ r \in Results
      /\ r.failed \in Nat /\ r.exceptions \in Nat
  BY CallerInCall, CountResult DEF RunInv, Ends, EndsAt, BodyEnds, TypeOK
<1>3. ASSUME NEW value \in BOOLEAN, BodyReturns(w, value)
      PROVE  RunInv'
  <2> DEFINE n == IF value THEN r.failed ELSE r.failed + 1
  <2>1. error' = [error EXCEPT ![w] = "none"]
    BY <1>1, <1>3 DEF BodyReturns, RunInv, TypeOK
  <2>2. /\ outcome' = [outcome EXCEPT ![caller[w]] = [r EXCEPT !.failed = n]]
        /\ [r EXCEPT !.failed = n] = [failed |-> n, exceptions |-> r.exceptions]
        /\ [failed |-> n, exceptions |-> r.exceptions] \in Results
    BY <1>1, <1>3, CountResult DEF BodyReturns, Results
  <2>3. /\ outcome' \in [Threads -> Results]
        /\ outcome'[caller[w]] = [failed |-> n, exceptions |-> r.exceptions]
        /\ \A u \in Threads \ {caller[w]} : outcome'[u] = outcome[u]
    BY <1>1, <2>2 DEF RunInv, TypeOK
  <2>4. TypeOK'
    BY <1>1, <1>3, <2>3 DEF RunInv, TypeOK, BodyEnds, BodyReturns, Labels
  <2>5. /\ ok'[w] = value /\ error'[w] = "none"
        /\ \A u \in Workers \ {w} : ok'[u] = ok[u] /\ error'[u] = error[u]
        /\ Goto(w, "unbind")
        /\ UNCHANGED <<caller, threads, workers, m_remaining, m_open, merged, result>>
    BY <1>1, <1>3, <2>1 DEF BodyReturns, BodyEnds, RunInv, TypeOK
  <2>6. outcome'[caller[w]] =
           [failed     |-> IF ok'[w] THEN outcome[caller[w]].failed
                           ELSE outcome[caller[w]].failed + 1,
            exceptions |-> IF error'[w] = "none" THEN outcome[caller[w]].exceptions
                           ELSE outcome[caller[w]].exceptions + 1]
    BY <2>3, <2>5
  <2> QED
    BY <1>1, <2>3, <2>4, <2>5, <2>6, BodyOverKeeps
<1>4. ASSUME NEW what \in Thrown, BodyThrows(w, what)
      PROVE  RunInv'
  <2>1. ok' = [ok EXCEPT ![w] = TRUE] /\ what # "none"
    BY <1>1, <1>4 DEF BodyThrows, RunInv, TypeOK
  <2>2. /\ outcome' = [outcome EXCEPT ![caller[w]] = [r EXCEPT !.exceptions = r.exceptions + 1]]
        /\ [r EXCEPT !.exceptions = r.exceptions + 1]
              = [failed |-> r.failed, exceptions |-> r.exceptions + 1]
        /\ [failed |-> r.failed, exceptions |-> r.exceptions + 1] \in Results
    BY <1>1, <1>4, CountResult DEF BodyThrows, Results
  <2>3. /\ outcome' \in [Threads -> Results]
        /\ outcome'[caller[w]] = [failed |-> r.failed, exceptions |-> r.exceptions + 1]
        /\ \A u \in Threads \ {caller[w]} : outcome'[u] = outcome[u]
    BY <1>1, <2>2 DEF RunInv, TypeOK
  <2>4. TypeOK'
    BY <1>1, <1>4, <2>3 DEF RunInv, TypeOK, BodyEnds, BodyThrows, Labels
  <2>5. /\ ok'[w] /\ error'[w] = what
        /\ \A u \in Workers \ {w} : ok'[u] = ok[u] /\ error'[u] = error[u]
        /\ Goto(w, "unbind")
        /\ UNCHANGED <<caller, threads, workers, m_remaining, m_open, merged, result>>
    BY <1>1, <1>4, <2>1 DEF BodyThrows, BodyEnds, RunInv, TypeOK
  <2>6. outcome'[caller[w]] =
           [failed     |-> IF ok'[w] THEN outcome[caller[w]].failed
                           ELSE outcome[caller[w]].failed + 1,
            exceptions |-> IF error'[w] = "none" THEN outcome[caller[w]].exceptions
                           ELSE outcome[caller[w]].exceptions + 1]
    BY <2>1, <2>3, <2>5
  <2> QED
    BY <1>1, <2>3, <2>4, <2>5, <2>6, BodyOverKeeps
<1> QED
  BY <1>3, <1>4 DEF BodyEnds

\* Assertions are none of the call's business.
LEMMA CountingKeeps ==
  ASSUME RunInv, TypeOK',
         UNCHANGED <<pc, caller, ok, error, threads, workers, m_remaining, m_open, merged, result,
                     outcome>>
  PROVE  RunInv'
<1>1. Regions' /\ \A t \in Threads : Of(t)' = Of(t)
  BY RegionsKept DEF RunInv, InCall
<1>2. Gate'
  BY GateKept DEF RunInv, InCall, HasArrived
<1>3. Ends'
  BY <1>1, EndsKept DEF RunInv, InCall
<1> QED
  BY <1>1, <1>2, <1>3 DEF RunInv

\* What is counted stays a triple of natural numbers.
LEMMA CountsType ==
  ASSUME NEW c \in Counts, NEW n \in Nat, NEW k \in Nat
  PROVE  /\ [c EXCEPT !.success = @ + n, !.failed = @ + k] \in Counts
         /\ [c EXCEPT !.failed = @ + n, !.logs = @ + k] \in Counts
         /\ [c EXCEPT !.success = @ + n] \in Counts
         /\ [c EXCEPT !.logs = @ + n] \in Counts
<1>1. c.success \in Nat /\ c.failed \in Nat /\ c.logs \in Nat
  BY DEF Counts
<1>2. \A a, b \in Nat : /\ [c EXCEPT !.success = a, !.failed = b] \in Counts
                        /\ [c EXCEPT !.failed = a, !.logs = b] \in Counts
                        /\ [c EXCEPT !.success = a] \in Counts
                        /\ [c EXCEPT !.logs = a] \in Counts
  BY DEF Counts
<1>3. /\ c.success + n \in Nat /\ c.failed + n \in Nat
      /\ c.failed + k \in Nat /\ c.logs + k \in Nat /\ c.logs + n \in Nat
  BY <1>1
<1> QED
  BY <1>2, <1>3

LEMMA CheckFailsKeeps ==
  ASSUME RunInv, NEW w \in Workers, CheckFails(w)
  PROVE  RunInv'
<1> USE ThreadsAssumption DEF At, Goto, Threads, workerVars, regionVars, history
<1> DEFINE r == outcome[caller[w]]
<1>1. /\ pc[w] = "body" /\ ok[w] /\ error[w] = "none"
      /\ caller[w] \in Threads /\ r \in Results
      /\ r.failed \in Nat /\ r.exceptions \in Nat
  BY CallerInCall, CountResult DEF RunInv, Ends, EndsAt, CheckFails, TypeOK
<1>2. tally' \in [Workers -> Counts] /\ asserted' \in Counts
  <2>1. tally[w] \in Counts /\ asserted \in Counts
    BY DEF RunInv, TypeOK
  <2>2. /\ [tally[w] EXCEPT !.failed = @ + 1, !.logs = @ + 1] \in Counts
        /\ [asserted EXCEPT !.failed = @ + 1, !.logs = @ + 1] \in Counts
    BY <2>1, CountsType
  <2>3. tally' = [tally EXCEPT ![w] = [tally[w] EXCEPT !.failed = @ + 1, !.logs = @ + 1]]
    BY DEF CheckFails, RunInv, TypeOK
  <2> QED
    BY <2>2, <2>3 DEF CheckFails, RunInv, TypeOK
<1>3. CASE ~stop
  <2>1. TypeOK'
    BY <1>2, <1>3 DEF CheckFails, RunInv, TypeOK
  <2> QED
    BY <1>3, <2>1, CountingKeeps DEF CheckFails
<1>4. CASE stop
  <2>1. /\ error' = [error EXCEPT ![w] = "none"] /\ BodyReturns(w, FALSE)
    BY <1>1, <1>4 DEF CheckFails, BodyReturns, RunInv, TypeOK
  <2>2. /\ outcome' = [outcome EXCEPT ![caller[w]] = [r EXCEPT !.failed = r.failed + 1]]
        /\ [r EXCEPT !.failed = r.failed + 1]
              = [failed |-> r.failed + 1, exceptions |-> r.exceptions]
        /\ [failed |-> r.failed + 1, exceptions |-> r.exceptions] \in Results
    BY <1>1, <2>1, CountResult DEF BodyReturns, Results
  <2>3. /\ outcome' \in [Threads -> Results]
        /\ outcome'[caller[w]] = [failed |-> r.failed + 1, exceptions |-> r.exceptions]
        /\ \A u \in Threads \ {caller[w]} : outcome'[u] = outcome[u]
    BY <1>1, <2>2 DEF RunInv, TypeOK
  <2>4. TypeOK'
    BY <1>1, <1>2, <2>1, <2>3 DEF RunInv, TypeOK, CheckFails, BodyReturns, Labels
  <2>5. /\ ~ok'[w] /\ error'[w] = "none"
        /\ \A u \in Workers \ {w} : ok'[u] = ok[u] /\ error'[u] = error[u]
        /\ Goto(w, "unbind")
        /\ UNCHANGED <<caller, threads, workers, m_remaining, m_open, merged, result>>
    BY <1>1, <2>1 DEF BodyReturns, CheckFails, RunInv, TypeOK
  <2>6. outcome'[caller[w]] =
           [failed     |-> IF ok'[w] THEN outcome[caller[w]].failed
                           ELSE outcome[caller[w]].failed + 1,
            exceptions |-> IF error'[w] = "none" THEN outcome[caller[w]].exceptions
                           ELSE outcome[caller[w]].exceptions + 1]
    BY <2>3, <2>5
  <2> QED
    BY <1>1, <2>3, <2>4, <2>5, <2>6, BodyOverKeeps
<1> QED
  BY <1>3, <1>4

-----------------------------------------------------------------------------
(* The steps of run. *)

LEMMA AddResultsType ==
  ASSUME TypeOK, NEW t \in Threads, NEW n \in Nat, NEW k \in Nat, AddResults(t, n, k)
  PROVE  tally' \in [Workers -> Counts] /\ root' \in Counts
<1>1. \A c \in Counts : CountedIn(c, n, k) \in Counts
  BY CountsType DEF CountedIn
<1>2. CASE bound[t]
  <2>1. tally' = [tally EXCEPT ![t] = CountedIn(@, n, k)] /\ root' = root
    BY <1>2 DEF AddResults
  <2> QED
    BY <1>1, <2>1 DEF TypeOK
<1>3. CASE ~bound[t]
  BY <1>1, <1>3 DEF AddResults, TypeOK
<1> QED
  BY <1>2, <1>3

LEMMA CheckPassesKeeps ==
  ASSUME RunInv, NEW t \in Threads, CheckPasses(t)
  PROVE  RunInv'
<1> USE DEF workerVars, regionVars, history
<1>1. tally' \in [Workers -> Counts] /\ root' \in Counts
  BY AddResultsType DEF CheckPasses, RunInv
<1>2. asserted' \in Counts
  BY CountsType DEF CheckPasses, RunInv, TypeOK
<1>3. TypeOK'
  BY <1>1, <1>2 DEF CheckPasses, RunInv, TypeOK
<1> QED
  BY <1>3, CountingKeeps DEF CheckPasses

LEMMA SpawnFailsKeeps ==
  ASSUME RunInv, NEW t \in Threads, SpawnFails(t)
  PROVE  RunInv'
<1> USE ThreadsAssumption DEF At, Goto, Threads, workerVars, regionVars, history
<1>1. CASE ~(workers[t] = <<>> /\ t \in Workers)
  <2>1. TypeOK'
    BY <1>1 DEF SpawnFails, RunInv, TypeOK
  <2> QED
    BY <1>1, <2>1, CountingKeeps DEF SpawnFails
<1>2. CASE workers[t] = <<>> /\ t \in Workers
  <2> DEFINE r == outcome[caller[t]]
  <2>1. /\ pc[t] = "spawn" /\ ok[t] /\ error[t] = "none"
        /\ caller[t] \in Threads /\ r \in Results
        /\ r.failed \in Nat /\ r.exceptions \in Nat
    BY <1>2, CallerInCall, CountResult DEF RunInv, Ends, EndsAt, SpawnFails, TypeOK
  <2>2. /\ outcome' = [outcome EXCEPT ![caller[t]] = [r EXCEPT !.exceptions = r.exceptions + 1]]
        /\ [r EXCEPT !.exceptions = r.exceptions + 1]
              = [failed |-> r.failed, exceptions |-> r.exceptions + 1]
        /\ [failed |-> r.failed, exceptions |-> r.exceptions + 1] \in Results
    BY <1>2, <2>1, CountResult DEF SpawnFails, Results
  <2>3. /\ outcome' \in [Threads -> Results]
        /\ outcome'[caller[t]] = [failed |-> r.failed, exceptions |-> r.exceptions + 1]
        /\ \A u \in Threads \ {caller[t]} : outcome'[u] = outcome[u]
    BY <2>1, <2>2 DEF RunInv, TypeOK
  <2>4. TypeOK'
    BY <1>2, <2>1, <2>3 DEF RunInv, TypeOK, SpawnFails, Labels
  <2>5. /\ ok'[t] /\ error'[t] = "message"
        /\ \A u \in Workers \ {t} : ok'[u] = ok[u] /\ error'[u] = error[u]
        /\ Goto(t, "unbind")
        /\ UNCHANGED <<caller, threads, workers, m_remaining, m_open, merged, result>>
    BY <1>2, <2>1 DEF SpawnFails, RunInv, TypeOK
  <2>6. outcome'[caller[t]] =
           [failed     |-> IF ok'[t] THEN outcome[caller[t]].failed
                           ELSE outcome[caller[t]].failed + 1,
            exceptions |-> IF error'[t] = "none" THEN outcome[caller[t]].exceptions
                           ELSE outcome[caller[t]].exceptions + 1]
    BY <2>3, <2>5
  <2> QED
    BY <1>2, <2>1, <2>3, <2>4, <2>5, <2>6, BodyOverKeeps
<1> QED
  BY <1>1, <1>2

\* The test case is over: Main was in no call.
LEMMA FinishKeeps ==
  ASSUME RunInv, Finish
  PROVE  RunInv'
<1> USE ThreadsAssumption DEF At, Goto, Threads, Finish, workerVars, regionVars, history
<1>1. TypeOK'
  BY DEF RunInv, TypeOK, Labels
<1>2. pc' = [pc EXCEPT ![Main] = "done"] /\ pc[Main] = "body" /\ pc \in [Threads -> Labels]
  BY DEF RunInv, TypeOK
<1>3. Regions' /\ \A t \in Threads : Of(t)' = Of(t)
  BY <1>2, RegionsKept DEF RunInv, InCall
<1>4. Gate'
  BY <1>2, GateKept DEF RunInv, InCall, HasArrived, Started
<1>5. Ends'
  BY <1>2, <1>3, EndsKept DEF RunInv, InCall
<1> QED
  BY <1>1, <1>3, <1>4, <1>5 DEF RunInv

LEMMA RangeAppend ==
  ASSUME NEW S, NEW s \in Seq(S), NEW x
  PROVE  /\ Range(Append(s, x)) = Range(s) \union {x}
         /\ Range(<<>>) = {}
<1>1. /\ DOMAIN s = 1..Len(s) /\ Len(s) \in Nat
      /\ DOMAIN Append(s, x) = 1..Len(s) + 1
      /\ \A i \in 1..Len(s) : Append(s, x)[i] = s[i]
      /\ Append(s, x)[Len(s) + 1] = x
  OBVIOUS
<1>2. 1..Len(s) + 1 = (1..Len(s)) \union {Len(s) + 1}
  BY <1>1
<1> QED
  BY <1>1, <1>2 DEF Range

\* The worker that is started joins the workers of its caller's call.
LEMMA SpawnKeeps ==
  ASSUME RunInv, NEW t \in Threads, Spawn(t)
  PROVE  RunInv'
<1> USE ThreadsAssumption DEF At, Goto, Threads, workerVars, regionVars, history
<1>1. PICK w \in Unborn :
       /\ workers' = [workers EXCEPT ![t] = Append(@, w)]
       /\ caller' = [caller EXCEPT ![w] = t]
       /\ tally' = [tally EXCEPT ![w] = NoCounts]
       /\ ok' = [ok EXCEPT ![w] = TRUE]
       /\ error' = [error EXCEPT ![w] = "none"]
       /\ pc' = [pc EXCEPT ![w] = "bind",
                           ![t] = IF Len(workers'[t]) = threads[t] THEN "join" ELSE @]
  BY DEF Spawn
<1>2. /\ UNCHANGED <<stop, bound, threads, m_remaining, m_open, merged, result, root,
                     terminated, asserted, outcome, runs>>
      /\ pc[t] = "spawn" /\ pc \in [Threads -> Labels] /\ workers[t] \in Seq(Workers)
      /\ w \in Workers /\ pc[w] = "unborn" /\ w # t
  BY DEF Spawn, Unborn, RunInv, TypeOK
<1>3. workers'[t] = Append(workers[t], w) /\ \A u \in Threads \ {t} : workers'[u] = workers[u]
  BY <1>1 DEF RunInv, TypeOK
<1>4. /\ pc'[w] = "bind"
      /\ pc'[t] = IF Len(workers[t]) + 1 = threads[t] THEN "join" ELSE "spawn"
      /\ \A u \in Threads \ {t, w} : pc'[u] = pc[u]
  BY <1>1, <1>2, <1>3
<1>5. TypeOK'
  <2>1. NoCounts \in Counts
    BY DEF NoCounts, Counts
  <2>2. pc' \in [Threads -> Labels]
    BY <1>1, <1>2 DEF Labels
  <2>3. workers' \in [Threads -> Seq(Workers)]
    BY <1>1, <1>2 DEF RunInv, TypeOK
  <2> QED
    BY <1>1, <1>2, <2>1, <2>2, <2>3 DEF RunInv, TypeOK
<1>6. caller'[w] = t /\ \A u \in Workers \ {w} : caller'[u] = caller[u]
  BY <1>1, <1>2 DEF RunInv, TypeOK
<1>7. /\ Of(t)' = Of(t) \union {w} /\ w \notin Of(t)
      /\ \A u \in Threads \ {t} : Of(u)' = Of(u)
  <2>1. \A v \in Workers \ {w} : pc'[v] # "unborn" <=> pc[v] # "unborn"
    BY <1>2, <1>4
  <2> QED
    BY <1>2, <1>4, <1>6, <2>1 DEF Of
<1>8. \A u \in Threads : InCall(u)' <=> InCall(u)
  BY <1>2, <1>4 DEF InCall
<1>9. Regions'
  <2>1. /\ Of(t) = Range(workers[t])
        /\ \A i, j \in DOMAIN workers[t] : workers[t][i] = workers[t][j] => i = j
        /\ Cardinality(Of(t)) = Len(workers[t])
        /\ Len(workers[t]) < threads[t] /\ threads[t] \in Nat
    BY <1>2 DEF RunInv, Regions, TypeOK
  <2>2. Of(t)' = Range(workers[t])'
    BY <1>2, <1>3, <1>7, <2>1, RangeAppend
  <2>3. \A i, j \in DOMAIN workers'[t] : workers'[t][i] = workers'[t][j] => i = j
    <3>1. \A i \in DOMAIN workers[t] : workers[t][i] # w
      BY <1>7, <2>1 DEF Range
    <3> QED
      BY <1>2, <1>3, <2>1, <3>1
  <2>4. Cardinality(Of(t)') = Len(workers'[t])
    <3>1. Cardinality(Of(t) \union {w}) = Cardinality(Of(t)) + 1
      BY <1>7, OfFinite, FS_AddElement
    <3> QED
      BY <1>2, <1>3, <1>7, <2>1, <3>1
  <2>5. /\ pc'[t] = "spawn" => Len(workers'[t]) < threads'[t]
        /\ pc'[t] \in {"join", "merge", "logging"} => Len(workers'[t]) = threads'[t]
        /\ InCall(t)'
    <3>1. Len(workers'[t]) = Len(workers[t]) + 1
      BY <1>2, <1>3
    <3>2. Len(workers[t]) \in Nat
      BY <1>2
    <3> QED
      BY <1>2, <1>4, <1>8, <2>1, <3>1, <3>2 DEF InCall
  <2>6. ASSUME NEW u \in Threads, u # t
        PROVE  /\ Of(u)' = Range(workers[u])'
               /\ \A i, j \in DOMAIN workers'[u] : workers'[u][i] = workers'[u][j] => i = j
               /\ Cardinality(Of(u)') = Len(workers'[u])
               /\ ~InCall(u)' => workers'[u] = <<>>
               /\ pc'[u] = "spawn" => Len(workers'[u]) < threads'[u]
               /\ pc'[u] \in {"join", "merge", "logging"} => Len(workers'[u]) = threads'[u]
    <3>1. /\ Of(u)' = Of(u) /\ workers'[u] = workers[u] /\ (InCall(u)' <=> InCall(u))
          /\ threads' = threads
          /\ pc'[u] = pc[u] \/ (pc'[u] = "bind" /\ pc[u] = "unborn")
      BY <1>2, <1>3, <1>4, <1>7, <1>8, <2>6
    <3> QED
      BY <3>1 DEF RunInv, Regions
  <2> QED
    BY <2>2, <2>3, <2>4, <2>5, <2>6 DEF Regions
<1>10. Gate'
  <2>1. \A v \in Workers : HasArrived(v)' <=> HasArrived(v)
    BY <1>2, <1>4 DEF HasArrived, Started
  <2>2. \A u \in Threads : Arrived(u)' = Arrived(u)
    <3>1. ~HasArrived(w)'
      BY <1>4 DEF HasArrived, Started
    <3>2. \A u \in Threads : Arrived(u) \subseteq Workers
      BY DEF Arrived, Of
    <3> QED
      BY <1>7, <2>1, <3>1, <3>2 DEF Arrived, Of
  <2>3. \A v \in Workers : /\ pc'[v] # "unborn" => caller'[v] \in Threads
                           /\ pc'[v] \in Started => pc[v] \in Started /\ v # w
    BY <1>2, <1>4, <1>6 DEF RunInv, Gate, Started
  <2> QED
    <3>1. ASSUME NEW v \in Workers, pc'[v] \in Started
          PROVE  m_open'[caller'[v]]
      <4>1. pc[v] \in Started /\ caller'[v] = caller[v]
        BY <1>6, <2>3, <3>1
      <4>2. m_open[caller[v]]
        BY <4>1 DEF RunInv, Gate
      <4> QED
        BY <1>2, <4>1, <4>2
    <3>2. \A u \in Threads : InCall(u)' =>
            /\ m_remaining'[u] + Cardinality(Arrived(u)') = threads'[u]
            /\ m_open'[u] => m_remaining'[u] = 0
      BY <1>2, <1>8, <2>2 DEF RunInv, Gate
    <3> QED
      BY <2>3, <3>1, <3>2 DEF Gate
<1>11. ASSUME NEW v \in Workers, pc'[v] \notin {"unborn", "unbind", "ended"}
       PROVE  ok'[v] /\ error'[v] = "none"
  BY <1>1, <1>2, <1>4, <1>11 DEF RunInv, Ends, TypeOK
<1>12. ASSUME NEW u \in Threads, u # t PROVE EndsAt(u)'
  <2>1. Of(u) \subseteq Workers \ {w}
    BY <1>2 DEF Of
  <2>2. \A v \in Of(u) : /\ ok'[v] = ok[v] /\ error'[v] = error[v]
                         /\ pc[v] = "ended" => pc'[v] = "ended"
    BY <1>1, <1>2, <1>4, <2>1 DEF RunInv, TypeOK, Labels
  <2>3. pc'[u] = pc[u] \/ (~InCall(u) /\ ~InCall(u)')
    BY <1>2, <1>4, <1>12 DEF InCall
  <2> QED
    BY <1>2, <1>3, <1>7, <1>12, <2>2, <2>3, EndsAtKept DEF RunInv, Ends
<1>13. EndsAt(t)'
  <2>1. Failed(Of(t))' = Failed(Of(t)) /\ Threw(Of(t))' = Threw(Of(t))
    <3>1. ok'[w] /\ error'[w] = "none"
      BY <1>1, <1>2 DEF RunInv, TypeOK
    <3>2. \A v \in Of(t) : ok'[v] = ok[v] /\ error'[v] = error[v] /\ v # w
      BY <1>1, <1>7 DEF RunInv, TypeOK, Of
    <3> QED
      BY <1>7, <3>1, <3>2 DEF Failed, Threw
  <2>2. /\ outcome[t] = [failed     |-> Cardinality(Failed(Of(t))),
                         exceptions |-> Cardinality(Threw(Of(t)))]
        /\ merged[t] = 0 /\ result[t] = NoResult
    BY <1>2 DEF RunInv, Ends, EndsAt, InCall
  <2>3. pc'[t] \in {"spawn", "join"} /\ InCall(t)'
    BY <1>4 DEF InCall
  <2> QED
    BY <1>2, <2>1, <2>2, <2>3 DEF EndsAt, NoResult
<1> QED
  BY <1>5, <1>9, <1>10, <1>11, <1>12, <1>13 DEF RunInv, Ends

\* Once they are all joined nothing is merged yet.
LEMMA JoinKeeps ==
  ASSUME RunInv, NEW t \in Threads, Join(t)
  PROVE  RunInv'
<1> USE ThreadsAssumption DEF At, Goto, Threads, Join, workerVars, regionVars, history
<1>1. TypeOK'
  BY DEF RunInv, TypeOK, Labels
<1>2. /\ pc[t] = "join" /\ pc' = [pc EXCEPT ![t] = "merge"] /\ pc \in [Threads -> Labels]
      /\ workers[t] \in Seq(Workers)
  BY DEF RunInv, TypeOK
<1>3. Regions' /\ \A u \in Threads : Of(u)' = Of(u)
  BY <1>2, RegionsKept DEF RunInv, InCall
<1>4. Gate'
  BY <1>2, GateKept DEF RunInv, InCall, HasArrived, Started
<1>5. ASSUME NEW u \in Threads, u # t PROVE EndsAt(u)'
  <2>1. \A v \in Of(u) : pc[v] = "ended" => pc'[v] = "ended"
    BY <1>2
  <2> QED
    BY <1>2, <1>3, <1>5, <2>1, EndsAtKept DEF RunInv, Ends
<1>6. EndsAt(t)'
  <2>1. \A w \in Of(t) : pc[w] = "ended" /\ w # t
    BY <1>2 DEF RunInv, Regions, Range
  <2>2. Handled(t)' = {}
    <3>1. merged[t] = 0 /\ pc'[t] = "merge"
      BY <1>2 DEF RunInv, Ends, EndsAt
    <3> QED
      BY <3>1 DEF Handled
  <2>3. Failed(Handled(t))' = {} /\ Threw(Handled(t))' = {}
    BY <2>2 DEF Failed, Threw
  <2>4. Failed(Of(t))' = Failed(Of(t)) /\ Threw(Of(t))' = Threw(Of(t))
    BY <1>3 DEF Failed, Threw
  <2>5. /\ outcome[t] = [failed     |-> Cardinality(Failed(Of(t))),
                         exceptions |-> Cardinality(Threw(Of(t)))]
        /\ merged[t] = 0 /\ result[t] = NoResult
    BY <1>2 DEF RunInv, Ends, EndsAt, InCall
  <2>6. result'[t] = [failed     |-> Cardinality(Failed(Handled(t))'),
                      exceptions |-> Cardinality(Threw(Handled(t))')]
    BY <2>3, <2>5, FS_EmptySet DEF NoResult
  <2>7. pc'[t] = "merge" /\ InCall(t)' /\ merged'[t] <= Len(workers'[t])
    BY <1>2, <2>5 DEF InCall
  <2>8. \A w \in Of(t)' : pc'[w] = "ended"
    BY <1>2, <1>3, <2>1
  <2> QED
    BY <2>4, <2>5, <2>6, <2>7, <2>8 DEF EndsAt
<1>7. \A w \in Workers : pc'[w] \notin {"unborn", "unbind", "ended"}
                          => ok'[w] /\ error'[w] = "none"
  BY <1>2 DEF RunInv, Ends
<1> QED
  BY <1>1, <1>3, <1>4, <1>5, <1>6, <1>7 DEF RunInv, Ends

\* A call starts with nobody, or, with no threads to start, is over at once.
LEMMA RunKeeps ==
  ASSUME RunInv, NEW t \in Threads, NEW n \in Nat, Run(t, n)
  PROVE  RunInv'
<1> USE ThreadsAssumption DEF At, Goto, Threads, Run, Expected, workerVars, regionVars, history
<1>1. /\ pc[t] = "body" /\ pc \in [Threads -> Labels]
      /\ IF n = 0 THEN pc' = pc ELSE pc' = [pc EXCEPT ![t] = "spawn"]
      /\ workers[t] = <<>> /\ Of(t) = {}
  <2>1. pc[t] = "body" /\ pc \in [Threads -> Labels]
    BY DEF RunInv, TypeOK
  <2>2. workers[t] = <<>> /\ Of(t) = Range(workers[t])
    BY <2>1 DEF RunInv, Regions, InCall
  <2> QED
    BY <2>1, <2>2 DEF Range
<1>2. TypeOK'
  <2>1. NoResult \in Results
    BY DEF NoResult, Results
  <2>2. <<>> \in Seq(Workers)
    OBVIOUS
  <2>3. pc' \in [Threads -> Labels]
    BY <1>1 DEF Labels
  <2> QED
    BY <2>1, <2>2, <2>3 DEF RunInv, TypeOK
<1>3. /\ workers'[t] = <<>> /\ threads'[t] = n /\ m_remaining'[t] = n /\ ~m_open'[t]
      /\ merged'[t] = 0 /\ result'[t] = NoResult /\ outcome'[t] = NoResult
      /\ pc'[t] = IF n = 0 THEN "body" ELSE "spawn"
  BY <1>1 DEF RunInv, TypeOK
<1>4. \A u \in Threads \ {t} :
        /\ workers'[u] = workers[u] /\ threads'[u] = threads[u]
        /\ m_remaining'[u] = m_remaining[u] /\ m_open'[u] = m_open[u]
        /\ merged'[u] = merged[u] /\ result'[u] = result[u] /\ outcome'[u] = outcome[u]
        /\ pc'[u] = pc[u]
  BY <1>1 DEF RunInv, TypeOK
<1>5. \A u \in Threads : Of(u)' = Of(u)
  BY <1>1 DEF Of
<1>6. \A w \in Workers : HasArrived(w)' <=> HasArrived(w)
  BY <1>1 DEF HasArrived, Started
<1>7. Regions'
  <2>1. /\ Of(t)' = Range(workers[t])' /\ Cardinality(Of(t)') = Len(workers'[t])
        /\ \A i, j \in DOMAIN workers'[t] : workers'[t][i] = workers'[t][j] => i = j
    <3>1. Range(<<>>) = {} /\ Len(<<>>) = 0 /\ DOMAIN <<>> = {}
      BY DEF Range
    <3>2. Range(workers[t])' = {}
      BY <1>3 DEF Range
    <3> QED
      BY <1>1, <1>3, <1>5, <3>1, <3>2, FS_EmptySet
  <2>2. /\ ~InCall(t)' => workers'[t] = <<>>
        /\ pc'[t] = "spawn" => Len(workers'[t]) < threads'[t]
        /\ pc'[t] \notin {"join", "merge", "logging"}
    BY <1>3 DEF InCall
  <2>3. ASSUME NEW u \in Threads, u # t
        PROVE  /\ Of(u)' = Range(workers[u])'
               /\ \A i, j \in DOMAIN workers'[u] : workers'[u][i] = workers'[u][j] => i = j
               /\ Cardinality(Of(u)') = Len(workers'[u])
               /\ ~InCall(u)' => workers'[u] = <<>>
               /\ pc'[u] = "spawn" => Len(workers'[u]) < threads'[u]
               /\ pc'[u] \in {"join", "merge", "logging"} => Len(workers'[u]) = threads'[u]
    BY <1>4, <1>5, <2>3 DEF RunInv, Regions, InCall
  <2> QED
    BY <2>1, <2>2, <2>3 DEF Regions
<1>8. Gate'
  <2>1. \A u \in Threads : Arrived(u)' = Arrived(u)
    BY <1>5, <1>6 DEF Arrived, Of
  <2>2. ASSUME NEW u \in Threads, InCall(u)'
        PROVE  /\ m_remaining'[u] + Cardinality(Arrived(u)') = threads'[u]
               /\ m_open'[u] => m_remaining'[u] = 0
    <3>1. CASE u = t
      <4>1. Arrived(t) = {}
        BY <1>1 DEF Arrived
      <4>2. Cardinality(Arrived(t)') = 0
        BY <2>1, <4>1, FS_EmptySet
      <4>3. m_remaining'[t] + 0 = threads'[t] /\ ~m_open'[t]
        BY <1>3
      <4> QED
        BY <3>1, <4>2, <4>3
    <3>2. CASE u # t
      BY <1>4, <2>1, <2>2, <3>2 DEF RunInv, Gate, InCall
    <3> QED
      BY <3>1, <3>2
  <2>3. ASSUME NEW w \in Workers
        PROVE  /\ pc'[w] # "unborn" => caller'[w] \in Threads
               /\ pc'[w] \in Started => m_open'[caller'[w]]
    <3>1. /\ pc'[w] # "unborn" => pc[w] # "unborn"
          /\ pc'[w] \in Started => pc[w] \in Started
      BY <1>1 DEF Started
    <3>2. pc[w] # "unborn" => caller[w] \in Threads \ {t}
      BY <1>1 DEF RunInv, Gate, Of
    <3> QED
      BY <1>4, <3>1, <3>2 DEF RunInv, Gate, Started
  <2> QED
    BY <2>2, <2>3 DEF Gate
<1>9. \A w \in Workers : pc'[w] \notin {"unborn", "unbind", "ended"}
                          => ok'[w] /\ error'[w] = "none"
  BY <1>1 DEF RunInv, Ends
<1>10. EndsAt(t)'
  <2>1. Failed(Of(t))' = {} /\ Threw(Of(t))' = {}
    BY <1>1, <1>5 DEF Failed, Threw
  <2>2. outcome'[t] = [failed     |-> Cardinality(Failed(Of(t))'),
                       exceptions |-> Cardinality(Threw(Of(t))')]
    BY <1>3, <2>1, FS_EmptySet DEF NoResult
  <2> QED
    BY <1>3, <2>2 DEF EndsAt, NoResult
<1>11. ASSUME NEW u \in Threads, u # t PROVE EndsAt(u)'
  <2>1. \A v \in Of(u) : pc[v] = "ended" => pc'[v] = "ended"
    BY <1>1, <1>4 DEF Of
  <2> QED
    BY <1>4, <1>5, <1>11, <2>1, EndsAtKept DEF RunInv, Ends
<1> QED
  BY <1>2, <1>7, <1>8, <1>9, <1>10, <1>11 DEF RunInv, Ends

\* When every worker is handled, the result is what the bodies said.
LEMMA ReturnKeeps ==
  ASSUME RunInv, NEW t \in Threads, Return(t)
  PROVE  RunInv'
<1> USE ThreadsAssumption DEF At, Goto, Threads, Return, workerVars, regionVars, history
<1>1. /\ pc[t] = "merge" /\ merged[t] = Len(workers[t]) /\ pc \in [Threads -> Labels]
      /\ workers[t] \in Seq(Workers) /\ Of(t) = Range(workers[t])
      /\ \A w \in Of(t) : pc[w] = "ended" /\ w # t
  BY DEF RunInv, TypeOK, Regions, Ends, EndsAt
<1>2. /\ pc'[t] = "body"
      /\ \A u \in Of(t) : pc'[u] = "unborn"
      /\ \A u \in Threads : u # t /\ u \notin Of(t) => pc'[u] = pc[u]
      /\ pc' \in [Threads -> Labels]
  <2>1. \A w \in Of(t) : w \in Workers
    BY DEF Of
  <2> QED
    BY <1>1, <2>1 DEF Labels
<1>3. workers'[t] = <<>> /\ \A u \in Threads \ {t} : workers'[u] = workers[u]
  BY DEF RunInv, TypeOK
<1>4. TypeOK'
  <2>1. workers' \in [Threads -> Seq(Workers)]
    BY DEF RunInv, TypeOK
  <2> QED
    BY <1>2, <2>1 DEF RunInv, TypeOK
<1>5. Of(t)' = {} /\ \A u \in Threads \ {t} : Of(u)' = Of(u)
  <2>1. \A w \in Workers : w \notin Of(t) => (pc'[w] # "unborn" <=> pc[w] # "unborn")
    BY <1>1, <1>2
  <2> QED
    BY <1>2, <2>1 DEF Of
<1>6. \A u \in Threads \ {t} : (InCall(u)' <=> InCall(u)) /\ (InCall(u) => pc'[u] = pc[u])
  BY <1>1, <1>2 DEF InCall
<1>7. Regions'
  <2>1. /\ Of(t)' = Range(workers[t])' /\ Cardinality(Of(t)') = Len(workers'[t])
        /\ \A i, j \in DOMAIN workers'[t] : workers'[t][i] = workers'[t][j] => i = j
    <3>1. Len(<<>>) = 0 /\ DOMAIN <<>> = {}
      OBVIOUS
    <3>2. Range(workers[t])' = {}
      BY <1>3 DEF Range
    <3> QED
      BY <1>3, <1>5, <3>1, <3>2, FS_EmptySet
  <2>2. ASSUME NEW u \in Threads, u # t
        PROVE  /\ Of(u)' = Range(workers[u])'
               /\ \A i, j \in DOMAIN workers'[u] : workers'[u][i] = workers'[u][j] => i = j
               /\ Cardinality(Of(u)') = Len(workers'[u])
               /\ ~InCall(u)' => workers'[u] = <<>>
               /\ pc'[u] = "spawn" => Len(workers'[u]) < threads'[u]
               /\ pc'[u] \in {"join", "merge", "logging"} => Len(workers'[u]) = threads'[u]
    <3>1. /\ pc'[u] = "spawn" => pc[u] = "spawn"
          /\ pc'[u] \in {"join", "merge", "logging"} => pc[u] \in {"join", "merge", "logging"}
      BY <1>1, <1>2, <2>2
    <3>2. Of(u)' = Of(u) /\ workers'[u] = workers[u] /\ threads'[u] = threads[u]
      BY <1>3, <1>5, <2>2
    <3>3. ~InCall(u)' => ~InCall(u)
      BY <1>6, <2>2
    <3>4. Range(workers[u])' = Range(workers[u])
      BY <3>2 DEF Range
    <3> QED
      BY <3>1, <3>2, <3>3, <3>4 DEF RunInv, Regions
  <2>3. /\ Of(t)' = Range(workers[t])'
        /\ \A i, j \in DOMAIN workers'[t] : workers'[t][i] = workers'[t][j] => i = j
        /\ Cardinality(Of(t)') = Len(workers'[t])
        /\ ~InCall(t)' => workers'[t] = <<>>
        /\ pc'[t] = "spawn" => Len(workers'[t]) < threads'[t]
        /\ pc'[t] \in {"join", "merge", "logging"} => Len(workers'[t]) = threads'[t]
    BY <1>2, <1>3, <2>1
  <2> HIDE DEF Threads
  <2> QED
    BY <2>2, <2>3 DEF Regions
<1>8. Gate'
  <2>1. \A u \in Threads \ {t} : Arrived(u)' = Arrived(u)
    <3>1. \A w \in Workers : w \notin Of(t) => (HasArrived(w)' <=> HasArrived(w))
      BY <1>1, <1>2 DEF HasArrived, Started
    <3>2. \A u \in Threads \ {t} : Of(u) \subseteq Workers \ Of(t)
      BY DEF Of
    <3> QED
      BY <1>5, <3>1, <3>2 DEF Arrived
  <2>2. \A w \in Workers : /\ pc'[w] # "unborn" => pc[w] # "unborn"
                           /\ pc'[w] \in Started => pc[w] \in Started
    BY <1>1, <1>2 DEF Started
  <2>3. ~InCall(t)'
    BY <1>2 DEF InCall
  <2> QED
    BY <1>6, <2>1, <2>2, <2>3 DEF RunInv, Gate
<1>9. \A w \in Workers : pc'[w] \notin {"unborn", "unbind", "ended"}
                          => ok'[w] /\ error'[w] = "none"
  BY <1>1, <1>2 DEF RunInv, Ends
<1>10. EndsAt(t)'
  <2>1. Handled(t) = Of(t)
    BY <1>1 DEF Handled, Range
  <2>2. AllSpeak => result[t] = outcome[t]
    BY <1>1, <2>1 DEF RunInv, Ends, EndsAt, InCall
  <2>3. ~InCall(t)' /\ pc'[t] = "body"
    BY <1>2 DEF InCall
  <2> QED
    BY <2>2, <2>3 DEF EndsAt
<1>11. ASSUME NEW u \in Threads, u # t PROVE EndsAt(u)'
  <2>1. Of(u) \subseteq Workers \ Of(t)
    BY <1>11 DEF Of
  <2>2. \A v \in Of(u) : pc[v] = "ended" => pc'[v] = "ended"
    BY <1>1, <1>2, <2>1
  <2>3. pc'[u] = pc[u] \/ (~InCall(u) /\ ~InCall(u)')
    BY <1>1, <1>2, <1>11 DEF InCall
  <2> QED
    BY <1>3, <1>5, <1>11, <2>2, <2>3, EndsAtKept DEF RunInv, Ends
<1> QED
  BY <1>4, <1>7, <1>8, <1>9, <1>10, <1>11 DEF RunInv, Ends

\* Merging a worker adds what it left in ok and errors, and nothing else.
LEMMA MergeKeeps ==
  ASSUME RunInv, NEW t \in Threads, Merge(t)
  PROVE  RunInv'
<1> USE ThreadsAssumption, BodiesAssumption
        DEF At, Goto, Threads, workerVars, regionVars, history
<1> DEFINE w == workers[t][merged[t] + 1]
           n == tally[w].success
           k == tally[w].failed
<1>1. /\ pc[t] = "merge" /\ merged[t] < Len(workers[t]) /\ AddResults(t, n, k)
      /\ UNCHANGED <<stop, bound, caller, ok, error, threads, workers, m_remaining, m_open,
                     terminated, asserted, outcome, runs>>
      /\ result' = [result EXCEPT ![t] =
             [failed     |-> IF ok[w] THEN @.failed ELSE @.failed + 1,
              exceptions |-> IF Seen(error[w]) THEN @.exceptions + 1
                             ELSE @.exceptions]]
      /\ IF tally[w].logs > 0
         THEN pc' = [pc EXCEPT ![t] = "logging"] /\ merged' = merged
         ELSE merged' = [merged EXCEPT ![t] = @ + 1] /\ pc' = pc
  BY DEF Merge
<1>2. /\ pc \in [Threads -> Labels] /\ workers[t] \in Seq(Workers) /\ merged \in [Threads -> Nat]
      /\ merged[t] + 1 \in DOMAIN workers[t] /\ w \in Workers
      /\ error[w] \in {"none"} \union Thrown \union {"message"}
      /\ tally[w] \in Counts /\ result[t] \in Results
  <2>1. /\ pc \in [Threads -> Labels] /\ workers[t] \in Seq(Workers)
        /\ merged \in [Threads -> Nat] /\ result[t] \in Results
    BY DEF RunInv, TypeOK
  <2>2. merged[t] + 1 \in DOMAIN workers[t] /\ w \in Workers
    BY <1>1, <2>1
  <2> QED
    BY <2>1, <2>2 DEF RunInv, TypeOK
<1>3. AllSpeak => (Seen(error[w]) <=> error[w] # "none")
  BY <1>2 DEF Seen, AllSpeak
<1>4. TypeOK'
  <2>1. n \in Nat /\ k \in Nat
    BY <1>2 DEF Counts
  <2>2. tally' \in [Workers -> Counts] /\ root' \in Counts
    BY <1>1, <2>1, AddResultsType DEF RunInv
  <2>3. result' \in [Threads -> Results]
    <3>1. result[t].failed \in Nat /\ result[t].exceptions \in Nat
      BY <1>2 DEF Results
    <3>2. [failed     |-> IF ok[w] THEN result[t].failed ELSE result[t].failed + 1,
           exceptions |-> IF Seen(error[w]) THEN result[t].exceptions + 1
                          ELSE result[t].exceptions] \in Results
      BY <3>1 DEF Results
    <3> QED
      BY <1>1, <3>2 DEF RunInv, TypeOK
  <2>4. pc' \in [Threads -> Labels] /\ merged' \in [Threads -> Nat]
    <3>1. pc' = [pc EXCEPT ![t] = "logging"] \/ pc' = pc
      BY <1>1
    <3>2. merged' = [merged EXCEPT ![t] = @ + 1] \/ merged' = merged
      BY <1>1
    <3> HIDE DEF Threads
    <3> QED
      BY <1>2, <3>1, <3>2 DEF Labels
  <2> QED
    BY <1>1, <2>2, <2>3, <2>4 DEF RunInv, TypeOK
<1>5. \A u \in Threads \ {t} : pc'[u] = pc[u] /\ merged'[u] = merged[u] /\ result'[u] = result[u]
  BY <1>1, <1>2 DEF RunInv, TypeOK
<1>6. \/ pc'[t] = "logging" /\ merged'[t] = merged[t]
      \/ pc'[t] = "merge" /\ merged'[t] = merged[t] + 1
  BY <1>1, <1>2
<1>7. /\ \A u \in Workers : pc'[u] = "unborn" <=> pc[u] = "unborn"
      /\ \A u \in Threads : InCall(u)' <=> InCall(u)
      /\ \A u \in Threads : pc'[u] = "spawn" <=> pc[u] = "spawn"
      /\ \A u \in Workers : HasArrived(u)' <=> HasArrived(u)
      /\ \A u \in Workers : pc'[u] \in Started => pc[u] \in Started
  BY <1>1, <1>5, <1>6 DEF InCall, HasArrived, Started
<1>8. Regions' /\ \A u \in Threads : Of(u)' = Of(u)
  BY <1>1, <1>7, RegionsKept DEF RunInv
<1>9. Gate'
  BY <1>1, <1>7, GateKept DEF RunInv
<1>10. /\ Handled(t)' = Handled(t) \union {w} /\ w \notin Handled(t)
       /\ Handled(t) \subseteq Workers /\ IsFiniteSet(Handled(t))
  <2>1. Handled(t) = {workers[t][i] : i \in 1..merged[t]}
    BY <1>1 DEF Handled
  <2>2. Handled(t)' = {workers[t][i] : i \in 1..merged[t] + 1}
    BY <1>1, <1>6 DEF Handled
  <2>3. /\ 1..merged[t] + 1 = (1..merged[t]) \union {merged[t] + 1}
        /\ merged[t] + 1 \notin 1..merged[t]
        /\ 1..merged[t] \subseteq DOMAIN workers[t]
    BY <1>1, <1>2
  <2>4. \A i, j \in DOMAIN workers[t] : workers[t][i] = workers[t][j] => i = j
    BY DEF RunInv, Regions
  <2>5. Handled(t) \subseteq Workers
    BY <1>2, <2>1, <2>3
  <2>6. w \notin Handled(t)
    BY <1>2, <2>1, <2>3, <2>4
  <2>7. Handled(t)' = Handled(t) \union {w}
    BY <2>1, <2>2, <2>3
  <2> QED
    BY <2>5, <2>6, <2>7, FS_Subset
<1>11. ASSUME AllSpeak
       PROVE  result'[t] = [failed     |-> Cardinality(Failed(Handled(t))'),
                            exceptions |-> Cardinality(Threw(Handled(t))')]
  <2>1. /\ Failed(Handled(t))' = IF ok[w] THEN Failed(Handled(t))
                                 ELSE Failed(Handled(t)) \union {w}
        /\ Threw(Handled(t))' = IF error[w] = "none" THEN Threw(Handled(t))
                                ELSE Threw(Handled(t)) \union {w}
        /\ w \notin Failed(Handled(t)) /\ w \notin Threw(Handled(t))
    BY <1>1, <1>10 DEF Failed, Threw
  <2>2. IsFiniteSet(Failed(Handled(t))) /\ IsFiniteSet(Threw(Handled(t)))
    <3>1. Failed(Handled(t)) \in SUBSET Handled(t) /\ Threw(Handled(t)) \in SUBSET Handled(t)
      BY DEF Failed, Threw
    <3> QED
      BY <1>10, <3>1, FS_Subset
  <2>3. /\ Cardinality(Failed(Handled(t)) \union {w}) = Cardinality(Failed(Handled(t))) + 1
        /\ Cardinality(Threw(Handled(t)) \union {w}) = Cardinality(Threw(Handled(t))) + 1
    BY <2>1, <2>2, FS_AddElement
  <2>4. result[t] = [failed     |-> Cardinality(Failed(Handled(t))),
                     exceptions |-> Cardinality(Threw(Handled(t)))]
    BY <1>1, <1>11 DEF RunInv, Ends, EndsAt
  <2>5. result'[t] = [failed     |-> IF ok[w] THEN result[t].failed ELSE result[t].failed + 1,
                      exceptions |-> IF error[w] # "none" THEN result[t].exceptions + 1
                                     ELSE result[t].exceptions]
    BY <1>1, <1>3, <1>11 DEF RunInv, TypeOK
  <2> QED
    BY <2>1, <2>3, <2>4, <2>5
<1>12. EndsAt(t)'
  <2>1. Failed(Of(t))' = Failed(Of(t)) /\ Threw(Of(t))' = Threw(Of(t))
    BY <1>1, <1>8 DEF Failed, Threw
  <2>2. outcome[t] = [failed     |-> Cardinality(Failed(Of(t))),
                      exceptions |-> Cardinality(Threw(Of(t)))]
    BY <1>1 DEF RunInv, Ends, EndsAt, InCall
  <2>3. \A v \in Of(t)' : pc'[v] = "ended"
    BY <1>1, <1>5, <1>8 DEF RunInv, Ends, EndsAt, Of
  <2>4. /\ merged'[t] <= Len(workers'[t])
        /\ pc'[t] = "logging" => merged'[t] < Len(workers'[t])
    BY <1>1, <1>2, <1>6
  <2>5. pc'[t] \in {"merge", "logging"} /\ InCall(t)'
    BY <1>6 DEF InCall
  <2> QED
    BY <1>1, <1>11, <2>1, <2>2, <2>3, <2>4, <2>5 DEF EndsAt
<1>13. ASSUME NEW u \in Threads, u # t PROVE EndsAt(u)'
  <2>1. \A v \in Of(u) : pc[v] = "ended" => pc'[v] = "ended"
    BY <1>1, <1>5 DEF Of
  <2> QED
    BY <1>1, <1>5, <1>8, <1>13, <2>1, EndsAtKept DEF RunInv, Ends
<1>14. \A v \in Workers : pc'[v] \notin {"unborn", "unbind", "ended"}
                          => ok'[v] /\ error'[v] = "none"
  BY <1>1, <1>5, <1>6 DEF RunInv, Ends
<1> QED
  BY <1>4, <1>8, <1>9, <1>12, <1>13, <1>14 DEF RunInv, Ends

\* Appending a worker's log lines ends what Merge began.
LEMMA MergeLogsKeeps ==
  ASSUME RunInv, NEW t \in Threads, MergeLogs(t)
  PROVE  RunInv'
<1> USE ThreadsAssumption DEF At, Goto, Threads, workerVars, regionVars, history
<1>1. /\ pc[t] = "logging"
      /\ UNCHANGED <<stop, bound, caller, tally, ok, error, threads, workers, m_remaining, m_open,
                     result, terminated, asserted, outcome, runs>>
      /\ merged' = [merged EXCEPT ![t] = @ + 1] /\ pc' = [pc EXCEPT ![t] = "merge"]
  BY DEF MergeLogs
<1>2. /\ pc \in [Threads -> Labels] /\ workers[t] \in Seq(Workers) /\ merged \in [Threads -> Nat]
      /\ merged[t] < Len(workers[t]) /\ root \in Counts
  BY <1>1 DEF RunInv, TypeOK, Ends, EndsAt
<1>3. root' \in Counts
  <2> DEFINE lines == tally[workers[t][merged[t] + 1]].logs
  <2>1. lines \in Nat
    <3>1. workers[t][merged[t] + 1] \in Workers
      BY <1>2
    <3> QED
      BY <3>1 DEF RunInv, TypeOK, Counts
  <2>2. PICK kept \in Nat : root' = [root EXCEPT !.logs = @ + kept]
    BY <2>1 DEF MergeLogs
  <2> QED
    BY <1>2, <2>2, CountsType
<1>4. TypeOK'
  <2>1. pc' \in [Threads -> Labels] /\ merged' \in [Threads -> Nat]
    BY <1>1, <1>2 DEF Labels
  <2> QED
    BY <1>1, <1>3, <2>1 DEF RunInv, TypeOK
<1>5. /\ pc'[t] = "merge" /\ merged'[t] = merged[t] + 1
      /\ \A u \in Threads \ {t} : pc'[u] = pc[u] /\ merged'[u] = merged[u]
  BY <1>1, <1>2
<1>6. Regions' /\ \A u \in Threads : Of(u)' = Of(u)
  BY <1>1, <1>2, RegionsKept DEF RunInv, InCall
<1>7. Gate'
  BY <1>1, <1>2, GateKept DEF RunInv, InCall, HasArrived, Started
<1>8. EndsAt(t)'
  <2>1. Handled(t)' = Handled(t)
    BY <1>1, <1>5 DEF Handled
  <2>2. /\ Failed(Of(t))' = Failed(Of(t)) /\ Threw(Of(t))' = Threw(Of(t))
        /\ Failed(Handled(t))' = Failed(Handled(t)) /\ Threw(Handled(t))' = Threw(Handled(t))
    BY <1>1, <1>6, <2>1 DEF Failed, Threw
  <2>3. \A v \in Of(t)' : pc'[v] = "ended"
    <3>1. \A v \in Of(t) : pc[v] = "ended" /\ v \in Threads \ {t}
      BY <1>1 DEF RunInv, Ends, EndsAt, Of
    <3> QED
      BY <1>5, <1>6, <3>1
  <2>4. /\ outcome[t] = [failed     |-> Cardinality(Failed(Of(t))),
                         exceptions |-> Cardinality(Threw(Of(t)))]
        /\ AllSpeak => result[t] = [failed     |-> Cardinality(Failed(Handled(t))),
                                    exceptions |-> Cardinality(Threw(Handled(t)))]
    BY <1>1 DEF RunInv, Ends, EndsAt, InCall
  <2>5. merged'[t] <= Len(workers'[t]) /\ InCall(t)'
    BY <1>1, <1>2, <1>5 DEF InCall
  <2> QED
    BY <1>1, <1>5, <2>2, <2>3, <2>4, <2>5 DEF EndsAt
<1>9. ASSUME NEW u \in Threads, u # t PROVE EndsAt(u)'
  <2>1. \A v \in Of(u) : pc[v] = "ended" => pc'[v] = "ended"
    BY <1>1, <1>5 DEF Of
  <2> QED
    BY <1>1, <1>5, <1>6, <1>9, <2>1, EndsAtKept DEF RunInv, Ends
<1>10. \A v \in Workers : pc'[v] \notin {"unborn", "unbind", "ended"}
                          => ok'[v] /\ error'[v] = "none"
  BY <1>1, <1>2 DEF RunInv, Ends
<1> QED
  BY <1>4, <1>6, <1>7, <1>8, <1>9, <1>10 DEF RunInv, Ends
-----------------------------------------------------------------------------
(* The theorems. *)

\* Nobody is started, no call is under way.
LEMMA RunInvInit == Init => RunInv
<1> SUFFICES ASSUME Init PROVE RunInv
  OBVIOUS
<1> USE ThreadsAssumption DEF Threads
<1>1. TypeOK
  <2>1. NoCounts \in Counts /\ NoResult \in Results
    BY DEF NoCounts, NoResult, Counts, Results
  <2>2. \A t \in Threads : (IF t = Main THEN "body" ELSE "unborn") \in Labels
    BY DEF Labels
  <2>3. <<>> \in Seq(Workers)
    OBVIOUS
  <2> HIDE DEF Threads
  <2>4. /\ pc \in [Threads -> Labels] /\ workers \in [Threads -> Seq(Workers)]
        /\ result \in [Threads -> Results] /\ outcome \in [Threads -> Results]
        /\ tally \in [Workers -> Counts] /\ root \in Counts /\ asserted \in Counts
    BY <2>1, <2>2, <2>3 DEF Init
  <2> QED
    BY <2>4 DEF Init, TypeOK
<1>2. \A t \in Threads : /\ Of(t) = {} /\ workers[t] = <<>> /\ ~InCall(t)
                         /\ pc[t] \notin {"spawn", "join", "merge", "logging"}
  BY DEF Init, Of, InCall
<1>3. Cardinality({}) = 0 /\ Range(<<>>) = {} /\ Len(<<>>) = 0 /\ DOMAIN <<>> = {}
  BY FS_EmptySet DEF Range
<1>4. Regions
  <2> HIDE DEF Threads
  <2>1. ASSUME NEW t \in Threads
        PROVE  /\ Of(t) = Range(workers[t])
               /\ \A i, j \in DOMAIN workers[t] : workers[t][i] = workers[t][j] => i = j
               /\ Cardinality(Of(t)) = Len(workers[t])
    BY <1>2, <1>3
  <2> QED
    BY <1>2, <2>1 DEF Regions
<1>5. Gate
  BY <1>2 DEF Gate, Init, Started
<1>6. Ends
  BY <1>2 DEF Ends, EndsAt, Init, InCall
<1> QED
  BY <1>1, <1>4, <1>5, <1>6 DEF RunInv

\* Every step of every thread keeps the invariant.
LEMMA RunInvNext ==
  ASSUME RunInv, [Next]_vars
  PROVE  RunInv'
<1>1. ASSUME NEW t \in Threads, ContinueRun(t) PROVE RunInv'
  BY <1>1, SpawnKeeps, SpawnFailsKeeps, JoinKeeps, MergeKeeps, MergeLogsKeeps, ReturnKeeps
     DEF ContinueRun
<1>2. ASSUME NEW t \in Threads, NEW n \in 0..Cardinality(Workers), Run(t, n) PROVE RunInv'
  <2>1. n \in Nat
    OBVIOUS
  <2> QED
    BY <1>2, <2>1, RunKeeps
<1>3. ASSUME NEW w \in Workers, ContinueWorker(w) PROVE RunInv'
  BY <1>3, BindKeeps, ArriveKeeps, WakeKeeps, BodyEndsKeeps, UnbindKeeps DEF ContinueWorker
<1>4. ASSUME UNCHANGED vars PROVE RunInv'
  <2>1. TypeOK'
    BY <1>4 DEF RunInv, TypeOK, vars, workerVars, regionVars, history
  <2> QED
    BY <1>4, <2>1, CountingKeeps DEF vars, workerVars, regionVars, history
<1> QED
  BY <1>1, <1>2, <1>3, <1>4, CheckPassesKeeps, SpuriousKeeps, CheckFailsKeeps, FinishKeeps
     DEF Next, Gone

\* The invariant holds of every state of the harness.
LEMMA RunInvHolds == Spec => []RunInv
BY RunInvInit, RunInvNext, PTL DEF Spec

\* Every variable of the harness keeps its type; no count becomes negative,
\* and the gate never counts below zero.
THEOREM HarnessTypes == Spec => []TypeOK
<1>1. RunInv => TypeOK
  BY DEF RunInv
<1> QED
  BY <1>1, RunInvHolds, PTL

\* "Workers actually overlap": whatever wakes whom, and in whatever calls the
\* workers are, a body runs only when all the workers of its call have arrived.
THEOREM WorkersStartTogether == Spec => []StartTogether
<1>1. ASSUME RunInv PROVE StartTogether
  <2> SUFFICES ASSUME NEW w \in Workers, pc[w] \in Started
               PROVE  /\ Len(workers[caller[w]]) = threads[caller[w]]
                      /\ \A i \in DOMAIN workers[caller[w]] :
                           pc[workers[caller[w]][i]] \in {"wait", "woken"} \union Started
    BY DEF StartTogether
  <2> DEFINE t == caller[w]
  <2>1. t \in Threads /\ InCall(t)
    BY <1>1, CallerInCall DEF RunInv, Started
  <2>2. Cardinality(Arrived(t)) = threads[t]
    <3>1. m_open[t] /\ m_remaining[t] \in Nat /\ threads[t] \in Nat
      BY <1>1, <2>1 DEF RunInv, TypeOK, Gate
    <3> QED
      BY <1>1, <2>1, <3>1, OfFinite DEF RunInv, Gate
  <2>3. /\ Of(t) = Range(workers[t]) /\ Cardinality(Of(t)) = Len(workers[t])
        /\ Len(workers[t]) <= threads[t] /\ threads[t] \in Nat
    BY <1>1, <2>1 DEF RunInv, TypeOK, Regions, InCall
  <2>4. Len(workers[t]) = threads[t] /\ Arrived(t) = Of(t)
    <3>1. IsFiniteSet(Of(t)) /\ Cardinality(Arrived(t)) <= Cardinality(Of(t))
      BY OfFinite
    <3>2. Cardinality(Arrived(t)) = Cardinality(Of(t))
      BY <2>2, <2>3, <3>1
    <3>3. Arrived(t) \in SUBSET Of(t)
      BY DEF Arrived
    <3> QED
      BY <2>2, <2>3, <3>1, <3>2, <3>3, FS_Subset
  <2>5. \A i \in DOMAIN workers[t] : workers[t][i] \in Arrived(t)
    BY <2>3, <2>4 DEF Range
  <2> QED
    BY <2>4, <2>5 DEF Arrived, HasArrived
<1> QED
  BY <1>1, RunInvHolds, PTL

\* When a call of run is over its Result has counted every body that returned
\* false and every one that threw, in whatever order they ended and whatever
\* calls they made themselves, unless an exception's what() says nothing.
THEOREM ResultIsExact == "nowhat" \notin Thrown /\ Spec => []ResultExact
<1>1. ASSUME AllSpeak, RunInv PROVE ResultExact
  BY <1>1 DEF RunInv, Ends, EndsAt, InCall, ResultExact
<1>2. ASSUME AllSpeak PROVE Spec => []ResultExact
  BY <1>1, <1>2, RunInvHolds, PTL
<1> QED
  BY <1>2 DEF AllSpeak

-----------------------------------------------------------------------------
(* What was asserted is in root or in a tally to be merged.               *)

\* A worker's assertions go to its tally, the test case's own never do.
Binding ==
  /\ ~bound[Main]
  /\ \A w \in Workers :
       pc[w] \in {"arrive", "wait", "woken", "body", "unbind",
                  "spawn", "join", "merge", "logging"} => bound[w]
  /\ ~Nested => \A w \in Workers : ~InCall(w)

\* Workers whose counts, and whose log lines, their caller has not taken over yet.
Appended(t) == {workers[t][i] : i \in 1..merged[t]}
Owing      == {w \in Workers : pc[w] # "unborn" /\ w \notin Handled(caller[w])}
OwingLines == {w \in Workers : pc[w] # "unborn" /\ w \notin Appended(caller[w])}

Successes == [w \in Workers |-> tally[w].success]
Failures  == [w \in Workers |-> tally[w].failed]
Lines     == [w \in Workers |-> tally[w].logs]

CountBalance ==
  /\ asserted.success = root.success + SumFunctionOnSet(Successes, Owing)
  /\ asserted.failed = root.failed + SumFunctionOnSet(Failures, Owing)

LineBalance == asserted.logs = root.logs + SumFunctionOnSet(Lines, OwingLines)

-----------------------------------------------------------------------------
(* Who calls whom. *)

\* Everybody at work is bound, and a worker calls run only where that is allowed.
LEMMA BindingNext ==
  ASSUME RunInv, Binding, [Next]_vars
  PROVE  Binding'
<1> USE ThreadsAssumption DEF At, Goto, Threads, workerVars, regionVars, history, Binding, InCall
<1>0. /\ pc \in [Threads -> Labels] /\ bound \in [Threads -> BOOLEAN]
      /\ caller \in [Workers -> Threads \union {NoThread}] /\ Main \in Threads
  BY DEF RunInv, TypeOK
<1>1. ASSUME NEW t \in Threads, Spawn(t) PROVE Binding'
  <2>1. PICK w \in Unborn :
          /\ pc' = [pc EXCEPT ![w] = "bind",
                              ![t] = IF Len(workers'[t]) = threads[t] THEN "join" ELSE @]
          /\ bound' = bound /\ pc[t] = "spawn"
    BY <1>1 DEF Spawn
  <2>2. w \in Workers
    BY DEF Unborn
  <2> QED
    BY <1>0, <2>1, <2>2
<1>2. ASSUME NEW t \in Threads, SpawnFails(t) PROVE Binding'
  BY <1>0, <1>2 DEF SpawnFails
<1>3. ASSUME NEW t \in Threads, Join(t) PROVE Binding'
  BY <1>0, <1>3 DEF Join
<1>4. ASSUME NEW t \in Threads, Merge(t) PROVE Binding'
  <2>1. /\ bound' = bound /\ pc[t] = "merge"
        /\ pc' = pc \/ pc' = [pc EXCEPT ![t] = "logging"]
    BY <1>4 DEF Merge
  <2> QED
    BY <1>0, <2>1
<1>5. ASSUME NEW t \in Threads, MergeLogs(t) PROVE Binding'
  <2>1. bound' = bound /\ pc[t] = "logging" /\ pc' = [pc EXCEPT ![t] = "merge"]
    BY <1>5 DEF MergeLogs
  <2> QED
    BY <1>0, <2>1
<1>6. ASSUME NEW t \in Threads, Return(t) PROVE Binding'
  BY <1>0, <1>6 DEF Return
<1>7. ASSUME NEW t \in Threads, CheckPasses(t) PROVE Binding'
  BY <1>0, <1>7 DEF CheckPasses
<1>8. ASSUME NEW t \in Threads, NEW n, Run(t, n) PROVE Binding'
  BY <1>0, <1>8 DEF Run
<1>9. ASSUME NEW w \in Workers, BindThreadTally(w) PROVE Binding'
  BY <1>0, <1>9 DEF BindThreadTally
<1>10. ASSUME NEW w \in Workers, Arrive(w) PROVE Binding'
  <2>1. /\ bound' = bound /\ pc[w] = "arrive" /\ caller[w] \in Threads
        /\ \/ pc' = [pc EXCEPT ![w] = "wait"]
           \/ pc' = [u \in Threads |-> IF u = w THEN "body"
                                       ELSE IF u \in Notified(caller[w]) THEN "woken"
                                       ELSE pc[u]]
    BY <1>10 DEF Arrive, RunInv, Gate
  <2> QED
    BY <1>0, <2>1 DEF Notified
<1>11. ASSUME NEW w \in Workers, Wake(w) \/ WakeSpuriously(w) PROVE Binding'
  BY <1>0, <1>11 DEF Wake, WakeSpuriously
<1>12. ASSUME NEW w \in Workers, BodyEnds(w) PROVE Binding'
  BY <1>0, <1>12 DEF BodyEnds, BodyReturns, BodyThrows
<1>13. ASSUME NEW w \in Workers, UnbindThreadTally(w) PROVE Binding'
  BY <1>0, <1>13 DEF UnbindThreadTally
<1>14. ASSUME NEW w \in Workers, CheckFails(w) PROVE Binding'
  BY <1>0, <1>14 DEF CheckFails, BodyReturns
<1>15. ASSUME Finish PROVE Binding'
  BY <1>0, <1>15 DEF Finish
<1>16. ASSUME UNCHANGED vars PROVE Binding'
  BY <1>16 DEF vars
<1> QED
  BY <1>1, <1>2, <1>3, <1>4, <1>5, <1>6, <1>7, <1>8, <1>9, <1>10, <1>11, <1>12, <1>13, <1>14,
     <1>15, <1>16 DEF Next, Gone, ContinueRun, ContinueWorker
\* Only Spawn and Return change which workers there are, and whose they are.
LEMMA SameWorkers ==
  ASSUME RunInv, [Next]_vars, \A t \in Threads : ~Spawn(t) /\ ~Return(t)
  PROVE  /\ caller' = caller
         /\ \A w \in Workers : pc'[w] = "unborn" <=> pc[w] = "unborn"
<1> DEFINE Same == caller' = caller /\ \A w \in Workers : pc'[w] = "unborn" <=> pc[w] = "unborn"
<1> USE ThreadsAssumption DEF At, Goto, Threads, workerVars, regionVars, history
<1>0. pc \in [Threads -> Labels]
  BY DEF RunInv, TypeOK
<1>2. ASSUME NEW t \in Threads, SpawnFails(t) PROVE Same
  BY <1>0, <1>2 DEF SpawnFails
<1>3. ASSUME NEW t \in Threads, Join(t) PROVE Same
  BY <1>0, <1>3 DEF Join
<1>4. ASSUME NEW t \in Threads, Merge(t) PROVE Same
  <2>1. /\ caller' = caller /\ pc[t] = "merge"
        /\ pc' = pc \/ pc' = [pc EXCEPT ![t] = "logging"]
    BY <1>4 DEF Merge
  <2> QED
    BY <1>0, <2>1
<1>5. ASSUME NEW t \in Threads, MergeLogs(t) PROVE Same
  <2>1. caller' = caller /\ pc[t] = "logging" /\ pc' = [pc EXCEPT ![t] = "merge"]
    BY <1>5 DEF MergeLogs
  <2> QED
    BY <1>0, <2>1
<1>7. ASSUME NEW t \in Threads, CheckPasses(t) PROVE Same
  BY <1>0, <1>7 DEF CheckPasses
<1>8. ASSUME NEW t \in Threads, NEW n, Run(t, n) PROVE Same
  BY <1>0, <1>8 DEF Run
<1>9. ASSUME NEW w \in Workers, BindThreadTally(w) PROVE Same
  BY <1>0, <1>9 DEF BindThreadTally
<1>10. ASSUME NEW w \in Workers, Arrive(w) PROVE Same
  <2>1. /\ caller' = caller /\ pc[w] = "arrive"
        /\ \/ pc' = [pc EXCEPT ![w] = "wait"]
           \/ pc' = [u \in Threads |-> IF u = w THEN "body"
                                       ELSE IF u \in Notified(caller[w]) THEN "woken"
                                       ELSE pc[u]]
    BY <1>10 DEF Arrive
  <2> QED
    BY <1>0, <2>1 DEF Notified
<1>11. ASSUME NEW w \in Workers, Wake(w) \/ WakeSpuriously(w) PROVE Same
  BY <1>0, <1>11 DEF Wake, WakeSpuriously
<1>12. ASSUME NEW w \in Workers, BodyEnds(w) PROVE Same
  BY <1>0, <1>12 DEF BodyEnds, BodyReturns, BodyThrows
<1>13. ASSUME NEW w \in Workers, UnbindThreadTally(w) PROVE Same
  BY <1>0, <1>13 DEF UnbindThreadTally
<1>14. ASSUME NEW w \in Workers, CheckFails(w) PROVE Same
  BY <1>0, <1>14 DEF CheckFails, BodyReturns
<1>15. ASSUME Finish PROVE Same
  BY <1>0, <1>15 DEF Finish
<1>16. ASSUME UNCHANGED vars PROVE Same
  BY <1>16 DEF vars
<1> HIDE DEF Same
<1>17. Same
  BY <1>2, <1>3, <1>4, <1>5, <1>7, <1>8, <1>9, <1>10, <1>11, <1>12, <1>13, <1>14,
     <1>15, <1>16 DEF Next, Gone, ContinueRun, ContinueWorker
<1> QED
  BY <1>17 DEF Same

\* A worker is started by somebody at work and starts nobody before that.
LEMMA RootedNext ==
  ASSUME RunInv, Rooted, [Next]_vars
  PROVE  Rooted'
<1> SUFFICES ASSUME NEW C \in SUBSET Workers,
                    \A w \in C : pc'[w] # "unborn" /\ caller'[w] \in C
             PROVE  C = {}
  BY DEF Rooted
<1>0. \A w \in Workers : pc[w] # "unborn" => InCall(caller[w])
  BY CallerInCall DEF RunInv
<1>1. CASE \A t \in Threads : ~Spawn(t) /\ ~Return(t)
  BY <1>1, SameWorkers DEF Rooted
<1>2. ASSUME NEW t \in Threads, Spawn(t) PROVE C = {}
  <2>1. PICK w \in Unborn :
          /\ caller' = [caller EXCEPT ![w] = t]
          /\ pc' = [pc EXCEPT ![w] = "bind",
                              ![t] = IF Len(workers'[t]) = threads[t] THEN "join" ELSE @]
    BY <1>2 DEF Spawn
  <2>2. /\ pc[t] = "spawn" /\ w \in Workers /\ pc[w] = "unborn" /\ w # t
        /\ pc \in [Threads -> Labels] /\ caller \in [Workers -> Threads \union {NoThread}]
    BY <1>2 DEF Spawn, At, Unborn, RunInv, TypeOK
  <2>3. ASSUME NEW v \in C \ {w} PROVE pc[v] # "unborn" /\ caller[v] \in C \ {w}
    <3>1. pc[v] # "unborn"
      BY <2>1, <2>2 DEF Threads
    <3>2. caller[v] # w
      BY <1>0, <2>2, <3>1 DEF InCall
    <3>3. caller'[v] = caller[v]
      BY <2>1, <2>2
    <3> QED
      BY <3>1, <3>2, <3>3
  <2>4. C \ {w} = {}
    BY <2>3 DEF Rooted
  <2>5. w \in C => t \in C
    BY <2>1, <2>2
  <2> QED
    BY <2>2, <2>4, <2>5
<1>3. ASSUME NEW t \in Threads, Return(t) PROVE C = {}
  <2>1. /\ caller' = caller
        /\ \A w \in Workers : pc'[w] # "unborn" => pc[w] # "unborn"
    BY <1>3 DEF Return, workerVars, RunInv, TypeOK, Threads, At
  <2> QED
    BY <2>1 DEF Rooted
<1> QED
  BY <1>1, <1>2, <1>3
-----------------------------------------------------------------------------
(* Which tallies are still to be merged. *)

\* The tally of a worker at work is.
LEMMA AtWorkOwes ==
  ASSUME RunInv, NEW w \in Workers, pc[w] \notin {"unborn", "ended"}
  PROVE  w \in Owing /\ w \in OwingLines
<1> DEFINE t == caller[w]
<1>1. t \in Threads /\ w \in Of(t) /\ InCall(t)
  BY CallerInCall DEF RunInv
<1>2. pc[t] \in {"spawn", "join"} /\ merged[t] = 0
  BY <1>1 DEF InCall, RunInv, Ends, EndsAt
<1>3. Handled(t) = {} /\ Appended(t) = {}
  BY <1>2 DEF Handled, Appended
<1> QED
  BY <1>3 DEF Owing, OwingLines

\* Sums over them are over finite sets of natural numbers.
LEMMA OwingType ==
  ASSUME TypeOK
  PROVE  /\ Owing \subseteq Workers /\ IsFiniteSet(Owing)
         /\ OwingLines \subseteq Workers /\ IsFiniteSet(OwingLines)
         /\ \A w \in Workers : /\ Successes[w] \in Nat /\ Successes[w] = tally[w].success
                               /\ Failures[w] \in Nat /\ Failures[w] = tally[w].failed
                               /\ Lines[w] \in Nat /\ Lines[w] = tally[w].logs
<1>1. Owing \subseteq Workers /\ OwingLines \subseteq Workers
  BY DEF Owing, OwingLines
<1>2. \A w \in Workers : tally[w] \in Counts
  BY DEF TypeOK
<1>3. \A w \in Workers : tally[w].success \in Nat /\ tally[w].failed \in Nat /\ tally[w].logs \in Nat
  BY <1>2 DEF Counts
<1> QED
  BY <1>1, <1>3, ThreadsAssumption, FS_Subset DEF Successes, Failures, Lines

\* They stay the same when nobody is started, handled or dismissed.
LEMMA OwingKept ==
  ASSUME RunInv, caller' = caller,
         \A w \in Workers : pc'[w] = "unborn" <=> pc[w] = "unborn",
         \A t \in Threads : InCall(t) => /\ workers'[t] = workers[t] /\ merged'[t] = merged[t]
                                         /\ pc'[t] = "logging" <=> pc[t] = "logging"
  PROVE  Owing' = Owing /\ OwingLines' = OwingLines
<1>1. ASSUME NEW w \in Workers, pc[w] # "unborn"
      PROVE  Handled(caller[w])' = Handled(caller[w]) /\ Appended(caller[w])' = Appended(caller[w])
  BY <1>1, CallerInCall DEF RunInv, Handled, Appended
<1> QED
  BY <1>1 DEF Owing, OwingLines

LEMMA OwingKeptByRest ==
  ASSUME RunInv, [Next]_vars,
         \A t \in Threads : ~Spawn(t) /\ ~Return(t) /\ ~Merge(t) /\ ~MergeLogs(t)
  PROVE  Owing' = Owing /\ OwingLines' = OwingLines
<1> DEFINE Same == \A t \in Threads :
                     InCall(t) => /\ workers'[t] = workers[t] /\ merged'[t] = merged[t]
                                  /\ pc'[t] = "logging" <=> pc[t] = "logging"
<1> USE ThreadsAssumption DEF At, Goto, Threads, workerVars, regionVars, history, InCall
<1>0. /\ pc \in [Threads -> Labels] /\ workers \in [Threads -> Seq(Workers)]
      /\ merged \in [Threads -> Nat]
  BY DEF RunInv, TypeOK
<1>2. ASSUME NEW t \in Threads, SpawnFails(t) PROVE Same
  BY <1>0, <1>2 DEF SpawnFails
<1>3. ASSUME NEW t \in Threads, Join(t) PROVE Same
  BY <1>0, <1>3 DEF Join
<1>7. ASSUME NEW t \in Threads, CheckPasses(t) PROVE Same
  BY <1>0, <1>7 DEF CheckPasses
<1>8. ASSUME NEW t \in Threads, NEW n, Run(t, n) PROVE Same
  BY <1>0, <1>8 DEF Run
<1>9. ASSUME NEW w \in Workers, BindThreadTally(w) PROVE Same
  BY <1>0, <1>9 DEF BindThreadTally
<1>10. ASSUME NEW w \in Workers, Arrive(w) PROVE Same
  <2>1. /\ workers' = workers /\ merged' = merged /\ pc[w] = "arrive"
        /\ \/ pc' = [pc EXCEPT ![w] = "wait"]
           \/ pc' = [u \in Threads |-> IF u = w THEN "body"
                                       ELSE IF u \in Notified(caller[w]) THEN "woken"
                                       ELSE pc[u]]
    BY <1>10 DEF Arrive
  <2> QED
    BY <1>0, <2>1 DEF Notified
<1>11. ASSUME NEW w \in Workers, Wake(w) \/ WakeSpuriously(w) PROVE Same
  BY <1>0, <1>11 DEF Wake, WakeSpuriously
<1>12. ASSUME NEW w \in Workers, BodyEnds(w) PROVE Same
  BY <1>0, <1>12 DEF BodyEnds, BodyReturns, BodyThrows
<1>13. ASSUME NEW w \in Workers, UnbindThreadTally(w) PROVE Same
  BY <1>0, <1>13 DEF UnbindThreadTally
<1>14. ASSUME NEW w \in Workers, CheckFails(w) PROVE Same
  BY <1>0, <1>14 DEF CheckFails, BodyReturns
<1>15. ASSUME Finish PROVE Same
  BY <1>0, <1>15 DEF Finish
<1>16. ASSUME UNCHANGED vars PROVE Same
  BY <1>16 DEF vars
<1> HIDE DEF Same
<1>17. Same
  BY <1>2, <1>3, <1>7, <1>8, <1>9, <1>10, <1>11, <1>12, <1>13, <1>14,
     <1>15, <1>16 DEF Next, Gone, ContinueRun, ContinueWorker
<1> QED
  BY <1>17, SameWorkers, OwingKept DEF Same
\* Merging takes a worker's counts, and its lines when it has none.
LEMMA MergeOwing ==
  ASSUME RunInv, NEW t \in Threads, Merge(t), NEW w, w = workers[t][merged[t] + 1]
  PROVE  /\ w \in Workers \ {t} /\ w \in Owing /\ Owing' = Owing \ {w}
         /\ w \in OwingLines
         /\ OwingLines' = IF tally[w].logs > 0 THEN OwingLines ELSE OwingLines \ {w}
<1> USE ThreadsAssumption DEF At, Goto, workerVars, regionVars, history
<1>1. /\ pc[t] = "merge" /\ merged[t] < Len(workers[t])
      /\ UNCHANGED <<caller, workers>>
      /\ IF tally[w].logs > 0
         THEN pc' = [pc EXCEPT ![t] = "logging"] /\ merged' = merged
         ELSE merged' = [merged EXCEPT ![t] = @ + 1] /\ pc' = pc
  BY DEF Merge
<1>2. /\ pc \in [Threads -> Labels] /\ workers[t] \in Seq(Workers)
      /\ merged \in [Threads -> Nat] /\ merged[t] + 1 \in DOMAIN workers[t]
      /\ DOMAIN workers[t] = 1..Len(workers[t])
  <2>1. /\ pc \in [Threads -> Labels] /\ workers[t] \in Seq(Workers)
        /\ merged \in [Threads -> Nat]
    BY DEF RunInv, TypeOK
  <2> QED
    BY <1>1, <2>1
<1>3. w \in Of(t) /\ w \in Workers /\ pc[w] = "ended" /\ caller[w] = t /\ w # t
  <2>1. w \in Of(t) /\ w \in Workers
    BY <1>2 DEF RunInv, Regions, Range
  <2>2. \A v \in Of(t) : pc[v] = "ended" /\ caller[v] = t
    BY <1>1 DEF RunInv, Ends, EndsAt, Of
  <2> QED
    BY <1>1, <2>1, <2>2
<1>4. \A v \in Workers : /\ pc'[v] = "unborn" <=> pc[v] = "unborn"
                         /\ pc[v] # "unborn" => caller[v] \in Threads
  <2>1. pc' = pc \/ pc' = [pc EXCEPT ![t] = "logging"]
    BY <1>1
  <2> QED
    BY <1>1, <1>2, <2>1 DEF RunInv, Gate, Threads
<1>5. \A u \in Threads \ {t} : Handled(u)' = Handled(u) /\ Appended(u)' = Appended(u)
  <2>1. \A u \in Threads \ {t} : pc'[u] = pc[u] /\ merged'[u] = merged[u]
    BY <1>1, <1>2
  <2> QED
    BY <1>1, <2>1 DEF Handled, Appended
<1>6. /\ Handled(t) = Appended(t) /\ w \notin Appended(t)
      /\ Handled(t)' = Appended(t) \union {w}
      /\ Appended(t)' = IF tally[w].logs > 0 THEN Appended(t) ELSE Appended(t) \union {w}
  <2>1. Handled(t) = {workers[t][i] : i \in 1..merged[t]}
    BY <1>1 DEF Handled
  <2>2. Handled(t)' = {workers[t][i] : i \in 1..merged[t] + 1}
    BY <1>1, <1>2 DEF Handled
  <2>3. /\ 1..merged[t] + 1 = (1..merged[t]) \union {merged[t] + 1}
        /\ merged[t] + 1 \notin 1..merged[t]
        /\ 1..merged[t] \subseteq DOMAIN workers[t]
    BY <1>1, <1>2
  <2>4. w \notin Appended(t)
    BY <1>2, <2>3 DEF RunInv, Regions, Appended
  <2>5. Appended(t) \union {w} = {workers[t][i] : i \in 1..merged[t] + 1}
    BY <2>3 DEF Appended
  <2>6. Appended(t)' = {workers[t][i] : i \in 1..merged'[t]}
    BY <1>1 DEF Appended
  <2>7. merged'[t] = IF tally[w].logs > 0 THEN merged[t] ELSE merged[t] + 1
    BY <1>1, <1>2
  <2>8. Appended(t)' = IF tally[w].logs > 0 THEN Appended(t) ELSE Appended(t) \union {w}
    BY <2>5, <2>6, <2>7 DEF Appended
  <2> QED
    BY <2>1, <2>2, <2>4, <2>5, <2>8 DEF Appended
<1>7. Owing' = Owing \ {w}
  BY <1>1, <1>3, <1>4, <1>5, <1>6 DEF Owing
<1>8. OwingLines' = IF tally[w].logs > 0 THEN OwingLines ELSE OwingLines \ {w}
  BY <1>1, <1>3, <1>4, <1>5, <1>6 DEF OwingLines
<1> QED
  BY <1>3, <1>6, <1>7, <1>8 DEF Owing, OwingLines

\* Appending its lines takes them too.
LEMMA MergeLogsOwing ==
  ASSUME RunInv, NEW t \in Threads, MergeLogs(t), NEW w, w = workers[t][merged[t] + 1]
  PROVE  /\ w \in Workers /\ Owing' = Owing
         /\ w \in OwingLines /\ OwingLines' = OwingLines \ {w}
<1> USE ThreadsAssumption DEF At, Goto, workerVars, regionVars, history
<1>1. /\ pc[t] = "logging" /\ UNCHANGED <<caller, workers>>
      /\ merged' = [merged EXCEPT ![t] = @ + 1] /\ pc' = [pc EXCEPT ![t] = "merge"]
  BY DEF MergeLogs
<1>2. /\ pc \in [Threads -> Labels] /\ workers[t] \in Seq(Workers)
      /\ merged \in [Threads -> Nat] /\ merged[t] + 1 \in DOMAIN workers[t]
      /\ DOMAIN workers[t] = 1..Len(workers[t])
  <2>1. /\ pc \in [Threads -> Labels] /\ workers[t] \in Seq(Workers)
        /\ merged \in [Threads -> Nat] /\ merged[t] < Len(workers[t])
    BY <1>1 DEF RunInv, TypeOK, Ends, EndsAt
  <2> QED
    BY <1>1, <2>1
<1>3. w \in Of(t) /\ w \in Workers /\ caller[w] = t /\ pc[w] # "unborn"
  <2>1. w \in Of(t) /\ w \in Workers
    BY <1>2 DEF RunInv, Regions, Range
  <2> QED
    BY <2>1 DEF Of
<1>4. \A v \in Workers : /\ pc'[v] = "unborn" <=> pc[v] = "unborn"
                         /\ pc[v] # "unborn" => caller[v] \in Threads
  BY <1>1, <1>2 DEF RunInv, Gate
<1>5. \A u \in Threads \ {t} : Handled(u)' = Handled(u) /\ Appended(u)' = Appended(u)
  <2>1. \A u \in Threads \ {t} : pc'[u] = pc[u] /\ merged'[u] = merged[u]
    BY <1>1, <1>2
  <2> QED
    BY <1>1, <2>1 DEF Handled, Appended
<1>6. Handled(t)' = Handled(t) /\ w \notin Appended(t) /\ Appended(t)' = Appended(t) \union {w}
  <2>1. pc'[t] = "merge" /\ merged'[t] = merged[t] + 1
    BY <1>1, <1>2
  <2>2. Handled(t)' = {workers[t][i] : i \in 1..merged[t] + 1}
    BY <1>1, <2>1 DEF Handled
  <2>3. Handled(t) = {workers[t][i] : i \in 1..merged[t] + 1}
    BY <1>1 DEF Handled
  <2>4. /\ 1..merged[t] + 1 = (1..merged[t]) \union {merged[t] + 1}
        /\ merged[t] + 1 \notin 1..merged[t]
        /\ 1..merged[t] \subseteq DOMAIN workers[t]
    BY <1>1, <1>2
  <2>5. w \notin Appended(t)
    BY <1>2, <2>4 DEF RunInv, Regions, Appended
  <2>6. Appended(t)' = {workers[t][i] : i \in 1..merged[t] + 1}
    BY <1>1, <2>1 DEF Appended
  <2> QED
    BY <2>2, <2>3, <2>4, <2>5, <2>6 DEF Appended
<1>7. Owing' = Owing
  BY <1>1, <1>4, <1>5, <1>6 DEF Owing
<1>8. OwingLines' = OwingLines \ {w}
  BY <1>1, <1>3, <1>4, <1>5, <1>6 DEF OwingLines
<1> QED
  BY <1>3, <1>6, <1>7, <1>8 DEF OwingLines

\* The workers a call dismisses have been merged.
LEMMA ReturnOwing ==
  ASSUME RunInv, NEW t \in Threads, Return(t)
  PROVE  Owing' = Owing /\ OwingLines' = OwingLines
<1> USE ThreadsAssumption DEF At, workerVars, regionVars, history
<1>1. /\ pc[t] = "merge" /\ merged[t] = Len(workers[t])
      /\ pc' = [u \in Threads |-> IF u = t THEN "body"
                                  ELSE IF u \in Range(workers[t]) THEN "unborn" ELSE pc[u]]
      /\ workers' = [workers EXCEPT ![t] = <<>>] /\ UNCHANGED <<caller, merged>>
      /\ Of(t) = Range(workers[t])
  BY DEF Return, RunInv, Regions
<1>2. Handled(t) = Of(t) /\ Appended(t) = Of(t)
  <2>1. workers[t] \in Seq(Workers)
    BY DEF RunInv, TypeOK
  <2> QED
    BY <1>1, <2>1 DEF Handled, Appended, Range
<1>3. \A v \in Of(t) : v \in Workers /\ pc[v] = "ended" /\ caller[v] = t /\ v # t
  BY <1>1 DEF RunInv, Ends, EndsAt, Of
<1>4. \A v \in Workers : /\ v \notin Of(t) => (pc'[v] = "unborn" <=> pc[v] = "unborn")
                         /\ v \in Of(t) => pc'[v] = "unborn"
                         /\ pc[v] # "unborn" /\ v \notin Of(t) => caller[v] \in Threads \ {t}
                         /\ pc[v] # "unborn" => caller[v] \in Threads
  BY <1>1, <1>3 DEF RunInv, Gate, Of, Threads
<1>5. \A v \in Workers : pc[v] # "unborn" /\ v \notin Of(t) =>
        Handled(caller[v])' = Handled(caller[v]) /\ Appended(caller[v])' = Appended(caller[v])
  <2>1. ASSUME NEW v \in Workers, pc[v] # "unborn", v \notin Of(t)
        PROVE  /\ pc'[caller[v]] = "logging" <=> pc[caller[v]] = "logging"
               /\ workers'[caller[v]] = workers[caller[v]]
    <3>1. InCall(caller[v]) /\ caller[v] \in Threads \ {t}
      BY <1>4, <2>1, CallerInCall DEF RunInv
    <3>2. caller[v] \notin Of(t)
      BY <1>3, <3>1 DEF InCall
    <3> QED
      BY <1>1, <3>1, <3>2 DEF RunInv, TypeOK
  <2> QED
    BY <1>1, <2>1 DEF Handled, Appended
<1> QED
  BY <1>1, <1>2, <1>3, <1>4, <1>5 DEF Owing, OwingLines
\* A worker that is started has an empty tally, to be merged like the others.
LEMMA SpawnOwing ==
  ASSUME RunInv, NEW t \in Threads, Spawn(t)
  PROVE  \E w \in Workers :
           /\ w \notin Owing /\ Owing' = Owing \union {w}
           /\ w \notin OwingLines /\ OwingLines' = OwingLines \union {w}
           /\ tally' = [tally EXCEPT ![w] = NoCounts]
           /\ UNCHANGED <<root, asserted>>
<1> USE ThreadsAssumption DEF At, history
<1>1. PICK w \in Unborn :
        /\ workers' = [workers EXCEPT ![t] = Append(@, w)]
        /\ caller' = [caller EXCEPT ![w] = t]
        /\ tally' = [tally EXCEPT ![w] = NoCounts]
        /\ pc' = [pc EXCEPT ![w] = "bind",
                            ![t] = IF Len(workers'[t]) = threads[t] THEN "join" ELSE @]
  BY DEF Spawn
<1>2. /\ pc[t] = "spawn" /\ w \in Workers /\ pc[w] = "unborn" /\ w # t /\ merged[t] = 0
      /\ pc \in [Threads -> Labels] /\ UNCHANGED <<merged, root, asserted>>
      /\ workers \in [Threads -> Seq(Workers)] /\ caller \in [Workers -> Threads \union {NoThread}]
  BY DEF Spawn, Unborn, RunInv, TypeOK, Ends, EndsAt
<1>3. /\ pc'[w] = "bind" /\ pc'[t] \in {"spawn", "join"} /\ \A u \in Threads \ {t, w} : pc'[u] = pc[u]
      /\ \A v \in Workers \ {w} : caller'[v] = caller[v]
      /\ caller'[w] = t
  BY <1>1, <1>2 DEF Threads
<1>4. \A u \in Threads \ {t} : /\ workers'[u] = workers[u] /\ merged'[u] = merged[u]
                               /\ pc'[u] = "logging" <=> pc[u] = "logging"
  BY <1>1, <1>2, <1>3
<1>5. merged'[t] = 0 /\ pc'[t] # "logging"
  BY <1>2, <1>3
<1>6. \A v \in Workers \ {w} : pc'[v] = "unborn" <=> pc[v] = "unborn"
  BY <1>2, <1>3 DEF Threads
<1>7. \A v \in Workers : pc[v] # "unborn" => caller[v] \in Threads
  BY DEF RunInv, Gate
<1>8. w \notin Owing /\ w \notin OwingLines
  BY <1>2 DEF Owing, OwingLines
<1>9. \A v \in Workers \ {w} : /\ v \in Owing' <=> v \in Owing
                               /\ v \in OwingLines' <=> v \in OwingLines
  <2>1. ASSUME NEW v \in Workers \ {w}, pc[v] # "unborn"
        PROVE  /\ Handled(caller[v])' = Handled(caller[v])
               /\ Appended(caller[v])' = Appended(caller[v])
    <3>1. caller'[v] = caller[v] /\ caller[v] \in Threads
      BY <1>3, <1>7, <2>1
    <3>2. CASE caller[v] = t
      BY <1>2, <1>5, <3>1, <3>2 DEF Handled, Appended
    <3>3. CASE caller[v] # t
      BY <1>4, <3>1, <3>3 DEF Handled, Appended
    <3> QED
      BY <3>2, <3>3
  <2> QED
    BY <1>6, <2>1 DEF Owing, OwingLines
<1>10. w \in Owing' /\ w \in OwingLines'
  <2>1. Handled(caller[w])' = {} /\ Appended(caller[w])' = {}
    BY <1>3, <1>5 DEF Handled, Appended
  <2> QED
    BY <1>2, <1>3, <2>1 DEF Owing, OwingLines
<1>11. Owing \union Owing' \union OwingLines \union OwingLines' \subseteq Workers
  BY DEF Owing, OwingLines
<1>12. Owing' = Owing \union {w} /\ OwingLines' = OwingLines \union {w}
  BY <1>2, <1>9, <1>10, <1>11
<1> QED
  BY <1>1, <1>2, <1>8, <1>12

-----------------------------------------------------------------------------
(* What is asserted is counted once. *)

\* The steps that count nothing.
LEMMA NothingCounted ==
  ASSUME [Next]_vars,
         \A t \in Threads : ~Spawn(t) /\ ~Merge(t) /\ ~MergeLogs(t) /\ ~CheckPasses(t),
         \A w \in Workers : ~CheckFails(w)
  PROVE  UNCHANGED <<tally, root, asserted>>
<1> USE DEF workerVars, regionVars, history
<1>1. ASSUME NEW t \in Threads, SpawnFails(t) \/ Join(t) \/ Return(t) \/ \E n \in 0..Cardinality(Workers) : Run(t, n)
      PROVE  UNCHANGED <<tally, root, asserted>>
  BY <1>1 DEF SpawnFails, Join, Return, Run
<1>2. ASSUME NEW w \in Workers, ContinueWorker(w) \/ WakeSpuriously(w)
      PROVE  UNCHANGED <<tally, root, asserted>>
  BY <1>2 DEF ContinueWorker, WakeSpuriously, BindThreadTally, Arrive, Wake, BodyEnds,
              BodyReturns, BodyThrows, UnbindThreadTally
<1>3. ASSUME Finish \/ UNCHANGED vars PROVE UNCHANGED <<tally, root, asserted>>
  BY <1>3 DEF Finish, vars
<1> QED
  BY <1>1, <1>2, <1>3 DEF Next, Gone, ContinueRun

\* A result goes to the tally or to root, and changes their sum by itself.
LEMMA CountedOnce ==
  ASSUME TypeOK, NEW t \in Threads, NEW n \in Nat, NEW k \in Nat, AddResults(t, n, k),
         NEW S \in SUBSET Workers, bound[t] => t \in S
  PROVE  /\ root'.success + SumFunctionOnSet(Successes', S)
              = root.success + SumFunctionOnSet(Successes, S) + n
         /\ root'.failed + SumFunctionOnSet(Failures', S)
              = root.failed + SumFunctionOnSet(Failures, S) + k
         /\ root'.logs = root.logs /\ Lines' = Lines
<1>1. IsFiniteSet(S) /\ \A w \in Workers : /\ Successes[w] \in Nat /\ Successes[w] = tally[w].success
                                           /\ Failures[w] \in Nat /\ Failures[w] = tally[w].failed
  BY ThreadsAssumption, FS_Subset, OwingType
<1>2. SumFunctionOnSet(Successes, S) \in Nat /\ SumFunctionOnSet(Failures, S) \in Nat
  BY <1>1, SumType
<1>3. /\ root \in Counts /\ root.success \in Nat /\ root.failed \in Nat
      /\ tally \in [Workers -> Counts]
  BY DEF TypeOK, Counts
<1>4. CASE bound[t]
  <2>1. tally' = [tally EXCEPT ![t] = CountedIn(@, n, k)] /\ root' = root /\ t \in S
    BY <1>4 DEF AddResults
  <2>2. /\ tally'[t].success = tally[t].success + n
        /\ tally'[t].failed = tally[t].failed + k
        /\ \A w \in Workers \ {t} : tally'[w] = tally[w]
        /\ \A w \in Workers : tally'[w].logs = tally[w].logs
    BY <1>3, <2>1 DEF CountedIn, Counts
  <2>3. Lines' = Lines
    BY <2>2 DEF Lines
  <2>4. /\ Successes'[t] = Successes[t] + n /\ Failures'[t] = Failures[t] + k
        /\ \A w \in S \ {t} : Successes'[w] = Successes[w] /\ Failures'[w] = Failures[w]
    BY <2>1, <2>2 DEF Successes, Failures
  <2>5. SumFunctionOnSet(Successes', S) = SumFunctionOnSet(Successes, S) + n
    BY <1>1, <2>1, <2>4, SumGrows
  <2>6. SumFunctionOnSet(Failures', S) = SumFunctionOnSet(Failures, S) + k
    BY <1>1, <2>1, <2>4, SumGrows
  <2> QED
    BY <1>2, <1>3, <2>1, <2>3, <2>5, <2>6
<1>5. CASE ~bound[t]
  <2>1. root' = CountedIn(root, n, k) /\ tally' = tally
    BY <1>5 DEF AddResults
  <2>2. root'.success = root.success + n /\ root'.failed = root.failed + k /\ root'.logs = root.logs
    BY <1>3, <2>1 DEF CountedIn, Counts
  <2>3. Successes' = Successes /\ Failures' = Failures /\ Lines' = Lines
    BY <2>1 DEF Successes, Failures, Lines
  <2> QED
    BY <1>2, <1>3, <2>2, <2>3
<1> QED
  BY <1>4, <1>5
\* Log lines are none of add_result's business.
LEMMA LinesLeft ==
  ASSUME TypeOK, NEW t \in Threads, NEW n \in Nat, NEW k \in Nat, AddResults(t, n, k),
         bound[t] => t \in Workers
  PROVE  root'.logs = root.logs /\ Lines' = Lines
<1>1. Workers \in SUBSET Workers
  OBVIOUS
<1> QED
  BY <1>1, CountedOnce

\* Assertions that pass, and that fail, stay in balance in every step.
LEMMA CountBalanceNext ==
  ASSUME RunInv, Binding, CountBalance, [Next]_vars
  PROVE  CountBalance'
<1> DEFINE Sum(f, S) == SumFunctionOnSet(f, S)
<1>0. /\ Owing \in SUBSET Workers /\ IsFiniteSet(Owing) /\ TypeOK
      /\ \A w \in Workers : /\ Successes[w] \in Nat /\ Successes[w] = tally[w].success
                            /\ Failures[w] \in Nat /\ Failures[w] = tally[w].failed
      /\ Sum(Successes, Owing) \in Nat /\ Sum(Failures, Owing) \in Nat
      /\ tally \in [Workers -> Counts]
      /\ root.success \in Nat /\ root.failed \in Nat
      /\ asserted \in Counts /\ asserted.success \in Nat /\ asserted.failed \in Nat
  BY OwingType, SumType DEF RunInv, TypeOK, Counts
<1>1. SUFFICES /\ asserted'.success = root'.success + Sum(Successes', Owing')
               /\ asserted'.failed = root'.failed + Sum(Failures', Owing')
  BY DEF CountBalance
<1>2. CASE /\ \A t \in Threads : ~Spawn(t) /\ ~Merge(t) /\ ~MergeLogs(t) /\ ~CheckPasses(t)
           /\ \A w \in Workers : ~CheckFails(w)
  <2>1. Owing' = Owing
    BY <1>2, OwingKeptByRest, ReturnOwing
  <2>2. UNCHANGED <<tally, root, asserted>>
    BY <1>2, NothingCounted
  <2> QED
    BY <2>1, <2>2 DEF CountBalance, Successes, Failures
<1>3. ASSUME NEW t \in Threads, Spawn(t)
      PROVE  /\ asserted'.success = root'.success + Sum(Successes', Owing')
             /\ asserted'.failed = root'.failed + Sum(Failures', Owing')
  <2>1. PICK w \in Workers : /\ w \notin Owing /\ Owing' = Owing \union {w}
                             /\ tally' = [tally EXCEPT ![w] = NoCounts]
                             /\ UNCHANGED <<root, asserted>>
    BY <1>3, SpawnOwing
  <2>2. /\ Successes'[w] = 0 /\ Failures'[w] = 0
        /\ \A v \in Owing : Successes'[v] = Successes[v] /\ Failures'[v] = Failures[v]
    BY <1>0, <2>1 DEF Successes, Failures, NoCounts
  <2>3. /\ Sum(Successes', Owing) = Sum(Successes, Owing)
        /\ Sum(Failures', Owing) = Sum(Failures, Owing)
    BY <1>0, <2>2, SumSame
  <2>4. /\ Sum(Successes', Owing \union {w}) = Successes'[w] + Sum(Successes', Owing)
        /\ Sum(Failures', Owing \union {w}) = Failures'[w] + Sum(Failures', Owing)
    <3>1. \A v \in Owing \union {w} : Successes'[v] \in Int /\ Failures'[v] \in Int
      BY <1>0, <2>2
    <3> QED
      BY <1>0, <2>1, <3>1, SumWith
  <2> QED
    BY <1>0, <2>1, <2>2, <2>3, <2>4 DEF CountBalance
<1>4. ASSUME NEW t \in Threads, Merge(t)
      PROVE  /\ asserted'.success = root'.success + Sum(Successes', Owing')
             /\ asserted'.failed = root'.failed + Sum(Failures', Owing')
  <2> DEFINE w == workers[t][merged[t] + 1]
             S == Owing \ {w}
  <2>1. /\ pc[t] = "merge" /\ AddResults(t, tally[w].success, tally[w].failed)
        /\ asserted' = asserted
    BY <1>4 DEF Merge, At, history
  <2>2. w \in Workers \ {t} /\ w \in Owing /\ Owing' = S
    BY <1>4, MergeOwing
  <2>3. bound[t] => t \in S
    BY <2>1, <2>2, AtWorkOwes DEF Binding, Threads
  <2> HIDE DEF w, S
  <2>4. /\ root'.success + Sum(Successes', S) = root.success + Sum(Successes, S) + tally[w].success
        /\ root'.failed + Sum(Failures', S) = root.failed + Sum(Failures, S) + tally[w].failed
    <3>1. tally[w].success \in Nat /\ tally[w].failed \in Nat
      BY <1>0, <2>2
    <3>2. S \in SUBSET Workers
      BY <1>0 DEF S
    <3> QED
      BY <1>0, <2>1, <2>3, <3>1, <3>2, CountedOnce
  <2>5. /\ Sum(Successes, Owing) = Successes[w] + Sum(Successes, S)
        /\ Sum(Failures, Owing) = Failures[w] + Sum(Failures, S)
        /\ Sum(Successes, S) \in Nat /\ Sum(Failures, S) \in Nat
    <3>1. \A v \in Owing : Successes[v] \in Int /\ Failures[v] \in Int
      BY <1>0
    <3>2. IsFiniteSet(S) /\ \A v \in S : Successes[v] \in Nat /\ Failures[v] \in Nat
      BY <1>0, FS_RemoveElement DEF S
    <3>3. /\ Sum(Successes, Owing) = Successes[w] + Sum(Successes, S)
          /\ Sum(Failures, Owing) = Failures[w] + Sum(Failures, S)
      BY <1>0, <2>2, <3>1, SumWithout DEF S
    <3> QED
      BY <3>2, <3>3, SumType
  <2>6. w \in Workers
    BY <2>2
  <2> QED
    BY <1>0, <2>1, <2>2, <2>4, <2>5, <2>6 DEF CountBalance
<1>5. ASSUME NEW t \in Threads, MergeLogs(t)
      PROVE  /\ asserted'.success = root'.success + Sum(Successes', Owing')
             /\ asserted'.failed = root'.failed + Sum(Failures', Owing')
  <2>1. /\ tally' = tally /\ asserted' = asserted
        /\ root'.success = root.success /\ root'.failed = root.failed
    BY <1>5 DEF MergeLogs, workerVars, history, RunInv, TypeOK, Counts
  <2>2. Owing' = Owing
    BY <1>5, MergeLogsOwing
  <2> QED
    BY <2>1, <2>2 DEF CountBalance, Successes, Failures
<1>6. ASSUME NEW t \in Threads, CheckPasses(t)
      PROVE  /\ asserted'.success = root'.success + Sum(Successes', Owing')
             /\ asserted'.failed = root'.failed + Sum(Failures', Owing')
  <2>1. /\ pc[t] = "body" /\ AddResults(t, 1, 0)
        /\ asserted' = [asserted EXCEPT !.success = @ + 1]
    BY <1>6 DEF CheckPasses, At
  <2>2. Owing' = Owing
    <3>1. \A u \in Threads : ~Spawn(u) /\ ~Return(u) /\ ~Merge(u) /\ ~MergeLogs(u)
      BY <1>0, <1>6, <2>1 DEF CheckPasses, Spawn, Return, Merge, MergeLogs, At, Goto, RunInv, TypeOK,
                              history, Counts
    <3> QED
      BY <3>1, OwingKeptByRest
  <2>3. bound[t] => t \in Owing
    BY <2>1, AtWorkOwes DEF Binding, Threads
  <2>4. /\ root'.success + Sum(Successes', Owing) = root.success + Sum(Successes, Owing) + 1
        /\ root'.failed + Sum(Failures', Owing) = root.failed + Sum(Failures, Owing) + 0
    <3>1. ASSUME NEW n \in Nat, NEW k \in Nat, AddResults(t, n, k)
          PROVE  /\ root'.success + Sum(Successes', Owing) = root.success + Sum(Successes, Owing) + n
                 /\ root'.failed + Sum(Failures', Owing) = root.failed + Sum(Failures, Owing) + k
      BY <1>0, <2>3, <3>1, CountedOnce
    <3> QED
      BY <2>1, <3>1
  <2>5. asserted'.success = asserted.success + 1 /\ asserted'.failed = asserted.failed
    BY <1>0, <2>1 DEF Counts
  <2> QED
    BY <1>0, <2>2, <2>4, <2>5 DEF CountBalance
<1>7. ASSUME NEW w \in Workers, CheckFails(w)
      PROVE  /\ asserted'.success = root'.success + Sum(Successes', Owing')
             /\ asserted'.failed = root'.failed + Sum(Failures', Owing')
  <2>1. /\ pc[w] = "body" /\ root' = root
        /\ tally' = [tally EXCEPT ![w].failed = @ + 1, ![w].logs = @ + 1]
        /\ asserted' = [asserted EXCEPT !.failed = @ + 1, !.logs = @ + 1]
    BY <1>7 DEF CheckFails, At
  <2>2. asserted'.success = asserted.success /\ asserted'.failed = asserted.failed + 1
    BY <1>0, <2>1 DEF Counts
  <2>3. Owing' = Owing
    <3>1. \A u \in Threads : ~Spawn(u) /\ ~Return(u) /\ ~Merge(u) /\ ~MergeLogs(u)
      BY <1>0, <2>2 DEF Spawn, Return, Merge, MergeLogs, history
    <3> QED
      BY <3>1, OwingKeptByRest
  <2>4. w \in Owing
    BY <2>1, AtWorkOwes
  <2>5. /\ \A v \in Owing : Successes'[v] = Successes[v]
        /\ Failures'[w] = Failures[w] + 1
        /\ \A v \in Owing \ {w} : Failures'[v] = Failures[v]
    BY <1>0, <2>1 DEF Successes, Failures, Counts
  <2>6. Sum(Successes', Owing) = Sum(Successes, Owing)
    BY <1>0, <2>5, SumSame
  <2>7. Sum(Failures', Owing) = Sum(Failures, Owing) + 1
    <3>1. \A v \in Owing : Failures[v] \in Int
      BY <1>0
    <3> QED
      BY <1>0, <2>4, <2>5, <3>1, SumGrows
  <2> QED
    BY <1>0, <2>1, <2>2, <2>3, <2>6, <2>7 DEF CountBalance
<1> QED
  BY <1>2, <1>3, <1>4, <1>5, <1>6, <1>7
\* Log lines too, as long as no two threads append them at once.
LEMMA LineBalanceNext ==
  ASSUME RunInv, Binding, LineBalance, TouchedByOne, [Next]_vars
  PROVE  LineBalance'
<1> DEFINE Sum(f, S) == SumFunctionOnSet(f, S)
<1>0. /\ OwingLines \in SUBSET Workers /\ IsFiniteSet(OwingLines) /\ TypeOK
      /\ \A w \in Workers : Lines[w] \in Nat /\ Lines[w] = tally[w].logs
      /\ Sum(Lines, OwingLines) \in Nat
      /\ tally \in [Workers -> Counts]
      /\ root \in Counts /\ root.logs \in Nat
      /\ asserted \in Counts /\ asserted.success \in Nat
      /\ asserted.failed \in Nat /\ asserted.logs \in Nat
  BY OwingType, SumType DEF RunInv, TypeOK, Counts
<1>1. SUFFICES asserted'.logs = root'.logs + Sum(Lines', OwingLines')
  BY DEF LineBalance
<1>2. CASE /\ \A t \in Threads : ~Spawn(t) /\ ~Merge(t) /\ ~MergeLogs(t) /\ ~CheckPasses(t)
           /\ \A w \in Workers : ~CheckFails(w)
  <2>1. OwingLines' = OwingLines
    BY <1>2, OwingKeptByRest, ReturnOwing
  <2>2. UNCHANGED <<tally, root, asserted>>
    BY <1>2, NothingCounted
  <2> QED
    BY <2>1, <2>2 DEF LineBalance, Lines
<1>3. ASSUME NEW t \in Threads, Spawn(t)
      PROVE  asserted'.logs = root'.logs + Sum(Lines', OwingLines')
  <2>1. PICK w \in Workers : /\ w \notin OwingLines /\ OwingLines' = OwingLines \union {w}
                             /\ tally' = [tally EXCEPT ![w] = NoCounts]
                             /\ UNCHANGED <<root, asserted>>
    BY <1>3, SpawnOwing
  <2>2. Lines'[w] = 0 /\ \A v \in OwingLines : Lines'[v] = Lines[v]
    BY <1>0, <2>1 DEF Lines, NoCounts
  <2>3. Sum(Lines', OwingLines) = Sum(Lines, OwingLines)
    BY <1>0, <2>2, SumSame
  <2>4. Sum(Lines', OwingLines \union {w}) = Lines'[w] + Sum(Lines', OwingLines)
    <3>1. \A v \in OwingLines \union {w} : Lines'[v] \in Int
      BY <1>0, <2>2
    <3> QED
      BY <1>0, <2>1, <3>1, SumWith
  <2> QED
    BY <1>0, <2>1, <2>2, <2>3, <2>4 DEF LineBalance
<1>4. ASSUME NEW t \in Threads, NEW w \in OwingLines,
             OwingLines' = OwingLines \ {w}, Lines' = Lines, asserted' = asserted,
             root'.logs = root.logs + Lines[w]
      PROVE  asserted'.logs = root'.logs + Sum(Lines', OwingLines')
  <2>1. Sum(Lines, OwingLines) = Lines[w] + Sum(Lines, OwingLines \ {w})
    <3>1. \A v \in OwingLines : Lines[v] \in Int
      BY <1>0
    <3> QED
      BY <1>0, <1>4, <3>1, SumWithout
  <2>2. Sum(Lines, OwingLines \ {w}) \in Nat
    <3>1. IsFiniteSet(OwingLines \ {w}) /\ \A v \in OwingLines \ {w} : Lines[v] \in Nat
      BY <1>0, FS_RemoveElement
    <3> QED
      BY <3>1, SumType
  <2>3. Lines[w] \in Nat
    BY <1>0, <1>4
  <2> QED
    BY <1>0, <1>4, <2>1, <2>2, <2>3 DEF LineBalance
<1>5. ASSUME NEW t \in Threads, Merge(t)
      PROVE  asserted'.logs = root'.logs + Sum(Lines', OwingLines')
  <2> DEFINE w == workers[t][merged[t] + 1]
  <2>1. /\ pc[t] = "merge" /\ AddResults(t, tally[w].success, tally[w].failed)
        /\ asserted' = asserted
    BY <1>5 DEF Merge, At, history
  <2>2. /\ w \in Workers \ {t} /\ w \in OwingLines
        /\ OwingLines' = IF tally[w].logs > 0 THEN OwingLines ELSE OwingLines \ {w}
    BY <1>5, MergeOwing
  <2> HIDE DEF w
  <2>3. root'.logs = root.logs /\ Lines' = Lines
    <3>1. tally[w].success \in Nat /\ tally[w].failed \in Nat
      BY <1>0, <2>2 DEF Counts
    <3>2. bound[t] => t \in Workers
      BY DEF Binding, Threads
    <3> QED
      BY <1>0, <2>1, <3>1, <3>2, LinesLeft
  <2>4. CASE tally[w].logs > 0
    BY <2>1, <2>2, <2>3, <2>4 DEF LineBalance
  <2>5. CASE ~(tally[w].logs > 0)
    <3>1. Lines[w] = 0
      BY <1>0, <2>2, <2>5
    <3>2. root'.logs = root.logs + Lines[w]
      BY <1>0, <2>3, <3>1
    <3> QED
      BY <1>4, <2>1, <2>2, <2>3, <2>5, <3>2
  <2> QED
    BY <2>4, <2>5
<1>6. ASSUME NEW t \in Threads, MergeLogs(t)
      PROVE  asserted'.logs = root'.logs + Sum(Lines', OwingLines')
  <2> DEFINE w == workers[t][merged[t] + 1]
  <2>1. pc[t] = "logging" /\ tally' = tally /\ asserted' = asserted
    BY <1>6 DEF MergeLogs, At, workerVars, history
  <2>2. w \in OwingLines /\ OwingLines' = OwingLines \ {w}
    BY <1>6, MergeLogsOwing
  <2>3. root' = [root EXCEPT !.logs = @ + tally[w].logs]
    <3>1. ~ \E u \in Threads \ {t} : pc[u] = "logging"
      BY <2>1 DEF TouchedByOne
    <3> QED
      BY <1>6, <3>1 DEF MergeLogs
  <2> HIDE DEF w
  <2>4. root'.logs = root.logs + Lines[w] /\ Lines' = Lines
    BY <1>0, <2>1, <2>2, <2>3 DEF Counts, Lines
  <2> QED
    BY <1>4, <2>1, <2>2, <2>4
<1>7. ASSUME NEW t \in Threads, CheckPasses(t)
      PROVE  asserted'.logs = root'.logs + Sum(Lines', OwingLines')
  <2>1. /\ pc[t] = "body" /\ AddResults(t, 1, 0)
        /\ asserted' = [asserted EXCEPT !.success = @ + 1]
    BY <1>7 DEF CheckPasses, At
  <2>2. asserted'.logs = asserted.logs /\ asserted'.success = asserted.success + 1
    BY <1>0, <2>1 DEF Counts
  <2>3. OwingLines' = OwingLines
    <3>1. \A u \in Threads : ~Spawn(u) /\ ~Return(u) /\ ~Merge(u) /\ ~MergeLogs(u)
      BY <1>0, <2>2 DEF Spawn, Return, Merge, MergeLogs, history
    <3> QED
      BY <3>1, OwingKeptByRest
  <2>4. root'.logs = root.logs /\ Lines' = Lines
    <3>1. bound[t] => t \in Workers
      BY DEF Binding, Threads
    <3>2. ASSUME NEW n \in Nat, NEW k \in Nat, AddResults(t, n, k)
          PROVE  root'.logs = root.logs /\ Lines' = Lines
      BY <1>0, <3>1, <3>2, LinesLeft
    <3> QED
      BY <2>1, <3>2
  <2> QED
    BY <2>2, <2>3, <2>4 DEF LineBalance
<1>8. ASSUME NEW w \in Workers, CheckFails(w)
      PROVE  asserted'.logs = root'.logs + Sum(Lines', OwingLines')
  <2>1. /\ pc[w] = "body" /\ root' = root
        /\ tally' = [tally EXCEPT ![w].failed = @ + 1, ![w].logs = @ + 1]
        /\ asserted' = [asserted EXCEPT !.failed = @ + 1, !.logs = @ + 1]
    BY <1>8 DEF CheckFails, At
  <2>2. asserted'.logs = asserted.logs + 1
    BY <1>0, <2>1 DEF Counts
  <2>3. OwingLines' = OwingLines
    <3>1. \A u \in Threads : ~Spawn(u) /\ ~Return(u) /\ ~Merge(u) /\ ~MergeLogs(u)
      BY <1>0, <2>2 DEF Spawn, Return, Merge, MergeLogs, history
    <3> QED
      BY <3>1, OwingKeptByRest
  <2>4. w \in OwingLines
    BY <2>1, AtWorkOwes
  <2>5. Lines'[w] = Lines[w] + 1 /\ \A v \in OwingLines \ {w} : Lines'[v] = Lines[v]
    BY <1>0, <2>1 DEF Lines, Counts
  <2>6. Sum(Lines', OwingLines) = Sum(Lines, OwingLines) + 1
    <3>1. \A v \in OwingLines : Lines[v] \in Int
      BY <1>0
    <3> QED
      BY <1>0, <2>4, <2>5, <3>1, SumGrows
  <2> QED
    BY <1>0, <2>1, <2>2, <2>3, <2>6 DEF LineBalance
<1> QED
  BY <1>2, <1>3, <1>5, <1>6, <1>7, <1>8

-----------------------------------------------------------------------------
(* The theorems. *)

\* Nobody is started, nothing has been asserted.
LEMMA TallyInit == Init => Binding /\ Rooted /\ CountBalance /\ LineBalance
<1> SUFFICES ASSUME Init PROVE Binding /\ Rooted /\ CountBalance /\ LineBalance
  OBVIOUS
<1> USE ThreadsAssumption DEF Threads
<1>1. \A w \in Workers : pc[w] = "unborn"
  BY DEF Init
<1>2. Binding
  BY <1>1 DEF Binding, Init, InCall
<1>3. Rooted
  BY <1>1 DEF Rooted
<1>4. Owing = {} /\ OwingLines = {}
  BY <1>1 DEF Owing, OwingLines
<1>5. CountBalance /\ LineBalance
  BY <1>4, SumEmpty DEF CountBalance, LineBalance, Init, NoCounts
<1> QED
  BY <1>2, <1>3, <1>5

\* When the test case is not in a call of run, no worker is left.
LEMMA NobodyLeft ==
  ASSUME RunInv, Rooted, pc[Main] \in {"body", "done"}
  PROVE  Owing = {} /\ OwingLines = {}
<1> DEFINE C == {w \in Workers : pc[w] # "unborn"}
<1>1. ASSUME NEW w \in C PROVE caller[w] \in C
  BY CallerInCall DEF RunInv, InCall, Threads
<1>2. C = {}
  BY <1>1 DEF Rooted
<1> QED
  BY <1>2 DEF Owing, OwingLines

\* Whatever calls of run are nested in one another: when the test case is not
\* in one, it has counted every assertion that passed and every one that
\* failed, once.
CountsArrive ==
  pc[Main] \in {"body", "done"} =>
    root.success = asserted.success /\ root.failed = asserted.failed

THEOREM EveryResultIsCounted == Spec => []CountsArrive
<1> DEFINE Inv == RunInv /\ Binding /\ Rooted /\ CountBalance
<1>1. Init => Inv
  BY RunInvInit, TallyInit
<1>2. Inv /\ [Next]_vars => Inv'
  BY RunInvNext, BindingNext, RootedNext, CountBalanceNext
<1>3. ASSUME Inv PROVE CountsArrive
  <2> SUFFICES ASSUME pc[Main] \in {"body", "done"}
               PROVE  root.success = asserted.success /\ root.failed = asserted.failed
    BY DEF CountsArrive
  <2>1. root.success \in Nat /\ root.failed \in Nat
    BY <1>3 DEF RunInv, TypeOK, Counts
  <2> QED
    BY <1>3, <2>1, NobodyLeft, SumEmpty DEF CountBalance
<1> QED
  BY <1>1, <1>2, <1>3, PTL DEF Spec

\* Its log has every line as well, as long as no two threads append to it at
\* once: there run has no lock.
THEOREM EveryAssertionIsCounted == Spec /\ []TouchedByOne => []EveryAssertionCounted
<1> DEFINE Inv == RunInv /\ Binding /\ Rooted /\ CountBalance /\ LineBalance
<1>1. Init => Inv
  BY RunInvInit, TallyInit
<1>2. Inv /\ TouchedByOne /\ [Next]_vars => Inv'
  BY RunInvNext, BindingNext, RootedNext, CountBalanceNext, LineBalanceNext
<1>3. ASSUME Inv PROVE EveryAssertionCounted
  <2> SUFFICES ASSUME pc[Main] \in {"body", "done"} PROVE root = asserted
    BY DEF EveryAssertionCounted
  <2>1. root \in Counts /\ asserted \in Counts
    BY <1>3 DEF RunInv, TypeOK
  <2>2. root.success \in Nat /\ root.failed \in Nat /\ root.logs \in Nat
    BY <2>1 DEF Counts
  <2>3. /\ root.success = asserted.success /\ root.failed = asserted.failed
        /\ root.logs = asserted.logs
    BY <1>3, <2>2, NobodyLeft, SumEmpty DEF CountBalance, LineBalance
  <2> QED
    BY <2>1, <2>3 DEF Counts
<1> QED
  BY <1>1, <1>2, <1>3, PTL DEF Spec

\* Where bodies do not call run themselves, that is so.
THEOREM OneCallAppendsAlone == ~Nested /\ Spec => []TouchedByOne
<1> DEFINE Inv == RunInv /\ Binding
<1>1. Init => Inv
  BY RunInvInit, TallyInit
<1>2. Inv /\ [Next]_vars => Inv'
  BY RunInvNext, BindingNext
<1>3. ASSUME ~Nested, Inv PROVE TouchedByOne
  BY <1>3 DEF Binding, InCall, TouchedByOne, Threads
<1>4. ASSUME ~Nested PROVE Spec => []TouchedByOne
  BY <1>1, <1>2, <1>3, <1>4, PTL DEF Spec
<1> QED
  BY <1>4
==============================================================================

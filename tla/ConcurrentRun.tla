---------------------------- MODULE ConcurrentRun ----------------------------
(***************************************************************************)
(* The concurrency harness of testrixa: concurrency::run of thread.h with  *)
(* its StartGate, and the ThreadTally routing of core.hpp that keeps the   *)
(* assertions of worker threads away from the test case's own bookkeeping. *)
(*                                                                         *)
(* Any thread inside a body may call run: Main in the test case, a worker  *)
(* in its body when Nested allows it.  A worker's tally, ok and error      *)
(* belong to the call that started it.  root counts what reached m_root,   *)
(* m_temp and m_log_lst.  The history variable asserted counts what the    *)
(* bodies asserted, wherever it went.                                      *)
(***************************************************************************)
EXTENDS Integers, Sequences, FiniteSets, Functions

CONSTANTS
  Main,             \* the thread the test case runs on
  Workers,          \* threads there are to start
  NoThread,
  Thrown,           \* what a body may throw: a std::exception with a "message",
                    \* one with "nowhat" to say, something "unknown"
  Nested,           \* may the body of a worker call run?
  ThreadsMayFail,   \* may the constructor of std::thread throw?
  MaxRuns,          \* bound: calls of run
  MaxPasses, MaxFailures    \* bounds: assertions that pass, and that fail

ASSUME ThreadsAssumption ==
  IsFiniteSet(Workers) /\ Main \notin Workers /\ NoThread \notin Workers \union {Main}
ASSUME BodiesAssumption ==
  /\ Thrown \subseteq {"message", "unknown", "nowhat"}
  /\ Nested \in BOOLEAN /\ ThreadsMayFail \in BOOLEAN
  /\ MaxRuns \in Nat /\ MaxPasses \in Nat /\ MaxFailures \in Nat

Threads == Workers \union {Main}

VARIABLES
  pc,
  bound,            \* is the thread's currentThreadTally its own tally?
  caller,           \* the thread whose call of run started this one
  tally,            \* tallies[i]
  ok, error,        \* ok[i] and errors[i]
  stop,             \* TestFailStop
  threads, workers, \* of a call of run: how many, and the ones started so far
  m_remaining, m_open,   \* of a call of run: its StartGate
  merged,           \* of a call of run: workers merged so far
  result,           \* of a call of run: its Result
  root,             \* the test case's own counts and log lines
  terminated,       \* std::terminate was called
  asserted, outcome, runs   \* history: assertions, how bodies ended, calls

workerVars == <<caller, tally, ok, error>>
regionVars == <<threads, workers, m_remaining, m_open, merged, result>>
history    == <<asserted, outcome, runs>>
vars == <<stop, pc, bound, workerVars, regionVars, root, terminated, history>>

NoCounts == [success |-> 0, failed |-> 0, logs |-> 0]
NoResult == [failed |-> 0, exceptions |-> 0]

Init ==
  /\ stop \in BOOLEAN
  /\ pc = [t \in Threads |-> IF t = Main THEN "body" ELSE "unborn"]
  /\ bound = [t \in Threads |-> FALSE]
  /\ caller = [w \in Workers |-> NoThread]
  /\ tally = [w \in Workers |-> NoCounts]
  /\ ok = [w \in Workers |-> TRUE]
  /\ error = [w \in Workers |-> "none"]
  /\ threads = [t \in Threads |-> 0]
  /\ workers = [t \in Threads |-> <<>>]
  /\ m_remaining = [t \in Threads |-> 0]
  /\ m_open = [t \in Threads |-> FALSE]
  /\ merged = [t \in Threads |-> 0]
  /\ result = [t \in Threads |-> NoResult]
  /\ root = NoCounts
  /\ terminated = FALSE
  /\ asserted = NoCounts
  /\ outcome = [t \in Threads |-> NoResult]
  /\ runs = 0

At(t, label) == ~terminated /\ pc[t] = label

Goto(t, label) == pc' = [pc EXCEPT ![t] = label]

Unborn == {w \in Workers : pc[w] = "unborn"}

\* The threads counted on by calls of run that are still starting theirs.
Reserved == SumFunction([t \in {u \in Threads : pc[u] = "spawn"} |->
                           threads[t] - Len(workers[t])])

-----------------------------------------------------------------------------
(* run, on the thread that calls it. *)

\* How many arrivals open the gate.  The mutant takes the last for granted.
ExpectedOthers(n) == n - 1

Expected(n) == n

\* With no threads there is nothing to start, and nothing to wait for.
Run(t, n) ==
  /\ At(t, "body") /\ (t = Main \/ Nested)
  /\ runs < MaxRuns /\ Reserved + n <= Cardinality(Unborn)
  /\ threads' = [threads EXCEPT ![t] = n]
  /\ workers' = [workers EXCEPT ![t] = <<>>]
  /\ m_remaining' = [m_remaining EXCEPT ![t] = Expected(n)]
  /\ m_open' = [m_open EXCEPT ![t] = FALSE]
  /\ merged' = [merged EXCEPT ![t] = 0]
  /\ result' = [result EXCEPT ![t] = NoResult]
  /\ outcome' = [outcome EXCEPT ![t] = NoResult]
  /\ runs' = runs + 1
  /\ IF n = 0 THEN UNCHANGED pc ELSE Goto(t, "spawn")
  /\ UNCHANGED <<stop, bound, workerVars, root, terminated, asserted>>

\* workers.emplace_back starts one more thread.
Spawn(t) ==
  /\ At(t, "spawn")
  /\ \E w \in Unborn :
       /\ workers' = [workers EXCEPT ![t] = Append(@, w)]
       /\ caller' = [caller EXCEPT ![w] = t]
       /\ tally' = [tally EXCEPT ![w] = NoCounts]
       /\ ok' = [ok EXCEPT ![w] = TRUE]
       /\ error' = [error EXCEPT ![w] = "none"]
       /\ pc' = [pc EXCEPT ![w] = "bind",
                           ![t] = IF Len(workers'[t]) = threads[t] THEN "join" ELSE @]
  /\ UNCHANGED <<stop, bound, threads, m_remaining, m_open, merged, result, root, terminated,
                 history>>

\* The constructor throws: the vector of joinable threads is destroyed, which
\* terminates the process, unless there is none yet and the caller is a body.
SpawnFails(t) ==
  /\ At(t, "spawn") /\ ThreadsMayFail
  /\ IF workers[t] = <<>> /\ t \in Workers
     THEN /\ error' = [error EXCEPT ![t] = "message"]
          /\ outcome' = [outcome EXCEPT ![caller[t]].exceptions = @ + 1]
          /\ Goto(t, "unbind")
          /\ UNCHANGED terminated
     ELSE terminated' = TRUE /\ UNCHANGED <<pc, error, outcome>>
  /\ UNCHANGED <<stop, bound, caller, tally, ok, regionVars, root, asserted, runs>>

Join(t) ==
  /\ At(t, "join")
  /\ \A i \in DOMAIN workers[t] : pc[workers[t][i]] = "ended"
  /\ Goto(t, "merge")
  /\ UNCHANGED <<stop, bound, workerVars, regionVars, root, terminated, history>>

-----------------------------------------------------------------------------
(* Where an assertion is counted: in the thread's tally when one is bound. *)

CountedIn(counts, success, failed) ==
  [counts EXCEPT !.success = @ + success, !.failed = @ + failed]

\* Mutant: add_result goes on after it has found a tally.
AddResultsTwice(t, success, failed) ==
  /\ tally' = IF bound[t] THEN [tally EXCEPT ![t] = CountedIn(@, success, failed)]
              ELSE tally
  /\ root' = CountedIn(root, success, failed)

\* add_result, as many times as there are results.
AddResults(t, success, failed) ==
  IF bound[t]
  THEN /\ tally' = [tally EXCEPT ![t] = CountedIn(@, success, failed)]
       /\ UNCHANGED root
  ELSE /\ root' = CountedIn(root, success, failed)
       /\ UNCHANGED tally

\* run sees an exception by its message.  The mutant misses std::exception.
SeenUnknown(e) == e = "unknown"

Seen(e) == e \notin {"none", "nowhat"}

\* mergeThreadTally, its counts; then what the worker left in ok and errors.
Merge(t) ==
  /\ At(t, "merge") /\ merged[t] < Len(workers[t])
  /\ LET w == workers[t][merged[t] + 1]
     IN /\ AddResults(t, tally[w].success, tally[w].failed)
        /\ result' = [result EXCEPT ![t] =
             [failed     |-> IF ok[w] THEN @.failed ELSE @.failed + 1,
              exceptions |-> IF Seen(error[w]) THEN @.exceptions + 1
                             ELSE @.exceptions]]
        /\ IF tally[w].logs > 0
           THEN Goto(t, "logging") /\ UNCHANGED merged
           ELSE merged' = [merged EXCEPT ![t] = @ + 1] /\ UNCHANGED pc
  /\ UNCHANGED <<stop, bound, caller, ok, error, threads, workers, m_remaining, m_open,
                 terminated, history>>

\* ... and its log lines, which go to m_temp or to the last of m_log_lst, with
\* no tally in between.  Two threads appending at once may lose some.
MergeLogs(t) ==
  /\ At(t, "logging")
  /\ LET lines == tally[workers[t][merged[t] + 1]].logs
         raced == \E u \in Threads \ {t} : pc[u] = "logging"
     IN \E kept \in IF raced THEN 0..lines ELSE {lines} :
          root' = [root EXCEPT !.logs = @ + kept]
  /\ merged' = [merged EXCEPT ![t] = @ + 1]
  /\ Goto(t, "merge")
  /\ UNCHANGED <<stop, bound, workerVars, threads, workers, m_remaining, m_open, result,
                 terminated, history>>

Return(t) ==
  /\ At(t, "merge") /\ merged[t] = Len(workers[t])
  /\ pc' = [u \in Threads |-> IF u = t THEN "body"
                              ELSE IF u \in Range(workers[t]) THEN "unborn" ELSE pc[u]]
  /\ workers' = [workers EXCEPT ![t] = <<>>]
  /\ UNCHANGED <<stop, bound, workerVars, threads, m_remaining, m_open, merged, result, root,
                 terminated, history>>

-----------------------------------------------------------------------------
(* A worker. *)

BindThreadTally(w) ==
  /\ At(w, "bind")
  /\ bound' = [bound EXCEPT ![w] = TRUE]
  /\ Goto(w, "arrive")
  /\ UNCHANGED <<stop, workerVars, regionVars, root, terminated, history>>

\* Who a notification wakes.  The mutant wakes one thread.
NotifiedOne(t) ==
  LET waiting == {w \in Workers : pc[w] = "wait" /\ caller[w] = t}
  IN IF waiting = {} THEN {} ELSE {CHOOSE w \in waiting : TRUE}

Notified(t) == {w \in Workers : pc[w] = "wait" /\ caller[w] = t}

\* arriveAndWait under the gate's mutex; waiting releases it.
Arrive(w) ==
  /\ At(w, "arrive")
  /\ LET t == caller[w]
     IN /\ m_remaining' = [m_remaining EXCEPT ![t] = @ - 1]
        /\ IF m_remaining[t] = 1
           THEN /\ m_open' = [m_open EXCEPT ![t] = TRUE]
                /\ pc' = [u \in Threads |-> IF u = w THEN "body"
                                            ELSE IF u \in Notified(t) THEN "woken"
                                            ELSE pc[u]]
           ELSE Goto(w, "wait") /\ UNCHANGED m_open
  /\ UNCHANGED <<stop, bound, workerVars, threads, workers, merged, result, root, terminated,
                 history>>

\* A condition variable may wake a thread that nobody notified.
WakeSpuriously(w) ==
  /\ At(w, "wait")
  /\ Goto(w, "woken")
  /\ UNCHANGED <<stop, bound, workerVars, regionVars, root, terminated, history>>

\* What a woken thread asks before it goes on.  The mutant does not ask.
MayPassAlways(w) == TRUE

MayPass(w) == m_open[caller[w]]

Wake(w) ==
  /\ At(w, "woken")
  /\ Goto(w, IF MayPass(w) THEN "body" ELSE "wait")
  /\ UNCHANGED <<stop, bound, workerVars, regionVars, root, terminated, history>>

\* A body returns a value, after a failed CHECK or otherwise; an exception is
\* caught, and leaves ok as it was.
BodyReturns(w, value) ==
  /\ ok' = [ok EXCEPT ![w] = value]
  /\ outcome' = [outcome EXCEPT ![caller[w]].failed = IF value THEN @ ELSE @ + 1]
  /\ Goto(w, "unbind")
  /\ UNCHANGED error

BodyThrows(w, what) ==
  /\ error' = [error EXCEPT ![w] = what]
  /\ outcome' = [outcome EXCEPT ![caller[w]].exceptions = @ + 1]
  /\ Goto(w, "unbind")
  /\ UNCHANGED ok

BodyEnds(w) ==
  /\ At(w, "body")
  /\ (\E value \in BOOLEAN : BodyReturns(w, value)) \/ (\E what \in Thrown : BodyThrows(w, what))
  /\ UNCHANGED <<stop, bound, caller, tally, regionVars, root, terminated, asserted, runs>>

UnbindThreadTally(w) ==
  /\ At(w, "unbind")
  /\ bound' = [bound EXCEPT ![w] = FALSE]
  /\ Goto(w, "ended")
  /\ UNCHANGED <<stop, workerVars, regionVars, root, terminated, history>>

-----------------------------------------------------------------------------
(* Assertions, in a body or in the test case itself. *)

CheckPasses(t) ==
  /\ At(t, "body") /\ asserted.success < MaxPasses
  /\ AddResults(t, 1, 0)
  /\ asserted' = [asserted EXCEPT !.success = @ + 1]
  /\ UNCHANGED <<stop, pc, bound, caller, ok, error, regionVars, terminated, outcome, runs>>

\* A CHECK that fails is counted and logged; under fail-stop it returns false.
CheckFails(w) ==
  /\ At(w, "body") /\ bound[w] /\ asserted.failed < MaxFailures
  /\ tally' = [tally EXCEPT ![w].failed = @ + 1, ![w].logs = @ + 1]
  /\ asserted' = [asserted EXCEPT !.failed = @ + 1, !.logs = @ + 1]
  /\ IF stop THEN BodyReturns(w, FALSE) ELSE UNCHANGED <<pc, ok, error, outcome>>
  /\ UNCHANGED <<stop, bound, caller, regionVars, root, terminated, runs>>

\* The test case ends.
Finish ==
  /\ At(Main, "body")
  /\ Goto(Main, "done")
  /\ UNCHANGED <<stop, bound, workerVars, regionVars, root, terminated, history>>

\* A test case that ended, and a process that was terminated, do nothing more.
Gone == (terminated \/ pc[Main] = "done") /\ UNCHANGED vars

-----------------------------------------------------------------------------
ContinueRun(t) ==
  Spawn(t) \/ SpawnFails(t) \/ Join(t) \/ Merge(t) \/ MergeLogs(t) \/ Return(t)

ContinueWorker(w) ==
  BindThreadTally(w) \/ Arrive(w) \/ Wake(w) \/ BodyEnds(w) \/ UnbindThreadTally(w)

Next ==
  \/ \E t \in Threads :
       \/ ContinueRun(t) \/ CheckPasses(t)
       \/ \E n \in 0..Cardinality(Workers) : Run(t, n)
  \/ \E w \in Workers : ContinueWorker(w) \/ WakeSpuriously(w) \/ CheckFails(w)
  \/ Finish
  \/ Gone

Spec == Init /\ [][Next]_vars

\* Threads are scheduled, and a body comes to an end.
FairSpec ==
  /\ Spec
  /\ \A t \in Threads : WF_vars(ContinueRun(t))
  /\ \A w \in Workers : WF_vars(ContinueWorker(w))

-----------------------------------------------------------------------------
(* Properties. *)

Labels == {"unborn", "bind", "arrive", "wait", "woken", "body", "unbind", "ended",
           "spawn", "join", "merge", "logging", "done"}

Counts == [success : Nat, failed : Nat, logs : Nat]
Results == [failed : Nat, exceptions : Nat]

TypeOK ==
  /\ stop \in BOOLEAN
  /\ pc \in [Threads -> Labels]
  /\ bound \in [Threads -> BOOLEAN]
  /\ caller \in [Workers -> Threads \union {NoThread}]
  /\ tally \in [Workers -> Counts]
  /\ ok \in [Workers -> BOOLEAN]
  /\ error \in [Workers -> {"none"} \union Thrown \union {"message"}]
  /\ threads \in [Threads -> Nat]
  /\ workers \in [Threads -> Seq(Workers)]
  /\ m_remaining \in [Threads -> Nat]
  /\ m_open \in [Threads -> BOOLEAN]
  /\ merged \in [Threads -> Nat]
  /\ result \in [Threads -> Results]
  /\ root \in Counts /\ asserted \in Counts
  /\ terminated \in BOOLEAN
  /\ outcome \in [Threads -> Results]
  /\ runs \in Nat

Started == {"body", "unbind", "ended", "spawn", "join", "merge", "logging"}

\* "Workers actually overlap": no body has begun before every worker of its
\* call has arrived at the gate, however threads are woken.
StartTogether ==
  \A w \in Workers : pc[w] \in Started =>
    LET t == caller[w]
    IN /\ Len(workers[t]) = threads[t]
       /\ \A i \in DOMAIN workers[t] :
            pc[workers[t][i]] \in {"wait", "woken"} \union Started

\* Assertions made by workers "work and are counted": when no call of run is
\* under way the test case has counted every one of them, and only once.
EveryAssertionCounted ==
  pc[Main] \in {"body", "done"} => root = asserted

\* The Result of a call says how many bodies returned false and how many
\* threw, whatever the order they ended in.
ResultExact ==
  \A t \in Threads : pc[t] \in {"body", "done"} => result[t] = outcome[t]

\* "The framework's single-threaded bookkeeping is never touched concurrently":
\* no two threads are appending log lines to it at once.
TouchedByOne ==
  \A t, u \in Threads : pc[t] = "logging" /\ pc[u] = "logging" => t = u

\* A call of run comes back, or the process is gone.
RunReturns ==
  pc[Main] \in {"spawn", "join", "merge", "logging"}
    ~> (pc[Main] = "body" \/ terminated)

==============================================================================

-------------------------------- MODULE Stress --------------------------------
(***************************************************************************)
(* The repetition of testrixa's stress.h: repeat and repeatFor around a    *)
(* body that returns true or false, and the checks made of their result. *)
(* The clock is a choice; times of the runs are left out.                  *)
(***************************************************************************)
EXTENDS Integers, Sequences, FiniteSets, FiniteSetsExt

CONSTANTS
  Budgets,          \* iterations or milliseconds that a check declares
  Tolerances,       \* failures it allows: 0, or CHECK_FAILURES_UNDER's limit
  Word,             \* size_t counts modulo Word
  MaxRuns           \* bound: runs of a repeatFor

ASSUME StressAssumption ==
  /\ Budgets \subseteq Nat /\ Tolerances \subseteq Nat
  /\ Word \in Nat \ {0, 1} /\ MaxRuns \in Nat \ {0}

VARIABLES
  loop,             \* "idle", "running", "over"
  check,            \* what the check declares
  budget,
  reps,             \* result
  outcomes          \* history: what the body returned, run by run

stressVars == <<loop, check, budget, reps, outcomes>>

NoResult == [iterations |-> 0, failures |-> 0, firstFailure |-> 0]

NoCheck == [declared |-> 0, timed |-> FALSE, tolerance |-> 0]

StressInit ==
  /\ loop = "idle"
  /\ check = NoCheck
  /\ budget = 0 /\ reps = NoResult /\ outcomes = <<>>

-----------------------------------------------------------------------------
\* scaled, in the arithmetic of size_t.  The mutant may scale a budget away.
ScaledAway(declared, percent) == ((declared * percent) % Word) \div 100

Scaled(declared, percent) ==
  LET value == ((declared * percent) % Word) \div 100
  IN IF value = 0 THEN 1 ELSE value

giveUp(limit, so) == limit > 0 /\ so.failures >= limit

\* The result after one more run.
After(ok) ==
  LET n == reps.iterations + 1
  IN [iterations |-> n,
      failures |-> IF ok THEN reps.failures ELSE reps.failures + 1,
      firstFailure |-> IF ~ok /\ reps.firstFailure = 0 THEN n ELSE reps.firstFailure]

\* repeat and repeatFor, up to their first run.
BeginRepeat(declares, percent) ==
  /\ loop = "idle"
  /\ loop' = IF declares.timed \/ Scaled(declares.declared, percent) > 0 THEN "running" ELSE "over"
  /\ check' = declares
  /\ budget' = Scaled(declares.declared, percent)
  /\ reps' = NoResult /\ outcomes' = <<>>

\* May another run follow?  repeatFor asks the clock.
MayContinue(limit, so) ==
  /\ ~giveUp(limit, so)
  /\ so.iterations < IF check.timed THEN MaxRuns ELSE budget

oneRun(ok, limit) ==
  /\ loop = "running"
  /\ reps' = After(ok)
  /\ outcomes' = Append(outcomes, ok)
  /\ \/ MayContinue(limit, After(ok)) /\ loop' = "running"
     \/ /\ check.timed \/ ~MayContinue(limit, After(ok))
        /\ loop' = "over"
  /\ UNCHANGED <<check, budget>>

\* What is asserted of the result.
Stable == reps.failures <= check.tolerance

EndRepeat ==
  /\ loop = "over"
  /\ loop' = "idle" /\ check' = NoCheck
  /\ budget' = 0 /\ reps' = NoResult /\ outcomes' = <<>>

-----------------------------------------------------------------------------
(* Properties. *)

StressTypes ==
  /\ loop \in {"idle", "running", "over"}
  /\ budget \in 0..Word - 1
  /\ reps \in [iterations : Nat, failures : Nat, firstFailure : Nat]
  /\ outcomes \in Seq(BOOLEAN)

\* The result says what the runs of the body were: their number, how many of
\* them failed and which was the first.  There is one run at least and no more
\* than the budget scaled to percent; a repeat gives up early only at the
\* failure that makes up the limit; and a check that holds has had its whole
\* budget, unless the limit is one that it tolerates.
StressResultExact(percent, limit) ==
  loop = "over" =>
    LET runs   == Len(outcomes)
        failed == {i \in 1..runs : ~outcomes[i]}
        whole  == Max({1, (check.declared * percent) \div 100})
    IN /\ runs >= 1
       /\ reps.iterations = runs /\ reps.failures = Cardinality(failed)
       /\ reps.firstFailure = IF failed = {} THEN 0 ELSE Min(failed)
       /\ limit > 0 => Cardinality(failed) <= limit
       /\ ~check.timed =>
            /\ runs <= whole
            /\ runs < whole => Cardinality(failed) = limit /\ ~outcomes[runs]
            /\ Stable /\ (limit = 0 \/ limit > check.tolerance) => runs = whole

==============================================================================

-------------------------------- MODULE Runner --------------------------------
(***************************************************************************)
(* The test runner of testrixa's core.hpp: testAll over the list of test   *)
(* cases, run() with its phases and fixture, the groups and counters that  *)
(* assertions are recorded in, the log lines and when they are printed,    *)
(* the rows of the memory phase, the results kept for the JUnit report,    *)
(* and fail-stop.                                                          *)
(*                                                                         *)
(* o is the test case object that is running: its m_root, m_temp,          *)
(* m_group_lst and m_log_lst, and what it has printed.  A GroupInfo is     *)
(* owned by m_log_lst; m_group_lst only points at it, by the group's id.   *)
(* Failures are numbered, and a log line is the number of its failure, or  *)
(* that of a time measurement, negated.  A MemoryTally is the sequence of  *)
(* the reports merged into it, by number.  Names and times are left out.   *)
(***************************************************************************)
EXTENDS Integers, Sequences, FiniteSets, SequencesExt

CONSTANTS
  Cases,            \* test cases, numbered in list order
  Offers,           \* hasStress() and hasMemory() of every case
  Askable,          \* the phases that testAll may be asked for
  TearDownChecks,   \* where tearDown may make assertions, see Situation
  TearDownFails,    \* where tearDown may return false
  MaxChecks,        \* bound: assertions of one behaviour
  MaxGroups,        \* bound: groups of one behaviour
  MaxDepth,         \* bound: groups nested in one another
  MaxTimes,         \* bound: time measurements of one behaviour
  MaxTallies        \* bound: memory reports recorded in one case

PhaseOrder == <<"BASIC", "MEASURE", "STRESS", "MEMORY">>

ASSUME RunnerAssumption ==
  /\ Cases \in Nat /\ Offers \in [1..Cases -> SUBSET {"STRESS", "MEMORY"}]
  /\ Askable \subseteq SUBSET Range(PhaseOrder)
  /\ TearDownChecks \union TearDownFails \subseteq {"stop", "stopped", "noStop"}
  /\ MaxChecks \in Nat /\ MaxGroups \in Nat /\ MaxDepth \in Nat
  /\ MaxTimes \in Nat /\ MaxTallies \in Nat

VARIABLES
  stop,             \* TestFailStop
  selected,         \* cases the selector matches
  asked,            \* phases testAll is to run
  pc,               \* "main", "next", "setUp", "body", "tearDown", "done"
  case, phase,      \* positions in Cases and in the phases that are due
  o,
  ret,              \* what run() is going to return
  stopped,          \* run() ends after this tearDown
  total, fail, scnt, n_run,   \* of testAll
  results,          \* Results::all()
  checks, failures, \* history: assertions so far, and failures of any kind
  times, tallied,   \* history: time measurements, memory reports of this case
  truth,            \* history: of every group, the assertions made inside it
  ended,            \* history: groups that have ended, in order
  calls             \* history: setUps that came up or failed, tearDowns

chosen    == <<stop, selected, asked>>
tallyVars == <<total, fail, scnt, n_run>>
measured  == <<checks, times, tallied>>
noted     == <<measured, failures, truth, ended>>
history   == <<noted, calls>>
vars == <<chosen, pc, case, phase, o, ret, stopped, tallyVars, results, history>>

-----------------------------------------------------------------------------
(* GroupInfo, and the list of them. *)

NoInfo == [id |-> 0, total |-> 0, failed |-> 0, measure |-> 0, logs |-> <<>>, memory |-> <<>>]

Counted(info, success) ==
  [info EXCEPT !.total = @ + 1, !.failed = IF success THEN @ ELSE @ + 1]

Logged(info, line) == [info EXCEPT !.logs = Append(@, line)]

\* A test case as its constructor leaves it.
NewCase == [root |-> NoInfo, temp |-> NoInfo, group_lst |-> <<>>, log_lst |-> <<>>,
            printed |-> <<>>, rows |-> <<>>, totalRow |-> <<>>, dangled |-> FALSE]

Owned(obj) == {obj.log_lst[i].id : i \in DOMAIN obj.log_lst}

\* Which groups a result is counted in.  The mutant counts the innermost only.
CountedInInnermost(obj) ==
  IF obj.group_lst = <<>> THEN {} ELSE {Last(obj.group_lst)}

CountedIn(obj) == Range(obj.group_lst)

\* add_result, with no tally bound.  It follows the pointers of m_group_lst,
\* to groups that may be gone.
AddResult(obj, success) ==
  LET inGroup == obj.group_lst # <<>>
  IN [obj EXCEPT
       !.root = Counted(@, success),
       !.temp = IF inGroup THEN @ ELSE Counted(@, success),
       !.log_lst = IF inGroup
                   THEN [i \in DOMAIN @ |-> IF @[i].id \in CountedIn(obj)
                                            THEN Counted(@[i], success) ELSE @[i]]
                   ELSE @,
       !.dangled = @ \/ ~(Range(obj.group_lst) \subseteq Owned(obj))]

\* add_memory: a report is counted in the innermost group.  The mutant counts
\* it in every group that is open, as a result is.
TalliedInAll(obj) == Range(obj.group_lst)

TalliedIn(obj) == IF obj.group_lst = <<>> THEN {} ELSE {Last(obj.group_lst)}

AddMemory(obj, tally) ==
  LET merged(info) == [info EXCEPT !.memory = Append(@, tally)]
      inGroup == obj.group_lst # <<>>
  IN [obj EXCEPT
       !.root = merged(@),
       !.temp = IF inGroup THEN @ ELSE merged(@),
       !.log_lst = [i \in DOMAIN @ |-> IF @[i].id \in TalliedIn(obj)
                                       THEN merged(@[i]) ELSE @[i]],
       !.dangled = @ \/ ~(TalliedIn(obj) \subseteq Owned(obj))]

\* logconsole: the line goes to m_temp, or to the last group started.
AddLog(obj, line) ==
  IF obj.log_lst = <<>>
  THEN [obj EXCEPT !.temp = Logged(@, line)]
  ELSE [obj EXCEPT !.log_lst[Len(obj.log_lst)] = Logged(@, line)]

\* The phases that are run for case c, in order, and the one that is running.
Due(c) ==
  LET taken(p) == IF p \in asked /\ (p \in {"STRESS", "MEMORY"} => p \in Offers[c])
                  THEN <<p>> ELSE <<>>
  IN taken("BASIC") \o taken("MEASURE") \o taken("STRESS") \o taken("MEMORY")

Phase == IF case > 0 /\ phase \in DOMAIN Due(case) THEN Due(case)[phase] ELSE "NONE"

\* add_measure_count: m_root counts the measurements of the measure phase.
CountedTime(obj) ==
  IF Phase = "MEASURE" THEN [obj EXCEPT !.root.measure = @ + 1] ELSE obj

\* info() and log_time_result: a time measurement's line goes to the innermost
\* group that is open, or to m_temp.
AddTime(obj, line) ==
  IF obj.group_lst = <<>>
  THEN [obj EXCEPT !.temp = Logged(@, line)]
  ELSE [obj EXCEPT !.log_lst = [i \in DOMAIN @ |-> IF @[i].id = Last(obj.group_lst)
                                                  THEN Logged(@[i], line) ELSE @[i]],
                   !.dangled = @ \/ Last(obj.group_lst) \notin Owned(obj)]

\* GroupInfo::clear leaves m_measure and m_memory as they are.
Cleared(info) == [NoInfo EXCEPT !.measure = info.measure, !.memory = info.memory]

is_logging(info) == info.logs # <<>> \/ info.total > 0

\* group_dump shows m_memory in the memory phase, and the counters elsewhere.
Row(info) == IF Phase = "MEMORY" THEN info.memory ELSE <<>>

\* m_temp is printed and cleared when it has something to say.
DumpTemp(obj) ==
  IF ~is_logging(obj.temp) THEN obj
  ELSE [obj EXCEPT !.printed = @ \o obj.temp.logs, !.rows = @ \o Row(obj.temp),
                   !.temp = Cleared(@)]

\* dump_basic_end and the others, at the end of a phase.
DumpEnd(obj) ==
  LET dumped == DumpTemp(obj)
  IN IF Phase = "MEMORY" THEN [dumped EXCEPT !.totalRow = obj.root.memory] ELSE dumped

\* The lines of the groups.  The mutant prints the first group's only.
GroupLinesOfFirst(obj) == IF obj.log_lst = <<>> THEN <<>> ELSE Head(obj.log_lst).logs

GroupLines(obj) == FlattenSeq([i \in DOMAIN obj.log_lst |-> obj.log_lst[i].logs])

\* dump_group_end, which is also stop_dump.
DumpGroupEnd(obj) ==
  LET dumped == DumpTemp(obj)
  IN [dumped EXCEPT !.printed = @ \o GroupLines(obj),
                    !.rows = @ \o FlattenSeq([i \in DOMAIN obj.log_lst |-> Row(obj.log_lst[i])]),
                    !.log_lst = <<>>]

\* change_type clears both scratch groups when a phase begins.
ChangeType(obj) == [obj EXCEPT !.root = Cleared(@), !.temp = Cleared(@)]

\* A failed hook is counted, and its line goes to m_temp wherever it happens.
FixtureFailed(obj, line) ==
  LET counted == AddResult(obj, FALSE)
  IN [counted EXCEPT !.temp = Logged(@, line)]

-----------------------------------------------------------------------------
Init ==
  /\ stop = TRUE /\ selected = {} /\ asked = {}
  /\ pc = "main" /\ case = 0 /\ phase = 0
  /\ o = NewCase
  /\ ret = 1 /\ stopped = FALSE
  /\ total = 0 /\ fail = 0 /\ scnt = 0 /\ n_run = 0
  /\ results = <<>>
  /\ checks = 0 /\ failures = 0 /\ times = 0 /\ tallied = 0
  /\ truth = <<>> /\ ended = <<>> /\ calls = <<>>

-----------------------------------------------------------------------------
(* testAll. *)

testAll(bStop, matching, phases) ==
  /\ pc = "main"
  /\ pc' = "next"
  /\ stop' = bStop /\ selected' = matching /\ asked' = phases
  /\ UNCHANGED <<case, phase, o, ret, stopped, tallyVars, results, history>>

\* Mutant: the verdict of the last case is asked.
FailStoppedByLast == ret = 0 /\ stop

FailStopped == fail > 0 /\ stop

\* After a failure, fail-stop only counts the cases that are left.
CountNotRun ==
  /\ pc = "next" /\ case < Cases
  /\ FailStopped
  /\ case' = case + 1
  /\ n_run' = IF case + 1 \in selected THEN n_run + 1 ELSE n_run
  /\ total' = IF case + 1 \in selected THEN total + 1 ELSE total
  /\ calls' = <<>>
  /\ UNCHANGED <<chosen, pc, phase, o, ret, stopped, fail, scnt, results, noted>>

\* run() of a case the selector does not match passes.
PassOver ==
  /\ pc = "next" /\ case < Cases
  /\ ~FailStopped
  /\ case + 1 \notin selected
  /\ case' = case + 1
  /\ calls' = <<>>
  /\ UNCHANGED <<chosen, pc, phase, o, ret, stopped, tallyVars, results, noted>>

BeginCase ==
  /\ pc = "next" /\ case < Cases
  /\ ~FailStopped
  /\ case + 1 \in selected /\ Due(case + 1) # <<>>
  /\ case' = case + 1
  /\ phase' = 1
  /\ pc' = "setUp"
  /\ o' = [NewCase EXCEPT !.printed = o.printed]
  /\ ret' = 1
  /\ calls' = <<>> /\ tallied' = 0
  /\ UNCHANGED <<chosen, stopped, tallyVars, results, checks, times, failures, truth, ended>>

\* None of the phases asked for is one this case has: run() returns success.
RunNothing ==
  /\ pc = "next" /\ case < Cases
  /\ ~FailStopped
  /\ case + 1 \in selected /\ Due(case + 1) = <<>>
  /\ case' = case + 1
  /\ total' = total + 1 /\ scnt' = scnt + 1
  /\ ret' = 1
  /\ calls' = <<>>
  /\ UNCHANGED <<chosen, pc, phase, o, stopped, fail, n_run, results, noted>>

\* Mutant: the case of a failure falls through to the case of a success.
EndCaseFallsThrough(value) ==
  /\ pc' = "next"
  /\ total' = IF value = 0 THEN total + 2 ELSE total + 1
  /\ fail' = IF value = 0 THEN fail + 1 ELSE fail
  /\ scnt' = scnt + 1

\* run() returns to testAll.
EndCase(value) ==
  /\ pc' = "next"
  /\ total' = total + 1
  /\ fail' = IF value = 0 THEN fail + 1 ELSE fail
  /\ scnt' = IF value = 1 THEN scnt + 1 ELSE scnt

Finish ==
  /\ pc = "next" /\ case = Cases
  /\ pc' = "done"
  /\ UNCHANGED <<chosen, case, phase, o, ret, stopped, tallyVars, results, history>>

\* What testAll returns.
rc == IF total > 0 THEN fail ELSE -2

-----------------------------------------------------------------------------
(* run: one phase after another, each with its fixture. *)

Called(hook) == Append(calls, <<hook, Phase>>)

\* Mutant: a phase whose setUp failed is skipped, and the case goes on.
SetUpFailedSkips(obj, line) ==
  /\ failures' = line
  /\ ret' = 0
  /\ calls' = Called("failed")
  /\ IF phase < Len(Due(case))
     THEN /\ o' = ChangeType(DumpEnd(FixtureFailed(obj, line)))
          /\ phase' = phase + 1
          /\ pc' = "setUp"
          /\ UNCHANGED tallyVars
     ELSE /\ o' = DumpEnd(FixtureFailed(obj, line))
          /\ EndCase(0) /\ UNCHANGED <<phase, n_run>>

\* enterFixture is false: the case ends there, whatever phases are left.
SetUpFailed(obj, line) ==
  /\ failures' = line
  /\ calls' = Called("failed")
  /\ o' = DumpEnd(FixtureFailed(obj, line))
  /\ EndCase(0)
  /\ UNCHANGED <<phase, ret, n_run>>

SetUp ==
  /\ pc = "setUp"
  /\ \/ /\ pc' = "body"
        /\ calls' = Called("setUp")
        /\ UNCHANGED <<phase, o, ret, tallyVars, failures>>
     \/ SetUpFailed(o, failures + 1)
  /\ UNCHANGED <<chosen, case, stopped, results, measured, truth, ended>>

\* What the body returns decides whether the case goes on after tearDown.
BodyReturned(value) ==
  /\ pc' = "tearDown"
  /\ calls' = Called("tearDown")
  /\ stopped' = (~value /\ stop)
  /\ ret' = IF value THEN ret ELSE 0

\* Mutant: the counter of the scratch group is asked.
ResultOfTemp(obj) == obj.temp.failed = 0

result(obj) == obj.root.failed = 0

\* TESTCASE_RETURN, with every group closed.
EndBody ==
  /\ pc = "body" /\ o.group_lst = <<>>
  /\ BodyReturned(result(o))
  /\ UNCHANGED <<chosen, case, phase, o, tallyVars, results, measured, failures, truth, ended>>

\* leaveFixture, the end of the phase, and what comes after it.
Leave(obj, value, line) ==
  LET left == IF value THEN obj ELSE FixtureFailed(obj, line)
      verdict == IF value THEN ret ELSE 0
  IN /\ failures' = line
     /\ stopped' = FALSE
     /\ ret' = verdict
     /\ IF ~stopped /\ phase < Len(Due(case))
        THEN /\ o' = ChangeType(DumpEnd(left))
             /\ phase' = phase + 1
             /\ pc' = "setUp"
             /\ UNCHANGED tallyVars
        ELSE /\ o' = DumpEnd(left)
             /\ EndCase(IF stopped THEN 0 ELSE verdict)
             /\ UNCHANGED <<phase, n_run>>

\* Where a tearDown finds itself: under fail-stop, after a body it stopped,
\* or without it.
Situation == IF stopped THEN "stopped" ELSE IF stop THEN "stop" ELSE "noStop"

TearDown ==
  /\ pc = "tearDown"
  /\ \E value \in BOOLEAN :
       /\ ~value => Situation \in TearDownFails
       /\ Leave(o, value, IF value THEN failures ELSE failures + 1)
  /\ UNCHANGED <<chosen, case, results, measured, truth, ended, calls>>

-----------------------------------------------------------------------------
(* What a phase does: groups, assertions and measurements. *)

MayCheck ==
  /\ checks < MaxChecks
  /\ pc \in {"setUp", "body"} \/ (pc = "tearDown" /\ Situation \in TearDownChecks)

InTruth(success) ==
  truth' = [g \in DOMAIN truth |-> IF g \in Range(o.group_lst)
                                   THEN Counted(truth[g], success) ELSE truth[g]]

CheckPasses ==
  /\ MayCheck
  /\ o' = AddResult(o, TRUE)
  /\ checks' = checks + 1
  /\ InTruth(TRUE)
  /\ UNCHANGED <<chosen, pc, case, phase, ret, stopped, tallyVars, results, failures,
                 times, tallied, ended, calls>>

\* Without fail-stop the function that failed goes on.
CheckFails ==
  /\ MayCheck /\ ~stop
  /\ o' = AddLog(AddResult(o, FALSE), failures + 1)
  /\ checks' = checks + 1
  /\ failures' = failures + 1
  /\ InTruth(FALSE)
  /\ UNCHANGED <<chosen, pc, case, phase, ret, stopped, tallyVars, results, times, tallied,
                 ended, calls>>

\* With it, what there is to print is printed and the function returns false,
\* out of every group that is open.
CheckStops ==
  /\ MayCheck /\ stop
  /\ LET dumped == DumpGroupEnd(AddLog(AddResult(o, FALSE), failures + 1))
     IN \/ /\ pc = "body"
           /\ failures' = failures + 1
           /\ o' = dumped
           /\ BodyReturned(FALSE)
           /\ UNCHANGED <<phase, tallyVars>>
        \/ /\ pc = "setUp"
           /\ SetUpFailed(dumped, failures + 2)
           /\ UNCHANGED stopped
        \/ /\ pc = "tearDown"
           /\ Leave(dumped, FALSE, failures + 2)
           /\ UNCHANGED calls
  /\ checks' = checks + 1
  /\ InTruth(FALSE)
  /\ UNCHANGED <<chosen, case, results, times, tallied, ended>>

\* CHECK_TIME.
MeasureTime ==
  /\ pc = "body" /\ times < MaxTimes
  /\ o' = AddTime(CountedTime(o), -(times + 1))
  /\ times' = times + 1
  /\ UNCHANGED <<chosen, pc, case, phase, ret, stopped, tallyVars, results, checks, tallied,
                 failures, truth, ended, calls>>

\* MEMORY_REPORT, in a group of the memory phase.
RecordMemory ==
  /\ pc = "body" /\ Phase = "MEMORY" /\ o.group_lst # <<>>
  /\ tallied < MaxTallies
  /\ o' = AddMemory(o, tallied + 1)
  /\ tallied' = tallied + 1
  /\ UNCHANGED <<chosen, pc, case, phase, ret, stopped, tallyVars, results, checks, times,
                 failures, truth, ended, calls>>

startGroup ==
  /\ pc = "body"
  /\ Len(truth) < MaxGroups /\ Len(o.group_lst) < MaxDepth
  /\ LET g == Len(truth) + 1
     IN /\ o' = [o EXCEPT !.log_lst = Append(@, [NoInfo EXCEPT !.id = g]),
                          !.group_lst = Append(@, g)]
        /\ truth' = Append(truth, [NoInfo EXCEPT !.id = g])
  /\ UNCHANGED <<chosen, pc, case, phase, ret, stopped, tallyVars, results, measured,
                 failures, ended, calls>>

\* Is it the outermost group that ends?  The mutant does not ask.
OutermostAlways(obj) == TRUE

Outermost(obj) == Len(obj.group_lst) = 1

Find(obj, g) == obj.log_lst[CHOOSE i \in DOMAIN obj.log_lst : obj.log_lst[i].id = g]

\* The result is taken before the outermost group's end prints and frees them.
endGroup ==
  /\ pc = "body" /\ o.group_lst # <<>>
  /\ LET g == Last(o.group_lst)
         info == Find(o, g)
         dumped == IF Outermost(o) THEN DumpGroupEnd(o) ELSE o
     IN /\ results' = Append(results,
             [case |-> case, phase |-> Phase, id |-> g, total |-> info.total,
              failed |-> info.failed, detail |-> IF info.failed > 0 THEN info.logs ELSE <<>>])
        /\ o' = [dumped EXCEPT !.group_lst = Front(@)]
        /\ ended' = Append(ended, g)
  /\ UNCHANGED <<chosen, pc, case, phase, ret, stopped, tallyVars, measured, failures, truth,
                 calls>>

Gone == pc = "done" /\ UNCHANGED vars

-----------------------------------------------------------------------------
(* The JUnit report. *)

SuiteOf(r) == <<r.case, r.phase>>

\* A suite is opened by its first result.  The mutant does not look for one.
OpensAgain(kept, j) == TRUE

Opens(kept, j) == \A i \in 1..j - 1 : SuiteOf(kept[i]) # SuiteOf(kept[j])

\* What kept has at some of its positions, in its order.
InOrder(kept, at) ==
  [k \in 1..Cardinality(at) |->
     kept[CHOOSE j \in at : Cardinality({i \in at : i <= j}) = k]]

\* One suite for each case and phase, in the order they ran, with its groups.
ReportOf(kept) ==
  LET opening == InOrder(kept, {j \in DOMAIN kept : Opens(kept, j)})
  IN [n \in DOMAIN opening |->
        LET suite == SuiteOf(opening[n])
            testcases == InOrder(kept, {j \in DOMAIN kept : SuiteOf(kept[j]) = suite})
        IN [suite |-> suite, testcases |-> testcases,
            failures |-> Cardinality({k \in DOMAIN testcases : testcases[k].failed > 0})]]

writeJUnit == ReportOf(results)

-----------------------------------------------------------------------------
Steps ==
  \/ CountNotRun \/ PassOver \/ BeginCase \/ RunNothing \/ Finish
  \/ SetUp \/ EndBody \/ TearDown
  \/ CheckPasses \/ CheckFails \/ CheckStops
  \/ MeasureTime \/ RecordMemory
  \/ startGroup \/ endGroup

Next ==
  \/ \E bStop \in BOOLEAN, matching \in SUBSET (1..Cases), phases \in Askable :
       testAll(bStop, matching, phases)
  \/ Steps
  \/ Gone

Spec == Init /\ [][Next]_vars

-----------------------------------------------------------------------------
(* Properties. *)

Infos == [id : Nat, total : Nat, failed : Nat, measure : Nat, logs : Seq(Int), memory : Seq(Nat)]

TypeOK ==
  /\ stop \in BOOLEAN /\ selected \subseteq 1..Cases /\ asked \subseteq Range(PhaseOrder)
  /\ pc \in {"main", "next", "setUp", "body", "tearDown", "done"}
  /\ case \in 0..Cases /\ phase \in 0..Len(PhaseOrder)
  /\ o.root \in Infos /\ o.temp \in Infos
  /\ o.group_lst \in Seq(Nat) /\ o.log_lst \in Seq(Infos)
  /\ o.printed \in Seq(Int) /\ o.rows \in Seq(Nat) /\ o.totalRow \in Seq(Nat)
  /\ o.dangled \in BOOLEAN
  /\ ret \in {0, 1} /\ stopped \in BOOLEAN
  /\ total \in 0..Cases /\ fail \in 0..Cases /\ scnt \in 0..Cases /\ n_run \in 0..Cases
  /\ total = fail + scnt + n_run
  /\ Len(results) = Len(ended)
  /\ truth \in Seq(Infos)
  /\ checks \in 0..MaxChecks /\ failures \in Nat
  /\ times \in 0..MaxTimes /\ tallied \in 0..MaxTallies

\* A group counts every assertion made inside it, those of the groups nested
\* in it included, while it runs and in the result kept for the report.
GroupCountsExact ==
  /\ \A i \in DOMAIN o.log_lst :
       LET info == o.log_lst[i]
       IN info.total = truth[info.id].total /\ info.failed = truth[info.id].failed
  /\ \A i \in DOMAIN results :
       LET info == results[i]
       IN /\ info.id = ended[i]
          /\ info.total = truth[info.id].total /\ info.failed = truth[info.id].failed

\* The line of every failure and of every time measurement reaches the console,
\* once, by the time run() returns: wherever it was put, and whether or not
\* fail-stop cut the phase.
PrintedOnce ==
  pc \in {"next", "done"} =>
    /\ Range(o.printed) = 1..failures \union {-n : n \in 1..times}
    /\ Len(o.printed) = failures + times

\* Every memory report of a case is in exactly one row of its memory table, and
\* in the table's total, wherever the groups were nested and even if fail-stop
\* cut the phase.
MemoryRowsExact ==
  pc \in {"next", "done"} =>
    \A table \in {o.rows, o.totalRow} :
      Range(table) = 1..tallied /\ Len(table) = tallied

\* add_result, add_memory and log_time_result never follow a pointer of
\* m_group_lst to a group that dump_group_end has freed.
GroupsAlive == ~o.dangled

\* testAll returns 0 exactly when a case was selected and nothing failed: "-2
\* no test case ran", "> 0 number of failed test cases".
VerdictExact ==
  pc = "done" => (rc = 0 <=> selected # {} /\ failures = 0)

\* What the hooks of a case do when nothing goes wrong.
Fixtures(c) ==
  FlattenSeq([i \in DOMAIN Due(c) |-> <<<<"setUp", Due(c)[i]>>, <<"tearDown", Due(c)[i]>>>>])

\* "Run around every phase": each phase has a fixture of its own, which is up
\* while its body runs; a fixture that came up is taken down before the next
\* and before the case ends, whatever failed; a setUp that fails is the last
\* hook of its case; and only a failure ends a case before its last phase.
FixturesExact ==
  LET up == IF calls # <<>> /\ Last(calls)[1] = "failed" THEN Front(calls) ELSE calls
  IN /\ case > 0 /\ calls # <<>> => IsPrefix(up, Fixtures(case))
     /\ pc = "body" => Last(calls) = <<"setUp", Phase>>
     /\ pc \in {"next", "done"} /\ calls # <<>> =>
          /\ Last(calls)[1] # "setUp"
          /\ up # Fixtures(case) => failures > 0 /\ fail > 0

\* Fail-stop starts no other case after a failure of any kind.
NoCaseAfterFailure ==
  [][stop /\ failures > 0 => ~(pc = "next" /\ pc' = "setUp")]_vars

\* The report has every group that ended, once and in order, under its own case
\* and phase, and its failure counts add up to the groups that failed.
ReportExact ==
  pc = "done" =>
    LET report == writeJUnit
    IN /\ FlattenSeq([i \in DOMAIN report |-> report[i].testcases]) = results
       /\ SumFunction([i \in DOMAIN report |-> report[i].failures])
            = Cardinality({i \in DOMAIN ended : truth[ended[i]].failed > 0})

\* "It puts failures on the pull request": every group in which an assertion
\* failed is a failure of the report.
ReportCarriesFailures ==
  pc = "done" =>
    \A g \in DOMAIN truth : truth[g].failed > 0 =>
      \E i \in DOMAIN writeJUnit : \E r \in Range(writeJUnit[i].testcases) :
        r.id = g /\ r.failed > 0

==============================================================================

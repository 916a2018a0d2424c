-------------------------------- MODULE Program --------------------------------
(***************************************************************************)
(* A whole test binary: main scans the command line, asks testAll for what *)
(* it selected, writes the report and exits.  In a stress phase a check    *)
(* repeats its body under the options of the command line.                 *)
(*                                                                         *)
(* Locals of main that are not read again are reset when testAll is called *)
(* and the history of the arguments is dropped, to keep the states few.    *)
(***************************************************************************)
EXTENDS Runner, CommandLine, Stress

CONSTANTS
  Matching,         \* of every name, the cases that it selects (strCaseCmp)
  ScaleOption,      \* the options of stress.h in Registry
  StopAfterOption,
  Writes,           \* how writing the report may end, see WriteReport
  Composed          \* bound: the command lines that are run to the end

ASSUME ProgramAssumption ==
  /\ Matching \in [DOMAIN Matching -> SUBSET (1..Cases)]
  /\ \A a \in Arguments : a.is = "case" => a.name \in DOMAIN Matching \union {""}
  /\ ScaleOption \in Options /\ StopAfterOption \in Options
  /\ \A at \in {ScaleOption, StopAfterOption} :
       LET option == Option(at)
       IN /\ option.kind = "int" /\ option.min \in Nat /\ option.max \in Nat
          /\ option.default \in option.min..option.max
  /\ Writes \subseteq {"written", "noticed", "lost"} /\ Composed \subseteq Seq(Arguments)

VARIABLES
  file              \* the report on disk, NoReport if there is none

NoReport == <<>>

programVars == <<scanVars, vars, stressVars, file>>

percent == optionValue[ScaleOption]
limit   == optionValue[StopAfterOption]

-----------------------------------------------------------------------------
ProgramInit ==
  /\ ScanInit /\ Init /\ StressInit
  /\ file = NoReport

ScanArgument ==
  /\ Scan
  /\ UNCHANGED <<vars, stressVars, file>>

\* The name on the command line selects the cases: all of them without one.
CallTestAll ==
  /\ MayRun /\ given \in Composed
  /\ testAll(settings.stop,
             IF settings.command = "" THEN 1..Cases ELSE Matching[settings.command],
             settings.phases)
  /\ stage' = "run"
  /\ verdict' = "run"
  /\ given' = <<>>
  /\ settings' = [Defaults EXCEPT !.junitPath = settings.junitPath]
  /\ UNCHANGED <<optionValue, optionSet, exit, stressVars, file>>

RunnerStep ==
  /\ stage = "run" /\ loop = "idle"
  /\ Steps
  /\ UNCHANGED <<scanVars, stressVars, file>>

\* CHECK_STABLE, CHECK_STABLE_FOR and CHECK_FAILURES_UNDER.
StressCheck ==
  /\ stage = "run" /\ pc = "body" /\ Phase = "STRESS" /\ checks < MaxChecks
  /\ \E declared \in Budgets, timed \in BOOLEAN, tolerance \in Tolerances :
       /\ timed => tolerance = 0
       /\ BeginRepeat([declared |-> declared, timed |-> timed, tolerance |-> tolerance], percent)
  /\ UNCHANGED <<scanVars, vars, file>>

StressRun ==
  /\ \E ok \in BOOLEAN : oneRun(ok, limit)
  /\ UNCHANGED <<scanVars, vars, file>>

\* The result is asserted like anything else.
StressAsserted ==
  /\ EndRepeat
  /\ IF Stable THEN CheckPasses ELSE CheckFails \/ CheckStops
  /\ UNCHANGED <<scanVars, file>>

\* Mutant: only a count of failures makes main return 1.
ExitStatusOfFailures == IF rc > 0 THEN 1 ELSE 0

ExitStatus == IF rc = 0 THEN 0 ELSE 1

\* A write fails when the file is opened or as it is written, which is noticed,
\* or when the stream is closed, which is after out.good() has been asked.
WriteReport ==
  /\ stage = "run" /\ pc = "done"
  /\ settings.junitPath # ""
  /\ \E write \in Writes :
       /\ file' = IF write = "written" THEN <<writeJUnit>> ELSE NoReport
       /\ Exits(IF write = "noticed" THEN 1 ELSE ExitStatus)
  /\ UNCHANGED <<given, settings, optionValue, optionSet, verdict, vars, stressVars>>

ExitWithout ==
  /\ stage = "run" /\ pc = "done"
  /\ settings.junitPath = ""
  /\ Exits(ExitStatus)
  /\ UNCHANGED <<given, settings, optionValue, optionSet, verdict, vars, stressVars, file>>

\* Also where the bound on command lines that are run ends a behaviour.
Exited ==
  /\ stage = "exit" \/ (stage = "scan" /\ given \notin Composed)
  /\ UNCHANGED programVars

ProgramNext ==
  \/ ScanArgument \/ CallTestAll
  \/ RunnerStep \/ StressCheck \/ StressRun \/ StressAsserted
  \/ WriteReport \/ ExitWithout \/ Exited

ProgramSpec == ProgramInit /\ [][ProgramNext]_programVars

-----------------------------------------------------------------------------
(* Properties. *)

ProgramTypeOK ==
  /\ TypeOK /\ ScanTypes /\ StressTypes
  /\ Len(file) <= 1
  /\ loop # "idle" => pc = "body" /\ Phase = "STRESS"

\* The result of a stress check is exact under --stress.scale and
\* --stress.stop-after as they were given.
StressExact == StressResultExact(percent, limit)

\* Non-zero "for a failure, a bad argument", and "failing to write that file is
\* an error": the program exits with 0 exactly if it was asked for help or the
\* list, or some case was selected, there was no failure of any kind and the
\* report it was asked for is written.  (A selected case with none of the phases
\* asked for is enough, although nothing runs.)  A command line with an error
\* runs nothing and writes nothing.
ExitExact ==
  stage = "exit" =>
    /\ exit = 0 <=> \/ verdict = "told"
                    \/ /\ verdict = "run" /\ selected # {} /\ failures = 0
                       /\ settings.junitPath # "" => file = <<writeJUnit>>
    /\ verdict # "run" => pc = "main" /\ file = NoReport

==============================================================================

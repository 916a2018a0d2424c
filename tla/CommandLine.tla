------------------------------ MODULE CommandLine ------------------------------
(***************************************************************************)
(* The scan of the command line: main of testrixa's core.hpp, argument by  *)
(* argument, with the registry of component options that it asks first     *)
(* (detail/options.hpp).                                                   *)
(*                                                                         *)
(* An argument is a record whose field "is" says what it looks like: a     *)
(* switch by its long name, "phases" for --only= and --skip=, "option" for *)
(* --<group>.<key>, and so on.  What follows an '=' is a text: a word, and *)
(* the set of the integers that strtol makes of the whole of it, which has *)
(* one member or none.                                                     *)
(***************************************************************************)
EXTENDS Integers, Sequences, FiniteSets, SequencesExt

CONSTANTS
  Arguments,        \* the arguments that may be given
  MaxArguments,     \* bound: arguments of one command line
  Registry,         \* option groups in the order they registered
  MaxLoop,          \* TRX_MAX_LOOP_COUNT
  DefaultLoop       \* TRX_DEFAULT_LOOP_COUNT

AllPhases == {"BASIC", "MEASURE", "MEMORY", "STRESS"}

DefaultPhases == {"BASIC", "MEASURE"}

Texts == [word : STRING, number : SUBSET Int]

ASSUME CommandLineAssumption ==
  /\ MaxArguments \in Nat
  /\ MaxLoop \in Nat /\ DefaultLoop \in 1..MaxLoop
  /\ \A a \in Arguments :
       /\ a.is \in {"report", "mem", "stress", "list", "help", "no_stop", "detail", "measure",
                   "basic", "phases", "times", "unknown", "case", "option"}
       /\ a.is \in {"option", "times"} => \A m, n \in a.value.number : m = n

VARIABLES
  given,            \* history: the arguments read so far
  stage,            \* "scan", "run", "exit"
  settings,         \* the locals of main
  optionValue,      \* m_value of every option
  optionSet,        \* options with m_set
  exit,             \* the exit status
  verdict           \* history: "told", "rejected", "empty" or "run"

scanVars == <<given, stage, settings, optionValue, optionSet, exit, verdict>>

-----------------------------------------------------------------------------
(* The registry. *)

Options == UNION {{<<g, i>> : i \in DOMAIN Registry[g].options} : g \in DOMAIN Registry}

\* add: an option, by the order it registered in its group.
Option(at) == Registry[at[1]].options[at[2]]

First(positions) == {i \in positions : \A j \in positions : i <= j}

\* Mutant: the key is looked up in every group.
findOptionAnywhere(arg) == {at \in Options : Option(at).key = arg.key}

\* find and findOption: at most one option, the first of that name.
findOption(arg) ==
  LET groups == First({g \in DOMAIN Registry : Registry[g].name = arg.group})
  IN UNION {{<<g, i>> : i \in First({j \in DOMAIN Registry[g].options :
                                       Registry[g].options[j].key = arg.key})} : g \in groups}

\* assign, of the three classes of options: the value given, or none.
Assigned(option, arg) ==
  CASE option.kind = "flag" ->
         IF ~arg.hasValue \/ arg.value.word \in {"on", "1", "true"} THEN {TRUE}
         ELSE IF arg.value.word \in {"off", "0", "false"} THEN {FALSE} ELSE {}
    [] option.kind = "int" ->
         IF arg.hasValue THEN arg.value.number \intersect (option.min..option.max) ELSE {}
    [] OTHER ->
         {word \in {arg.value.word} : arg.hasValue /\ word \in option.allowed}

-----------------------------------------------------------------------------
(* What an argument does to the locals of main. *)

Defaults == [phases |-> DefaultPhases, loop |-> DefaultLoop, stop |-> TRUE, detail |-> FALSE,
             help |-> FALSE, wantList |-> FALSE, basicOnly |-> FALSE, timeOnly |-> FALSE,
             command |-> "", junitPath |-> ""]

Only(s, phases) == [s EXCEPT !.phases = phases, !.basicOnly = (phases = {"BASIC"}),
                             !.timeOnly = (phases = {"MEASURE"})]

\* Mutant: --skip starts from every phase.
PickedFromAll(s, arg) ==
  IF arg.skipping THEN AllPhases \ arg.names ELSE arg.names

\* --only= and --skip=.
Picked(s, arg) ==
  IF arg.skipping THEN s.phases \ arg.names ELSE arg.names

\* The locals after an argument, as a set: none if it is rejected.  The mutant
\* knows a few arguments, and some of them in the first place only.
ReadInPlace(s, arg) ==
  CASE arg.is = "list" -> IF s = Defaults THEN {[s EXCEPT !.wantList = TRUE]} ELSE {}
    [] arg.is = "case" -> {[s EXCEPT !.command = arg.name]}
    [] OTHER           -> {s}

Read(s, arg) ==
  CASE arg.is = "report"  -> IF arg.path = "" THEN {} ELSE {[s EXCEPT !.junitPath = arg.path]}
    [] arg.is = "mem"     -> {[s EXCEPT !.phases = {"MEMORY"}]}
    [] arg.is = "stress"  -> {[s EXCEPT !.phases = {"STRESS"}]}
    [] arg.is = "list"    -> {[s EXCEPT !.wantList = TRUE]}
    [] arg.is = "help"    -> {[s EXCEPT !.help = TRUE]}
    [] arg.is = "no_stop" -> {[s EXCEPT !.stop = FALSE]}
    [] arg.is = "detail"  -> {[s EXCEPT !.detail = TRUE]}
    [] arg.is = "measure" -> IF s.basicOnly THEN {}
                             ELSE {[s EXCEPT !.timeOnly = TRUE, !.phases = {"MEASURE"}]}
    [] arg.is = "basic"   -> IF s.timeOnly THEN {}
                             ELSE {[s EXCEPT !.basicOnly = TRUE, !.phases = {"BASIC"}]}
    [] arg.is = "phases"  -> IF arg.names = {} \/ ~(arg.names \subseteq AllPhases) THEN {}
                             ELSE {Only(s, Picked(s, arg))}
    [] arg.is = "times"   -> {[s EXCEPT !.loop = n] : n \in arg.value.number \intersect (1..MaxLoop)}
    [] arg.is = "unknown" -> {}
    [] arg.is = "case"    -> IF s.command # "" THEN {} ELSE {[s EXCEPT !.command = arg.name]}

-----------------------------------------------------------------------------
ScanInit ==
  /\ given = <<>> /\ stage = "scan"
  /\ settings = Defaults
  /\ optionValue = [at \in Options |-> Option(at).default]
  /\ optionSet = {}
  /\ exit = 0 /\ verdict = "none"

MayRead(arg) ==
  /\ stage = "scan" /\ Len(given) < MaxArguments
  /\ given' = Append(given, arg)

Exits(status) == stage' = "exit" /\ exit' = status

\* Dispatch::Applied.
AppliesOption(arg) ==
  /\ MayRead(arg) /\ arg.is = "option"
  /\ \E at \in findOption(arg) : \E value \in Assigned(Option(at), arg) :
       /\ optionValue' = [optionValue EXCEPT ![at] = value]
       /\ optionSet' = optionSet \union {at}
  /\ UNCHANGED <<stage, settings, exit, verdict>>

\* Dispatch::Failed: no such group, no such option in it, or a value it rejects.
RejectsOption(arg) ==
  /\ MayRead(arg) /\ arg.is = "option"
  /\ \A at \in findOption(arg) : Assigned(Option(at), arg) = {}
  /\ Exits(1) /\ verdict' = "rejected"
  /\ UNCHANGED <<settings, optionValue, optionSet>>

AcceptsArgument(arg) ==
  /\ MayRead(arg) /\ arg.is # "option"
  /\ \E s \in Read(settings, arg) : settings' = s
  /\ UNCHANGED <<stage, optionValue, optionSet, exit, verdict>>

\* An argument that is an error is the last one read.
RejectsArgument(arg) ==
  /\ MayRead(arg) /\ arg.is # "option"
  /\ Read(settings, arg) = {}
  /\ Exits(1) /\ verdict' = "rejected"
  /\ UNCHANGED <<settings, optionValue, optionSet>>

\* -l and -h come before anything is run.
ListsOrHelps ==
  /\ stage = "scan"
  /\ settings.wantList \/ settings.help
  /\ Exits(0) /\ verdict' = "told"
  /\ UNCHANGED <<given, settings, optionValue, optionSet>>

NothingToRun ==
  /\ stage = "scan" /\ ~settings.wantList /\ ~settings.help
  /\ settings.phases = {}
  /\ Exits(1) /\ verdict' = "empty"
  /\ UNCHANGED <<given, settings, optionValue, optionSet>>

MayRun ==
  /\ stage = "scan" /\ ~settings.wantList /\ ~settings.help
  /\ settings.phases # {}

Scan ==
  \/ \E arg \in Arguments :
       \/ AppliesOption(arg) \/ RejectsOption(arg)
       \/ AcceptsArgument(arg) \/ RejectsArgument(arg)
  \/ ListsOrHelps \/ NothingToRun

-----------------------------------------------------------------------------
(* Properties. *)

ScanTypes ==
  /\ given \in Seq(Arguments) /\ stage \in {"scan", "run", "exit"}
  /\ settings.phases \subseteq AllPhases /\ settings.loop \in 1..MaxLoop
  /\ DOMAIN optionValue = Options /\ optionSet \subseteq Options
  /\ exit \in {0, 1} /\ verdict \in {"none", "told", "rejected", "empty", "run"}

Selects(arg) == arg.is \in {"mem", "stress", "measure", "basic"} \/ (arg.is = "phases" /\ ~arg.skipping)

Selection(arg) ==
  CASE arg.is = "mem"     -> {"MEMORY"}
    [] arg.is = "stress"  -> {"STRESS"}
    [] arg.is = "measure" -> {"MEASURE"}
    [] arg.is = "basic"   -> {"BASIC"}
    [] OTHER              -> arg.names

\* The phases are those of the last argument that selects any, or the default
\* ones, less what later --skip= arguments name; and "can't use -b -m
\* together": both are taken only with an --only= or a --skip= between them.
SelectionExact ==
  stage = "scan" =>
    LET at   == {i \in DOMAIN given : Selects(given[i])}
        from == IF at = {} THEN 0 ELSE Max(at)
        skipped == {i \in from + 1..Len(given) : given[i].is = "phases"}
    IN /\ settings.phases = (IF at = {} THEN DefaultPhases ELSE Selection(given[from]))
                              \ UNION {given[i].names : i \in skipped}
       /\ \A i, j \in DOMAIN given :
            i < j /\ {given[i].is, given[j].is} = {"basic", "measure"} =>
              \E k \in i..j : given[k].is = "phases"

\* What two arguments have in common for their order to matter.
Concern(arg) ==
  CASE Selects(arg) \/ arg.is = "phases" -> <<"phases">>
    [] arg.is = "option" -> <<arg.group, arg.key>>
    [] OTHER -> <<arg.is>>

\* The locals that a scan of args ends with: none if one is rejected.
ReadAfter(all, arg) == IF arg.is = "option" THEN all ELSE UNION {Read(s, arg) : s \in all}

Scanned(args) ==
  LET scan[n \in 0..Len(args)] ==
        IF n = 0 THEN {Defaults} ELSE ReadAfter(scan[n - 1], args[n])
  IN scan[Len(args)]

\* "There is no positional special-casing: -l and -h work anywhere, the test
\* case name works anywhere": neighbours on the command line that are about
\* different things may change places.
PlaceFree ==
  stage = "scan" =>
    \A i \in 1..Len(given) - 1 :
      Concern(given[i]) # Concern(given[i + 1]) =>
        Scanned([given EXCEPT ![i] = given[i + 1], ![i + 1] = given[i]]) = {settings}

\* An option has the value of the last argument that spells it out, or its
\* default; it is set if there is one; and an argument that is rejected leaves
\* every option as it was.
OptionsExact ==
  verdict # "run" =>
    LET applied == IF verdict = "rejected" THEN Front(given) ELSE given
    IN \A at \in Options :
      LET uses == {i \in DOMAIN applied :
                     /\ applied[i].is = "option" /\ applied[i].group = Registry[at[1]].name
                     /\ applied[i].key = Option(at).key}
      IN /\ at \in optionSet <=> uses # {}
         /\ IF uses = {} THEN optionValue[at] = Option(at).default
            ELSE optionValue[at] \in Assigned(Option(at), applied[Max(uses)])

==============================================================================

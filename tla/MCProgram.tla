------------------------------- MODULE MCProgram -------------------------------
(***************************************************************************)
(* Two test cases, of which the second has no stress phase, and the option *)
(* group of stress.h, with another of the tests' registry demo.            *)
(***************************************************************************)
EXTENDS Program

MCOffers == <<{"STRESS", "MEMORY"}, {"MEMORY"}>>
MCAskable == {}

Text(w, n) == [word |-> w, number |-> n]

MCRegistry == <<
  [name |-> "stress", options |-> <<
     [key |-> "scale", kind |-> "int", min |-> 1, max |-> 10000, default |-> 100],
     [key |-> "stop-after", kind |-> "int", min |-> 0, max |-> 1000000, default |-> 0]>>],
  [name |-> "demo", options |-> <<
     [key |-> "enable", kind |-> "flag", default |-> FALSE],
     [key |-> "mode", kind |-> "string", allowed |-> {"fast", "paranoid"}, default |-> "fast"],
     [key |-> "scale", kind |-> "int", min |-> 1, max |-> 100, default |-> 1]>>]>>
MCScale     == <<1, 1>>
MCStopAfter == <<1, 2>>

ToOption(g, k, text) ==
  [is |-> "option", group |-> g, key |-> k, hasValue |-> TRUE, value |-> text]
Bare(g, k) ==
  [is |-> "option", group |-> g, key |-> k, hasValue |-> FALSE, value |-> Text("", {})]
Phases(names, skipping) == [is |-> "phases", names |-> names, skipping |-> skipping]

Mem        == [is |-> "mem"]
NoStop     == [is |-> "no_stop"]
JustStress == [is |-> "stress"]
Report     == [is |-> "report", path |-> "out.xml"]
Second     == [is |-> "case", name |-> "second"]
Nobody     == [is |-> "case", name |-> "nobody"]
OnlyStress == Phases({"STRESS", "MEMORY"}, FALSE)
SkipBasic  == Phases({"BASIC"}, TRUE)
Half       == ToOption("stress", "scale", Text("50", {50}))
StopAfter1 == ToOption("stress", "stop-after", Text("1", {1}))

MCArguments ==
  {Mem, NoStop, JustStress, Report, Second, Nobody, OnlyStress, SkipBasic, Half, StopAfter1}
  \union {[is |-> x] : x \in {"list", "help", "measure", "basic", "unknown"}}
  \union {[is |-> "times", value |-> Text("n", n)] : n \in {{30}, {1000000}}}
  \union {Phases({"BASIC", "MEASURE"}, TRUE), Phases({"BASIC", "unit"}, FALSE)}
  \union {ToOption("stress", "scale", Text("0", {0})), Bare("stress", "scale"),
          ToOption("demo", "enable", Text("off", {})), Bare("demo", "enable"),
          ToOption("demo", "mode", Text("paranoid", {})), ToOption("demo", "mode", Text("1", {1}))}

MCComposed ==
  {<<>>} \union {<<a>> : a \in {Mem, NoStop, JustStress, Report, Second, Nobody, OnlyStress, SkipBasic}}
  \union {<<OnlyStress, a>> : a \in {NoStop, Half, StopAfter1}}
  \union {<<Second, JustStress>>}
  \union {<<Report, a>> : a \in {Mem, NoStop, Nobody}}

MCMatching == [name \in {"second", "nobody"} |-> IF name = "second" THEN {2} ELSE {}]
==============================================================================

------------------------------- MODULE MCRunner -------------------------------
(***************************************************************************)
(* Test cases that offer every phase.                                      *)
(***************************************************************************)
EXTENDS Runner

AllOffer == [c \in 1..Cases |-> {"STRESS", "MEMORY"}]
BasicOrMemory == {{"BASIC"}, {"MEMORY"}, {"BASIC", "MEMORY"}}
==============================================================================

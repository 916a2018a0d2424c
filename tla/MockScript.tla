------------------------------- MODULE MockScript -------------------------------
(***************************************************************************)
(* What a mocked method promises its test: the actions queued for one call *)
(* each are a script.  Calls act it out line by line, each line at most    *)
(* once and in order, then do what is always done; a line is only left out *)
(* when it could not be copied.  Starting over starts the script over.     *)
(***************************************************************************)
EXTENDS Integers, Sequences

VARIABLES
  script,     \* lines of the script
  pending,    \* the ones still to be acted out
  always,     \* what is done after the script, if anything
  made,       \* calls made since the start
  served,     \* what calls have done so far
  lost        \* actions that could not be copied

vars == <<script, pending, always, made, served, lost>>

Init == script = <<>> /\ pending = <<>> /\ made = 0 /\ served = <<>> /\ lost = 0

Queue(line) ==
  /\ script' = Append(script, line)
  /\ pending' = Append(pending, line)
  /\ UNCHANGED <<always, made, served, lost>>

Change == UNCHANGED <<script, pending, made, served, lost>>

Begin == made' = made + 1 /\ UNCHANGED <<script, pending, always, served>>

ActScript ==
  /\ pending # <<>>
  /\ pending' = Tail(pending)
  /\ served' = Append(served, Head(pending))
  /\ UNCHANGED <<script, always, made, lost>>

LoseLine ==
  /\ pending' = IF pending = <<>> THEN <<>> ELSE Tail(pending)
  /\ lost' = lost + 1
  /\ UNCHANGED <<script, always, made, served>>

ActAlways ==
  /\ pending = <<>>
  /\ served' = Append(served, always)
  /\ UNCHANGED <<script, pending, always, made, lost>>

StartOver ==
  /\ made' = 0
  /\ pending' = script
  /\ UNCHANGED <<script, always, served>>

Next ==
  \/ script' # <<>> /\ Queue(script'[Len(script')])
  \/ Change \/ Begin \/ ActScript \/ LoseLine \/ ActAlways \/ StartOver

Spec == Init /\ [][Next]_vars

=============================================================================

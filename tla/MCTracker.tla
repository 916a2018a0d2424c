------------------------------ MODULE MCTracker ------------------------------
(***************************************************************************)
(* Small instances of Tracker for TLC.                                     *)
(***************************************************************************)
EXTENDS Tracker, TLC

CONSTANTS t1, t2, s1, s2

\* The configuration that the --mem.* options ask for.  Blocks are of 1 and 2
\* bytes here, and a byte stands for the megabyte that quarantine is given in.
configuration(preset, redzone, quarantine) ==
  [redzone         |-> redzone,
   checkRedzone    |-> preset # "fast" /\ redzone > 0,
   checkDoubleFree |-> preset # "fast",
   patternFill     |-> preset = "paranoid",
   quarantineBytes |-> quarantine]

Presets      == {configuration("default", 32, 3), configuration("paranoid", 48, 3),
                 configuration("paranoid", 0, 0)}
OnlyFast     == {configuration("fast", 32, 3)}
OnlyParanoid == {configuration("paranoid", 32, 3)}
OnlyTight    == {configuration("paranoid", 32, 1)}

OneThread  == {t1}
TwoThreads == {t1, t2}
TwoSlots   == {s1, s2}

AtStart == {0}
Disciplined == {"joined", "bypass", "oneconfig", "intact"}

-----------------------------------------------------------------------------
(* The promise, seen from the program: held are the payloads it owns, by the
   sequence number of their headers. *)

BlocksOf(S) == {[id |-> header[s].sequence, size |-> header[s].size] : s \in S}

InFlight == {t \in Threads :
  /\ pc[t] \in {"lookup", "notOurs", "inspect", "unlink"}
  /\ header[ptr[t][1]].magic = "live" /\ Tracked(ptr[t])}

heldBlocks == BlocksOf({p[1] : p \in {q \in owned : Tracked(q)}})

freedBlocks == BlocksOf({ptr[t][1] : t \in InFlight})

openedScopes ==
  [i \in DOMAIN scopes |-> [made     |-> scopes[i].sequence - 1,
                            returned |-> scopes[i].frees,
                            faults   |-> scopes[i].opening]]

Promised == {"allocations", "frees", "leakedBlocks", "leakedBytes"} \union DOMAIN truth

finishedReport ==
  IF pc[Main] = "sample" THEN {} ELSE {[f \in Promised |-> r[f]] : r \in report}

Promise == INSTANCE MemoryPromise WITH
  held <- heldBlocks, freeing <- freedBlocks,
  made <- counts.allocations, returned <- counts.frees, faults <- truth,
  scopes <- openedScopes, report <- finishedReport

\* Every report of a Scope is the one the promise gives: what leaked is judged
\* by the pointers the program holds, not by the tracker's own list.
KeepsPromise == Promise!Spec

==============================================================================

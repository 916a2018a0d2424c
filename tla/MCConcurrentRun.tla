--------------------------- MODULE MCConcurrentRun ---------------------------
(***************************************************************************)
(* Three workers: enough for a call of run whose workers are woken one     *)
(* after another, and for a worker that runs one or two of its own.        *)
(***************************************************************************)
EXTENDS ConcurrentRun, TLC

WorkerSymmetry == Permutations(Workers)
==============================================================================

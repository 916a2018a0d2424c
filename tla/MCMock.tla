--------------------------------- MODULE MCMock ---------------------------------
(***************************************************************************)
(* A small instance of Mock for TLC, and the script it has to follow.      *)
(***************************************************************************)
EXTENDS Mock

Script == INSTANCE MockScript WITH
  script <- m_once,
  pending <- SubSeq(m_once, m_onceUsed + 1, Len(m_once)),
  always <- m_body,
  made <- m_count

\* "Queue several to script a sequence: fails the first time, succeeds the
\* second" -- from whichever thread the calls come, and again after
\* resetCalls: "the queue from returnsOnce() rewinds".
FollowsScript == Script!Spec

\* "A body is arbitrary user code and may call back into this very mock": a
\* call that has begun comes back, from whatever action and beside whatever
\* other calls, unless the process was stopped.
CallsReturn ==
  \A t \in Threads : stack[t] # <<>> ~> stack[t] = <<>> \/ aborted

=============================================================================

---------------------------------- MODULE Mock ----------------------------------
(***************************************************************************)
(* mock::Method of mock.h: one mocked function, what it should do and what *)
(* was done to it, used by several threads at once.                        *)
(*                                                                         *)
(* Every operation takes m_mutex; does, doesOnce and resetCalls are one    *)
(* step each, and invoke holds the lock over two: the call is counted and  *)
(* its arguments recorded, then its action is chosen.  The action runs     *)
(* outside the lock and may call back into the mock, so each thread has a  *)
(* stack of calls.  Actions are numbered in the order they were queued;    *)
(* what they return is left out.                                           *)
(***************************************************************************)
EXTENDS Integers, Sequences, SequencesExt

CONSTANTS
  Threads, NoOne,
  Arguments,        \* arguments a call may be made with
  Bodies, NoBody,   \* what does() may set, and an m_body that is empty
  ReturnTypes,      \* "void", "value", or "unbuildable": with no default
  CopiesMayThrow,   \* may a copy of arguments or of an action throw?
  MaxCalls,         \* bound: calls of invoke
  MaxOnce,          \* bound: actions queued by doesOnce
  MaxDepth          \* bound: calls nested in one another

ASSUME MockAssumption ==
  /\ NoOne \notin Threads /\ NoBody \notin Bodies
  /\ ReturnTypes \subseteq {"void", "value", "unbuildable"}
  /\ CopiesMayThrow \in BOOLEAN
  /\ MaxCalls \in Nat /\ MaxOnce \in Nat /\ MaxDepth \in Nat

VARIABLES
  Ret,              \* the return type
  m_mutex, m_body, m_once, m_onceUsed, m_count, m_unconfigured, m_recorded,
  stack,            \* of a thread: where each call it is making has got to
  aborted,          \* std::abort was called
  calls, unrecorded, served, lost  \* history: calls of invoke; of those
                    \* counted, the ones that threw; the actions chosen, in
                    \* order, and how many could not be copied

methodVars == <<m_body, m_once, m_onceUsed, m_count, m_unconfigured, m_recorded>>
vars == <<Ret, m_mutex, methodVars, stack, aborted, calls, unrecorded, served, lost>>

Init ==
  /\ Ret \in ReturnTypes
  /\ m_mutex = NoOne
  /\ m_body = NoBody
  /\ m_once = <<>> /\ m_onceUsed = 0
  /\ m_count = 0 /\ m_unconfigured = 0
  /\ m_recorded = <<>>
  /\ stack = [t \in Threads |-> <<>>]
  /\ aborted = FALSE
  /\ calls = 0 /\ unrecorded = 0 /\ served = <<>> /\ lost = 0

Unlocked == m_mutex = NoOne

At(t, label) == ~aborted /\ stack[t] # <<>> /\ Last(stack[t]) = label

\* A thread is in the program's own code: between calls, or in an action.
InProgram(t) == ~aborted /\ (stack[t] # <<>> => Last(stack[t]) = "action")

Advance(t, label) == stack' = [stack EXCEPT ![t] = Append(Front(@), label)]

Leave(t) == stack' = [stack EXCEPT ![t] = Front(@)]

-----------------------------------------------------------------------------
(* Configuration. *)

does(t) ==
  /\ InProgram(t) /\ Unlocked
  /\ \E body \in Bodies : m_body' = body
  /\ UNCHANGED <<Ret, m_mutex, m_once, m_onceUsed, m_count, m_unconfigured, m_recorded,
                 stack, aborted, calls, unrecorded, served, lost>>

doesOnce(t) ==
  /\ InProgram(t) /\ Unlocked
  /\ Len(m_once) < MaxOnce
  /\ m_once' = Append(m_once, Len(m_once) + 1)
  /\ UNCHANGED <<Ret, m_mutex, m_body, m_onceUsed, m_count, m_unconfigured, m_recorded,
                 stack, aborted, calls, unrecorded, served, lost>>

\* What resetCalls leaves of the queue's use.  The mutant leaves it spent.
RewoundNot == m_onceUsed

Rewound == 0

resetCalls(t) ==
  /\ InProgram(t) /\ Unlocked
  /\ m_count' = 0
  /\ m_unconfigured' = 0
  /\ m_onceUsed' = Rewound
  /\ m_recorded' = <<>>
  /\ unrecorded' = 0
  /\ UNCHANGED <<Ret, m_mutex, m_body, m_once, stack, aborted, calls, served, lost>>

-----------------------------------------------------------------------------
(* invoke. *)

Invoke(t) ==
  /\ InProgram(t)
  /\ calls < MaxCalls /\ Len(stack[t]) < MaxDepth
  /\ stack' = [stack EXCEPT ![t] = Append(@, "enter")]
  /\ calls' = calls + 1
  /\ UNCHANGED <<Ret, m_mutex, methodVars, aborted, unrecorded, served, lost>>

\* Who holds the lock once a call is recorded.  The mutant lets it go.
HolderReleased(t) == NoOne

Holder(t) == t

Record(t) ==
  /\ At(t, "enter") /\ Unlocked
  /\ m_mutex' = Holder(t)
  /\ m_count' = m_count + 1
  /\ \E a \in Arguments : m_recorded' = Append(m_recorded, a)
  /\ Advance(t, "choose")
  /\ UNCHANGED <<Ret, m_body, m_once, m_onceUsed, m_unconfigured, aborted, calls,
                 unrecorded, served, lost>>

\* The copy of the arguments throws: the lock is let go and the call leaves,
\* counted.
RecordThrows(t) ==
  /\ At(t, "enter") /\ Unlocked /\ CopiesMayThrow
  /\ m_count' = m_count + 1
  /\ unrecorded' = unrecorded + 1
  /\ Leave(t)
  /\ UNCHANGED <<Ret, m_mutex, m_body, m_once, m_onceUsed, m_unconfigured, m_recorded,
                 aborted, calls, served, lost>>

\* Who holds the lock while the action runs.  The mutant keeps it.
FreedLate(t) == t

Freed(t) == NoOne

\* Run an action, chosen under the lock, outside it.
Serve(t, action) ==
  /\ m_mutex' = Freed(t)
  /\ served' = Append(served, action)
  /\ Advance(t, "action")
  /\ UNCHANGED <<Ret, m_body, m_once, m_count, m_unconfigured, m_recorded, aborted, calls,
                 unrecorded, lost>>

ServeOnce(t) ==
  /\ At(t, "choose")
  /\ m_onceUsed < Len(m_once)
  /\ m_onceUsed' = m_onceUsed + 1
  /\ Serve(t, m_once[m_onceUsed + 1])

ServeBody(t) ==
  /\ At(t, "choose")
  /\ m_onceUsed = Len(m_once) /\ m_body # NoBody
  /\ Serve(t, m_body)
  /\ UNCHANGED m_onceUsed

\* Nothing is configured: a value is invented, or the process is stopped.
ServeNothing(t) ==
  /\ At(t, "choose")
  /\ m_onceUsed = Len(m_once) /\ m_body = NoBody
  /\ m_mutex' = NoOne
  /\ m_unconfigured' = IF Ret = "void" THEN m_unconfigured ELSE m_unconfigured + 1
  /\ aborted' = (Ret = "unbuildable")
  /\ Leave(t)
  /\ UNCHANGED <<Ret, m_body, m_once, m_onceUsed, m_count, m_recorded, calls, unrecorded,
                 served, lost>>

\* The copy of the chosen action throws: a queued one is used up, and the call
\* leaves without it.
ChooseThrows(t) ==
  /\ At(t, "choose") /\ CopiesMayThrow
  /\ m_onceUsed < Len(m_once) \/ m_body # NoBody
  /\ m_onceUsed' = IF m_onceUsed < Len(m_once) THEN m_onceUsed + 1 ELSE m_onceUsed
  /\ m_mutex' = NoOne
  /\ lost' = lost + 1
  /\ Leave(t)
  /\ UNCHANGED <<Ret, m_body, m_once, m_count, m_unconfigured, m_recorded, aborted,
                 calls, unrecorded, served>>

\* The action returns, or throws through invoke.
ActionEnds(t) ==
  /\ At(t, "action")
  /\ m_mutex' = IF m_mutex = t THEN NoOne ELSE m_mutex
  /\ Leave(t)
  /\ UNCHANGED <<Ret, methodVars, aborted, calls, unrecorded, served, lost>>

Gone == aborted /\ UNCHANGED vars

-----------------------------------------------------------------------------
Continue(t) ==
  \/ Record(t) \/ RecordThrows(t)
  \/ ServeOnce(t) \/ ServeBody(t) \/ ServeNothing(t)
  \/ ChooseThrows(t) \/ ActionEnds(t)

Next ==
  \/ \E t \in Threads : Continue(t) \/ Invoke(t) \/ does(t) \/ doesOnce(t) \/ resetCalls(t)
  \/ Gone

Spec == Init /\ [][Next]_vars

\* Threads are scheduled, and an action ends.  Calls are finitely many, so the
\* lock comes free for good.
FairSpec == Spec /\ \A t \in Threads : WF_vars(Continue(t))

-----------------------------------------------------------------------------
(* Properties. *)

TypeOK ==
  /\ Ret \in ReturnTypes
  /\ m_mutex \in Threads \union {NoOne}
  /\ m_body \in Bodies \union {NoBody}
  /\ m_once \in Seq(1..MaxOnce) /\ m_onceUsed \in 0..Len(m_once)
  /\ m_count \in Nat /\ m_unconfigured \in 0..m_count
  /\ m_recorded \in Seq(Arguments)
  /\ stack \in [Threads -> Seq({"enter", "choose", "action"})]
  /\ aborted \in BOOLEAN
  /\ calls \in 0..MaxCalls /\ unrecorded \in 0..m_count
  /\ served \in Seq(1..MaxOnce \union Bodies) /\ lost \in Nat

\* Whenever the lock is free to be observed under, the counters are those of
\* the same calls: one that took an action from the queue or had its value
\* invented since the last resetCalls is counted and recorded since then.
CallsAgree ==
  Unlocked =>
    /\ m_onceUsed + m_unconfigured + unrecorded <= m_count
    /\ m_count = Len(m_recorded) + unrecorded

-----------------------------------------------------------------------------
(* What makes CallsAgree inductive. *)

\* Calls wait to choose their action only at the top of a stack, and only the
\* thread that holds the lock is there.
HolderChooses ==
  \A t \in Threads :
    /\ m_mutex = t => stack[t] # <<>> /\ Last(stack[t]) = "choose"
    /\ \A i \in DOMAIN stack[t] : stack[t][i] = "choose" => i = Len(stack[t]) /\ m_mutex = t

\* A call that is counted and has not chosen its action yet.
Choosing == IF Unlocked THEN 0 ELSE 1

CallsInv ==
  /\ m_onceUsed + m_unconfigured + unrecorded + Choosing <= m_count
  /\ m_count = Len(m_recorded) + unrecorded

=============================================================================

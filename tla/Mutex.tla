------------------------------- MODULE Mutex -------------------------------
(***************************************************************************)
(* The sleepable mutex of src/oboskrnl/locks/mutex.c, used by threads that *)
(* take it around a critical section the way the page cache's dirty-list   *)
(* lookups do (vfs/pagecache.c): acquire, ignore the status, work, release.*)
(*                                                                         *)
(* State of the mutex object: the atomic_flag `lock' (flag), `who' and     *)
(* `locked', and the threads blocked on its wait object (waiters).  Each   *)
(* step of a thread is one atomic access of the code: a test-and-set, a    *)
(* store, or a wait / signal of the wait object.                           *)
(***************************************************************************)
EXTENDS Naturals, FiniteSets

CONSTANTS Threads,    \* threads that use the mutex
          NoThread,   \* nullptr in mut->who
          MaxRounds   \* critical sections entered by a thread (model bound)

ASSUME NoThread \notin Threads /\ MaxRounds \in Nat \ {0}

VARIABLES flag,     \* mut->lock, the atomic_flag
          who,      \* mut->who
          locked,   \* mut->locked
          waiters,  \* threads blocked in Core_WaitOnObject(&mut->hdr)
          pc,       \* where each thread is
          rounds    \* acquisitions started by each thread (bounded)

vars == <<flag, who, locked, waiters, pc, rounds>>

Init == /\ flag = FALSE
        /\ who = NoThread
        /\ locked = FALSE
        /\ waiters = {}
        /\ pc = [t \in Threads |-> "idle"]
        /\ rounds = [t \in Threads |-> 0]

Goto(t, l) == pc' = [pc EXCEPT ![t] = l]

\* Core_MutexAcquire entry: a thread recorded in mut->who gets
\* RECURSIVE_LOCK, which the page cache ignores and enters its critical
\* section; otherwise the spin loop starts.
Acquire(t) ==
  /\ pc[t] = "idle" /\ rounds[t] < MaxRounds
  /\ rounds' = [rounds EXCEPT ![t] = @ + 1]
  /\ \/ who = t /\ Goto(t, "cs")
     \/ who # t /\ Goto(t, "tas1")
  /\ UNCHANGED <<flag, who, locked, waiters>>

\* Core_MutexTryAcquire: IN_USE while mut->locked, else Core_MutexAcquire;
\* a caller checks the status, so RECURSIVE_LOCK does not enter.
TryAcquire(t) ==
  /\ pc[t] = "idle" /\ rounds[t] < MaxRounds
  /\ rounds' = [rounds EXCEPT ![t] = @ + 1]
  /\ Goto(t, IF locked \/ who = t THEN "idle" ELSE "tas1")
  /\ UNCHANGED <<flag, who, locked, waiters>>

\* The spin loop: `spin-- >= 0' holds on the first failed test-and-set,
\* so success turns false at once; the loop condition then runs one more
\* test-and-set (tas2) before it reads success.
SpinTas(t) ==
  /\ pc[t] = "tas1"
  /\ flag' = TRUE
  /\ IF flag THEN Goto(t, "tas2") ELSE Goto(t, "own_fast")
  /\ UNCHANGED <<who, locked, waiters, rounds>>

SpinTasAgain(t) ==
  /\ pc[t] = "tas2"
  /\ flag' = TRUE
  /\ Goto(t, "wait")
  /\ UNCHANGED <<who, locked, waiters, rounds>>

\* success: mut->who = current; mut->locked = true.
OwnFast(t) ==
  /\ pc[t] = "own_fast"
  /\ who' = t /\ locked' = TRUE
  /\ Goto(t, "cs")
  /\ UNCHANGED <<flag, waiters, rounds>>

\* Core_WaitOnObject: the thread blocks until a signal picks it.
Wait(t) ==
  /\ pc[t] = "wait"
  /\ waiters' = waiters \cup {t}
  /\ Goto(t, "waiting")
  /\ UNCHANGED <<flag, who, locked, rounds>>

\* Woken: the second loop runs its test-and-set once (success is false)
\* whatever it returns, then mut->who = current and SUCCESS.
WokenTas(t) ==
  /\ pc[t] = "waiting" /\ t \notin waiters
  /\ flag' = TRUE
  /\ Goto(t, "tas3")
  /\ UNCHANGED <<who, locked, waiters, rounds>>

OwnSlow(t) ==
  /\ pc[t] = "tas3"
  /\ who' = t
  /\ Goto(t, "cs")
  /\ UNCHANGED <<flag, locked, waiters, rounds>>

\* Core_MutexRelease after the critical section.  !mut->locked returns
\* SUCCESS with nothing done, a thread other than mut->who gets
\* ACCESS_DENIED, and the owner clears the flag and then signals.  who and
\* locked are left as they are.  (locked is set by the first fast
\* acquisition, before any thread can reach a release, and never cleared.)
Release(t) ==
  /\ pc[t] = "cs"
  /\ LET owner == locked /\ who = t
     IN  /\ flag' = (flag /\ ~owner)
         /\ Goto(t, IF owner THEN "signal" ELSE "idle")
  /\ UNCHANGED <<who, locked, waiters, rounds>>

\* CoreH_SignalWaitingThreads(&mut->hdr, false, false): wakes one blocked
\* thread; a signal with nobody blocked is lost.
Signal(t) ==
  /\ pc[t] = "signal"
  /\ \/ waiters = {} /\ UNCHANGED waiters
     \/ \E w \in waiters : waiters' = waiters \ {w}
  /\ Goto(t, "idle")
  /\ UNCHANGED <<flag, who, locked, rounds>>

\* The steps a thread takes once it is inside a call.
Step(t) == SpinTas(t) \/ SpinTasAgain(t) \/ OwnFast(t) \/ Wait(t)
           \/ WokenTas(t) \/ OwnSlow(t) \/ Release(t) \/ Signal(t)

Next == \E t \in Threads : Acquire(t) \/ TryAcquire(t) \/ Step(t)

\* The scheduler is preemptive: a runnable thread inside a call is run
\* again, so each thread's steps are weakly fair.  Starting a call is not.
Fairness == \A t \in Threads : WF_vars(Step(t))

Spec == Init /\ [][Next]_vars /\ Fairness

-----------------------------------------------------------------------------
\* Mutual exclusion of the page cache's dirty list: at most one thread is
\* between the return of Core_MutexAcquire and its Core_MutexRelease.
MutualExclusion ==
  \A t, u \in Threads : pc[t] = "cs" /\ pc[u] = "cs" => t = u

\* A thread that starts to spin for the mutex gets it: it eventually
\* enters the critical section (the wait ends with a signal).
AcquireCompletes ==
  \A t \in Threads : pc[t] = "tas1" ~> pc[t] = "cs"

=============================================================================

------------------------------ MODULE Spinlock ------------------------------
(***************************************************************************)
(* The spinlock of src/oboskrnl/locks/spinlock.c: CPUs that take one lock  *)
(* with Core_SpinlockAcquireExplicit(lock, IRQL_DISPATCH, variant) and     *)
(* give it back with Core_SpinlockRelease(lock, oldIrql), the way          *)
(* mm/alloc.c takes ctx->lock (variant TRUE) and klog.c and the thread     *)
(* lists take theirs (Core_SpinlockAcquire, variant FALSE).                *)
(*                                                                         *)
(* Each step is one access to the lock: the test-and-set, one store of a   *)
(* field, the clear of the flag, or the lowering of the IRQL, which reads  *)
(* lock->irqlNThrVariant.  The IRQL matters only as below DISPATCH or not.  *)
(* The debug-only lock->owner is left out.                                 *)
(***************************************************************************)
EXTENDS Naturals

CONSTANTS CPUs,       \* CPUs using the lock
          Variants,   \* irqlNthrVariant arguments the callers pass
          MaxRounds   \* acquisitions per CPU (model bound)

ASSUME Variants \subseteq BOOLEAN /\ Variants # {} /\ MaxRounds \in Nat

VARIABLES flag,       \* lock->val, the atomic_flag
          locked,     \* lock->locked
          nthr,       \* lock->irqlNThrVariant
          pc,         \* each CPU's place
          want,       \* the variant each CPU passed to its acquire
          oldIrql,    \* what its acquire returned: "passive" or "invalid"
          lowered,    \* the variant each CPU's last release lowered with (ghost)
          rounds

vars == <<flag, locked, nthr, pc, want, oldIrql, lowered, rounds>>

Init == /\ flag = FALSE /\ locked = FALSE /\ nthr = FALSE
        /\ pc = [c \in CPUs |-> "idle"]
        /\ want = [c \in CPUs |-> FALSE]
        /\ oldIrql = [c \in CPUs |-> "invalid"]
        /\ lowered = [c \in CPUs |-> {}]
        /\ rounds = [c \in CPUs |-> 0]

Goto(c, l) == pc' = [pc EXCEPT ![c] = l]

\* Acquire, called below DISPATCH (from a thread) or at or above it (with
\* the IRQL already raised): in the first case the IRQL is raised and the
\* previous one returned, in the second IRQL_INVALID is returned.
Raise(c) ==
  /\ pc[c] = "idle" /\ rounds[c] < MaxRounds
  /\ \E v \in Variants : want' = [want EXCEPT ![c] = v]
  /\ \E old \in {"passive", "invalid"} : oldIrql' = [oldIrql EXCEPT ![c] = old]
  /\ rounds' = [rounds EXCEPT ![c] = @ + 1]
  /\ lowered' = [lowered EXCEPT ![c] = {}]
  /\ Goto(c, "tas")
  /\ UNCHANGED <<flag, locked, nthr>>

\* while (atomic_flag_test_and_set(&lock->val)) spinlock_hint();
\* A CPU that finds the flag set stays here (the stuttering of the loop).
TestAndSet(c) ==
  /\ pc[c] = "tas" /\ ~flag
  /\ flag' = TRUE
  /\ Goto(c, "store_nthr")
  /\ UNCHANGED <<locked, nthr, want, oldIrql, lowered, rounds>>

\* lock->irqlNThrVariant = irqlNthrVariant; then lock->locked = true.
StoreNthr(c) ==
  /\ pc[c] = "store_nthr"
  /\ nthr' = want[c]
  /\ Goto(c, "store_locked")
  /\ UNCHANGED <<flag, locked, want, oldIrql, lowered, rounds>>

StoreLocked(c) ==
  /\ pc[c] = "store_locked"
  /\ locked' = TRUE
  /\ Goto(c, "held")
  /\ UNCHANGED <<flag, nthr, want, oldIrql, lowered, rounds>>

\* Core_SpinlockRelease: the flag is cleared first, then locked = false.
Clear(c) ==
  /\ pc[c] = "held"
  /\ flag' = FALSE
  /\ Goto(c, "clear_locked")
  /\ UNCHANGED <<locked, nthr, want, oldIrql, lowered, rounds>>

ClearLocked(c) ==
  /\ pc[c] = "clear_locked"
  /\ locked' = FALSE
  /\ Goto(c, "lower")
  /\ UNCHANGED <<flag, nthr, want, oldIrql, lowered, rounds>>

\* When oldIrql is not IRQL_INVALID, Core_LowerIrqlNoThread or
\* Core_LowerIrql, chosen by reading lock->irqlNThrVariant.
Lower(c) ==
  /\ pc[c] = "lower"
  /\ IF oldIrql[c] = "invalid"
     THEN UNCHANGED lowered
     ELSE lowered' = [lowered EXCEPT ![c] = @ \cup {nthr}]
  /\ Goto(c, "clear_nthr")
  /\ UNCHANGED <<flag, locked, nthr, want, oldIrql, rounds>>

\* lock->irqlNThrVariant = false, and the release returns.
ClearNthr(c) ==
  /\ pc[c] = "clear_nthr"
  /\ nthr' = FALSE
  /\ Goto(c, "idle")
  /\ UNCHANGED <<flag, locked, want, oldIrql, lowered, rounds>>

Done == /\ \A c \in CPUs : pc[c] = "idle" /\ rounds[c] = MaxRounds
        /\ UNCHANGED vars

Next == \/ \E c \in CPUs :
             \/ Raise(c) \/ TestAndSet(c) \/ StoreNthr(c) \/ StoreLocked(c)
             \/ Clear(c) \/ ClearLocked(c) \/ Lower(c) \/ ClearNthr(c)
        \/ Done

Spec == Init /\ [][Next]_vars

-----------------------------------------------------------------------------
\* Core_SpinlockAcquired reports the lock taken while a CPU holds it
\* (after its acquire has stored locked = true).
LockedWhileHeld == \A c \in CPUs : pc[c] = "held" => locked

\* Each release lowers the IRQL with the variant its own acquire passed:
\* Core_LowerIrqlNoThread for a lock taken with irqlNthrVariant.
ReleaseUsesOwnVariant == \A c \in CPUs : lowered[c] \subseteq {want[c]}
=============================================================================

-------------------------------- MODULE SMP --------------------------------
(***************************************************************************)
(* Bringing up the application processors and halting them on a panic     *)
(* (src/oboskrnl/arch/x86_64/smp.c): Arch_SMPStartup's loop over the APs,  *)
(* Arch_APEntry / idleTaskBootstrap on each AP, and OBOSS_HaltCPUs, called  *)
(* by OBOS_Panic (klog.c) before it prints, with the NMI handler that      *)
(* halts the other CPUs.  CPU 0 is the bootstrap processor.                *)
(*                                                                         *)
(* With it, the rest of OBOS_Panic and the kernel log it prints through    *)
(* (klog.c): a CPU logs with common_log, which holds s_loggerLock and,     *)
(* inside vprintf, s_printfLock; a panicking CPU force-releases both       *)
(* locks after OBOSS_HaltCPUs returns and prints its message.  The two     *)
(* spinlocks are taken here as atomic test-and-set flags (Spinlock.tla     *)
(* checks their inside).                                                   *)
(***************************************************************************)
EXTENDS Naturals, FiniteSets

CONSTANTS NCPUs,       \* Core_CpuCount (s_nLAPICIDs, at most 255)
          IpiResults,  \* what Arch_LAPICSendIPI may return: subset of {TRUE, FALSE}
          PanicCPUs,   \* CPUs on which OBOS_Panic may be called
          PanicPhases, \* values of Arch_SMPInitialized at which a panic may come
          MaxPanics,   \* panics in a run (model bound)
          MaxLogs      \* log calls per CPU (model bound)

CPUs == 0 .. NCPUs - 1
APs == CPUs \ {0}

ASSUME NCPUs \in 2 .. 255 /\ IpiResults \subseteq BOOLEAN /\ TRUE \in IpiResults /\ PanicCPUs \subseteq CPUs
       /\ PanicPhases \subseteq BOOLEAN /\ MaxPanics \in Nat /\ MaxLogs \in Nat

VARIABLES next,       \* the AP the startup loop is at (NCPUs: loop done)
          waiting,    \* the loop waits for ap_initialized
          apInit,     \* ap_initialized
          smpInit,    \* Arch_SMPInitialized
          cpu,        \* each CPU: "off", "booting", "running" or "halted"
          initd,      \* each CPU's cpu_local initialized flag
          haltCPUs,   \* Arch_HaltCPUs
          nHalted,    \* Arch_CPUsHalted
          nmi,        \* each CPU has an NMI pending
          panic,      \* each CPU in OBOS_Panic: "none", "sent", "wait", "returned",
                      \* "printed"
          panics,
          logLock,    \* s_loggerLock is taken
          printLock,  \* s_printfLock is taken
          logPc,      \* each CPU in common_log: "none", "logger" (holds s_loggerLock),
                      \* "print" (holds both)
          logs

vars == <<next, waiting, apInit, smpInit, cpu, initd, haltCPUs, nHalted, nmi,
          panic, panics, logLock, printLock, logPc, logs>>
logVars == <<logLock, printLock, logPc, logs>>

Init == /\ next = 1 /\ waiting = FALSE /\ apInit = FALSE /\ smpInit = FALSE
        /\ cpu = [c \in CPUs |-> IF c = 0 THEN "running" ELSE "off"]
        /\ initd = [c \in CPUs |-> FALSE]
        /\ haltCPUs = FALSE /\ nHalted = 0
        /\ nmi = [c \in CPUs |-> FALSE]
        /\ panic = [c \in CPUs |-> "none"]
        /\ panics = 0
        /\ logLock = FALSE /\ printLock = FALSE
        /\ logPc = [c \in CPUs |-> "none"] /\ logs = [c \in CPUs |-> 0]

BspFree == cpu[0] = "running" /\ panic[0] = "none"

\* The loop body for AP `next': the INIT and the SIPI IPIs; a failed send
\* skips the AP (continue), which then stays off.
SendIpis ==
  /\ BspFree /\ next < NCPUs /\ ~waiting
  /\ \E ok \in IpiResults :
       IF ok THEN cpu' = [cpu EXCEPT ![next] = "booting"] /\ waiting' = TRUE
                  /\ UNCHANGED next
             ELSE next' = next + 1 /\ UNCHANGED <<waiting, cpu>>
  /\ UNCHANGED <<apInit, smpInit, initd, haltCPUs, nHalted, nmi, panic, panics, logVars>>

\* Arch_APEntry, then idleTaskBootstrap in the AP's idle thread:
\* ap_initialized = true ...
ApBoot(c) ==
  /\ cpu[c] = "booting"
  /\ cpu' = [cpu EXCEPT ![c] = "running"]
  /\ apInit' = TRUE
  /\ UNCHANGED <<next, waiting, smpInit, initd, haltCPUs, nHalted, nmi, panic, panics, logVars>>

\* ... and then, in a store of its own, its cpu_local initialized = true.
ApInitialized(c) ==
  /\ c \in APs /\ cpu[c] = "running" /\ ~initd[c]
  /\ initd' = [initd EXCEPT ![c] = TRUE]
  /\ UNCHANGED <<next, waiting, apInit, smpInit, cpu, haltCPUs, nHalted, nmi, panic, panics, logVars>>

\* Mutation of ApSeen: ap_initialized is not cleared for the next AP.
ApSeenNoReset ==
  /\ BspFree /\ waiting /\ apInit
  /\ waiting' = FALSE /\ next' = next + 1
  /\ UNCHANGED <<apInit, smpInit, cpu, initd, haltCPUs, nHalted, nmi, panic, panics, logVars>>

\* while (!atomic_load(&ap_initialized)) pause(); then
\* atomic_store(&ap_initialized, false) and on to the next AP.
ApSeen ==
  /\ BspFree /\ waiting /\ apInit
  /\ apInit' = FALSE /\ waiting' = FALSE /\ next' = next + 1
  /\ UNCHANGED <<smpInit, cpu, initd, haltCPUs, nHalted, nmi, panic, panics, logVars>>

\* After the loop: Core_LowerIrql(oldIrql); Arch_SMPInitialized = true.

LoopEnd ==
  /\ BspFree /\ next = NCPUs /\ ~waiting /\ ~smpInit
  /\ smpInit' = TRUE
  /\ UNCHANGED <<next, waiting, apInit, cpu, initd, haltCPUs, nHalted, nmi, panic, panics, logVars>>

\* OBOS_Panic on a running CPU calls OBOSS_HaltCPUs.  Before SMP is up it
\* sends an NMI to every CPU whose initialized flag is set and returns;
\* after, it sends one to all but itself and waits for the others to halt.
Panic(c) ==
  /\ c \in PanicCPUs /\ cpu[c] = "running" /\ panic[c] = "none" /\ logPc[c] = "none"
  /\ panics < MaxPanics /\ smpInit \in PanicPhases
  /\ panics' = panics + 1
  /\ haltCPUs' = TRUE
  /\ IF ~smpInit
     THEN /\ nmi' = [d \in CPUs |-> nmi[d] \/ initd[d]]
          /\ panic' = [panic EXCEPT ![c] = "sent"]
     ELSE /\ nmi' = [d \in CPUs |-> nmi[d] \/ d # c]
          /\ panic' = [panic EXCEPT ![c] = "wait"]
  /\ UNCHANGED <<next, waiting, apInit, smpInit, cpu, initd, nHalted, logVars>>

\* nmiHandler on a running CPU (Arch_HaltCPUs is set before any NMI is
\* sent): atomic_fetch_add(&Arch_CPUsHalted, 1), then cli; hlt for ever.
\* An NMI to a CPU that is not running (waiting for a SIPI) is lost.
TakeNmi(c) ==
  /\ nmi[c] /\ cpu[c] \in {"running", "halted"}
  /\ nmi' = [nmi EXCEPT ![c] = FALSE]
  /\ IF cpu[c] = "running"
     THEN cpu' = [cpu EXCEPT ![c] = "halted"] /\ nHalted' = nHalted + 1
     ELSE UNCHANGED <<cpu, nHalted>>
  /\ UNCHANGED <<next, waiting, apInit, smpInit, initd, haltCPUs, panic, panics, logVars>>

\* Mutation of HaltReturn: OBOS_Panic without its two forced releases.
HaltReturnKeepLocks(c) ==
  /\ cpu[c] = "running"
  /\ panic[c] = "sent" \/ (panic[c] = "wait" /\ nHalted = NCPUs - 1)
  /\ panic' = [panic EXCEPT ![c] = "returned"]
  /\ UNCHANGED <<next, waiting, apInit, smpInit, cpu, initd, haltCPUs, nHalted, nmi,
                 panics, logVars>>

\* Mutation of HaltReturn: the wait for the halted CPUs left out.
HaltReturnNoWait(c) ==
  /\ cpu[c] = "running"
  /\ panic[c] \in {"sent", "wait"}
  /\ panic' = [panic EXCEPT ![c] = "returned"]
  /\ printLock' = FALSE /\ logLock' = FALSE
  /\ UNCHANGED <<next, waiting, apInit, smpInit, cpu, initd, haltCPUs, nHalted, nmi,
                 panics, logPc, logs>>

\* Core_SpinlockForcedRelease(&s_printfLock), then (&s_loggerLock): the
\* flags are cleared whoever holds them.
PanicUnlock == printLock' = FALSE /\ logLock' = FALSE

\* The return of OBOSS_HaltCPUs: at once after HaltInitializedCPUs, after
\* while (Arch_CPUsHalted != Core_CpuCount - 1) pause(); otherwise.  Then
\* OBOS_Panic goes on with the forced releases of the log locks.
HaltReturn(c) ==
  /\ cpu[c] = "running"
  /\ panic[c] = "sent" \/ (panic[c] = "wait" /\ nHalted = NCPUs - 1)
  /\ panic' = [panic EXCEPT ![c] = "returned"]
  /\ PanicUnlock
  /\ UNCHANGED <<next, waiting, apInit, smpInit, cpu, initd, haltCPUs, nHalted, nmi,
                 panics, logPc, logs>>

\* printf of the panic message: vprintf spins on s_printfLock; once it has
\* it the message is out (the CPU then loops for ever in OBOS_Panic).
PanicPrint(c) ==
  /\ cpu[c] = "running" /\ panic[c] = "returned" /\ ~printLock
  /\ printLock' = TRUE
  /\ panic' = [panic EXCEPT ![c] = "printed"]
  /\ UNCHANGED <<next, waiting, apInit, smpInit, cpu, initd, haltCPUs, nHalted, nmi,
                 panics, logLock, logPc, logs>>

\* A CPU doing its work (no panic) logs: common_log spins on s_loggerLock.
LogAcquire(c) ==
  /\ cpu[c] = "running" /\ panic[c] = "none" /\ logPc[c] = "none"
  /\ logs[c] < MaxLogs /\ ~logLock
  /\ logLock' = TRUE
  /\ logPc' = [logPc EXCEPT ![c] = "logger"] /\ logs' = [logs EXCEPT ![c] = @ + 1]
  /\ UNCHANGED <<next, waiting, apInit, smpInit, cpu, initd, haltCPUs, nHalted, nmi,
                 panic, panics, printLock>>

\* The printf / vprintf inside it spins on s_printfLock.
PrintAcquire(c) ==
  /\ cpu[c] = "running" /\ logPc[c] = "logger" /\ ~printLock
  /\ printLock' = TRUE
  /\ logPc' = [logPc EXCEPT ![c] = "print"]
  /\ UNCHANGED <<next, waiting, apInit, smpInit, cpu, initd, haltCPUs, nHalted, nmi,
                 panic, panics, logLock, logs>>

\* The output is written; vprintf releases s_printfLock and common_log
\* s_loggerLock.
LogRelease(c) ==
  /\ cpu[c] = "running" /\ logPc[c] = "print"
  /\ printLock' = FALSE /\ logLock' = FALSE
  /\ logPc' = [logPc EXCEPT ![c] = "none"]
  /\ UNCHANGED <<next, waiting, apInit, smpInit, cpu, initd, haltCPUs, nHalted, nmi,
                 panic, panics, logs>>

\* A running CPU goes on with other work (the pause loops, the idle
\* thread, the panic's final loop): the machine does not stop while a
\* CPU runs.
Run == /\ \E c \in CPUs : cpu[c] = "running"
       /\ UNCHANGED vars

Next == \/ SendIpis \/ ApSeen \/ LoopEnd \/ Run
        \/ \E c \in CPUs : \/ ApBoot(c) \/ ApInitialized(c) \/ Panic(c) \/ TakeNmi(c) \/ HaltReturn(c)
                          \/ PanicPrint(c)
                          \/ LogAcquire(c) \/ PrintAcquire(c) \/ LogRelease(c)

\* The startup loop, an AP's boot, NMI delivery, the wait loop and a CPU
\* inside a log call or printing its panic all progress when they can:
\* weak fairness (each runs on its own CPU, and a spinning CPU retries for
\* ever).  A panic, and a new log call, are not bound to happen.
Fairness == /\ WF_vars(SendIpis) /\ WF_vars(ApSeen) /\ WF_vars(LoopEnd)
            /\ \A c \in CPUs : WF_vars(ApBoot(c)) /\ WF_vars(ApInitialized(c)) /\ WF_vars(TakeNmi(c))
                               /\ WF_vars(HaltReturn(c)) /\ WF_vars(PanicPrint(c))
                               /\ WF_vars(PrintAcquire(c)) /\ WF_vars(LogRelease(c))

Spec == Init /\ [][Next]_vars /\ Fairness

-----------------------------------------------------------------------------
\* A panic gets its message out: once a CPU has entered OBOS_Panic, some
\* panicking CPU eventually returns from OBOSS_HaltCPUs and takes
\* s_printfLock to print, rather than every panicking CPU being halted,
\* waiting for CPUs that never halt, or spinning on a log lock held by a
\* CPU the NMI stopped.
PanicReported ==
  (\E c \in CPUs : panic[c] # "none") ~> (\E c \in CPUs : panic[c] = "printed")

\* The startup loop hands one AP at a time through the single flag
\* ap_initialized: when Arch_SMPInitialized is set, no AP the loop sent its
\* IPIs to is still on its way to its idle thread (a flag left set by the
\* previous AP would let the loop run ahead of the APs it started).
ApsUpAtInit == smpInit => \A c \in APs : cpu[c] # "booting"

\* While the panic message is printed, no CPU that is still running is
\* inside vprintf: the panic output is not interleaved with another log
\* line (the forced release of s_printfLock only steals it from CPUs the
\* NMI has stopped).
PanicPrintsAlone ==
  \A c, d \in CPUs : panic[c] = "printed" /\ d # c /\ cpu[d] = "running"
                       => logPc[d] # "print"
=============================================================================

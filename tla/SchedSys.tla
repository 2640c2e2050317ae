----------------------------- MODULE SchedSys -----------------------------
(***************************************************************************)
(* The thread system calls of src/oboskrnl/scheduler/sched_sys.c, made by  *)
(* threads of one process that share its handle table: thread contexts     *)
(* (Sys_ThreadContextCreate), threads (Sys_ThreadCreate, Sys_ThreadOpen),   *)
(* the calls that take a thread handle (Sys_ThreadReady, Sys_ThreadBlock,  *)
(* Sys_ThreadSetOwner, priority, affinity, tid) and the closing of a       *)
(* thread handle (OBOS_ThreadHandleFree), and the process calls            *)
(* Sys_ProcessStart and Sys_ProcessKill.                                   *)
(*                                                                         *)
(* A section run under OBOS_LockHandleTable is one step; what a call does  *)
(* after OBOS_UnlockHandleTable is a step of its own.  The handle table    *)
(* functions, CoreH_ThreadAllocate and Core_ProcessAppendThread are not in *)
(* the repository: a handle is allocated in any free slot, and a new       *)
(* thread starts with one of the reference counts AllocRefs.  Handles to   *)
(* the current thread or process (HANDLE_TYPE_CURRENT) are left out.  The  *)
(* slots VmmSlots hold handles to the process's VMM context (VmmCtx), made *)
(* by the VMM calls, which are not in this file.                           *)
(***************************************************************************)
EXTENDS Integers, FiniteSets

CONSTANTS Callers,    \* user threads making system calls
          Handles,    \* slots of the handle table
          Ctxs,       \* thread_ctx_handle objects
          Thrs,       \* thread objects
          Procs,      \* process objects Sys_ProcessStart may allocate
          VmmSlots,   \* handle slots holding a VMM context handle at start
          Nil,
          Calls,      \* the system calls made: subset of CallNames
          Prios,      \* priorities passed to Sys_ThreadCreate
          PrioMax,    \* THREAD_PRIORITY_MAX_VALUE
          AllocRefs,  \* references a thread may start with
          MaxCalls    \* system calls made in all (model bound)

CallNames == {"ctx", "create", "ready", "block", "owner", "access", "open", "close",
              "pstart", "kill"}
VmmCtx == "vmm_context"

ASSUME /\ Calls \subseteq CallNames /\ Prios \subseteq 0 .. PrioMax
       /\ AllocRefs \subseteq Nat /\ Nil \notin Handles \cup Ctxs \cup Thrs \cup Procs
       /\ VmmSlots \subseteq Handles

VARIABLES desc,   \* each handle slot: [type |-> "free" / "ctx" / "thread" / "vmm" / "process", obj]
          ctx,    \* each thread context: [live, canFree, ptr, setup]
          thr,    \* each thread: [live, init, regs, refs, proc, kstacks, appends, from, clobbered]
          proc,   \* each process: [live, ctx]
          pc, loc,
          uaf,    \* a freed thread or descriptor has been used (ghost)
          calls

vars == <<desc, ctx, thr, proc, pc, loc, uaf, calls>>

FreeDesc == [type |-> "free", obj |-> Nil]
NoCtx == [live |-> FALSE, canFree |-> FALSE, ptr |-> Nil, setup |-> FALSE]
NoThread == [live |-> FALSE, init |-> FALSE, regs |-> FALSE, refs |-> 0, proc |-> FALSE,
             kstacks |-> 0, appends |-> 0, from |-> Nil, clobbered |-> FALSE]

Init == /\ desc = [h \in Handles |-> IF h \in VmmSlots THEN [type |-> "vmm", obj |-> VmmCtx] ELSE FreeDesc]
        /\ ctx = [x \in Ctxs |-> NoCtx]
        /\ thr = [t \in Thrs |-> NoThread]
        /\ proc = [p \in Procs |-> [live |-> FALSE, ctx |-> Nil]]
        /\ pc = [c \in Callers |-> "idle"]
        /\ loc = [c \in Callers |-> [op |-> "none", h |-> Nil, t |-> Nil, x |-> Nil]]
        /\ uaf = FALSE
        /\ calls = 0

Goto(c, l) == pc' = [pc EXCEPT ![c] = l]
Start(c, op) == /\ pc[c] = "idle" /\ op \in Calls /\ calls < MaxCalls
                /\ calls' = calls + 1
FreeSlots == {h \in Handles : desc[h].type = "free"}
\* A field of thread t is read or written: a use after free if t is freed.
Touch(t) == uaf' = (uaf \/ ~thr[t].live)

\* Sys_ThreadContextCreate with the current process's context: under the
\* table lock a handle and a zeroed thread_ctx_handle (canFree = false,
\* ctx->ctx = nullptr).
CtxCreate(c) ==
  /\ Start(c, "ctx")
  /\ \E h \in FreeSlots, x \in {y \in Ctxs : ~ctx[y].live} :
       /\ desc' = [desc EXCEPT ![h] = [type |-> "ctx", obj |-> x]]
       /\ ctx' = [ctx EXCEPT ![x] = [NoCtx EXCEPT !.live = TRUE]]
       /\ loc' = [loc EXCEPT ![c].x = x]
  /\ Goto(c, "ctx_init")
  /\ UNCHANGED <<proc, thr, uaf>>

\* After the unlock: ctx->ctx = a zeroed thread_ctx ("buf"), then
\* canFree = true and the pushlock initialized.  (Sys_ThreadCreate reads
\* ctx->ctx only once canFree is set, so the two stores are one step.)
CtxAlloc(c) ==
  /\ pc[c] = "ctx_init"
  /\ ctx' = [ctx EXCEPT ![loc[c].x].canFree = TRUE, ![loc[c].x].ptr = "buf"]
  /\ Goto(c, "ctx_setup")
  /\ UNCHANGED <<proc, desc, thr, loc, uaf, calls>>

CtxSetup(c) ==
  LET x == loc[c].x
      t == ctx[x].ptr
  IN  /\ pc[c] = "ctx_setup"
      /\ ctx' = [ctx EXCEPT ![x].setup = TRUE]
      /\ IF t \in Thrs
         THEN thr' = [thr EXCEPT ![t].regs = TRUE] /\ Touch(t)
         ELSE UNCHANGED <<thr, uaf>>
      /\ Goto(c, "idle")
      /\ UNCHANGED <<proc, desc, loc, calls>>

\* Sys_ThreadCreate, all under the table lock: the context handle is looked
\* up and must have canFree; CoreH_ThreadInitialize fails (and is ignored)
\* for priority THREAD_PRIORITY_MAX_VALUE, and otherwise copies *ctx->ctx
\* into thr->context; the context is taken (canFree = false, ctx->ctx =
\* &thr->context) and a thread handle allocated, with references++.
ThreadCreate(c) ==
  /\ Start(c, "create")
  /\ \E h \in Handles, p \in Prios :
       LET x == desc[h].obj IN
       IF desc[h].type # "ctx" \/ ~ctx[x].canFree
       THEN UNCHANGED <<desc, ctx, thr>>
       ELSE \E t \in {u \in Thrs : thr[u].from = Nil}, h2 \in FreeSlots, r \in AllocRefs :
              /\ thr' = [thr EXCEPT ![t] = [NoThread EXCEPT !.live = TRUE,
                           !.init = (p < PrioMax), !.regs = (p < PrioMax /\ ctx[x].setup),
                           !.refs = r + 1, !.from = x]]
              /\ ctx' = [ctx EXCEPT ![x].canFree = FALSE, ![x].ptr = t]
              /\ desc' = [desc EXCEPT ![h2] = [type |-> "thread", obj |-> t]]
  /\ UNCHANGED <<proc, pc, loc, uaf>>

\* thread_object_from_handle: the lookup under the table lock; an error
\* ends the call.
Lookup(c) ==
  /\ \E op \in {"ready", "block", "owner", "access"}, h \in Handles :
       /\ Start(c, op)
       /\ IF desc[h].type = "thread"
          THEN /\ loc' = [loc EXCEPT ![c] = [op |-> op, h |-> h, t |-> desc[h].obj, x |-> Nil]]
               /\ Goto(c, "deref")
          ELSE UNCHANGED <<pc, loc>>
  /\ UNCHANGED <<proc, desc, ctx, thr, uaf>>

\* ... and result__ = _thr->un.thread, read after the unlock: the
\* descriptor may have been freed (and reused) by a close since.
Deref(c) ==
  /\ pc[c] = "deref"
  /\ IF desc[loc[c].h] = [type |-> "thread", obj |-> loc[c].t]
     THEN uaf' = uaf /\ Goto(c, loc[c].op)
     ELSE uaf' = TRUE /\ Goto(c, "idle")
  /\ UNCHANGED <<proc, desc, ctx, thr, loc, calls>>

\* Sys_ThreadReady: INVALID_INIT_PHASE without thr->proc; a kernel stack is
\* allocated when thr->kernelStack is null; then CoreH_ThreadReady, which
\* returns OBOS_STATUS_UNIMPLEMENTED.
Ready(c) ==
  LET t == loc[c].t IN
  /\ pc[c] = "ready" /\ Touch(t)
  /\ Goto(c, IF thr[t].proc /\ thr[t].kstacks = 0 THEN "ready_alloc" ELSE "idle")
  /\ UNCHANGED <<proc, desc, ctx, thr, loc, calls>>

ReadyAlloc(c) ==
  LET t == loc[c].t IN
  /\ pc[c] = "ready_alloc" /\ Touch(t)
  /\ thr' = [thr EXCEPT ![t].kstacks = @ + 1]
  /\ Goto(c, "idle")
  /\ UNCHANGED <<proc, desc, ctx, loc, calls>>

\* Sys_ThreadBlock (CoreH_ThreadBlock fails: masterCPU is null, the thread
\* was never readied), Sys_ThreadBoostPriority, Sys_ThreadPriority,
\* Sys_ThreadAffinity and Sys_ThreadGetTid read or write a field of thr.
Access(c) ==
  /\ pc[c] \in {"block", "access"} /\ Touch(loc[c].t)
  /\ Goto(c, "idle")
  /\ UNCHANGED <<proc, desc, ctx, thr, loc, calls>>

\* Sys_ThreadSetOwner: ALREADY_INITIALIZED when thr->proc is set; else
\* Core_ProcessAppendThread, which links the thread into the process's
\* list and sets thr->proc.
Owner(c) ==
  LET t == loc[c].t IN
  /\ pc[c] = "owner" /\ Touch(t)
  /\ Goto(c, IF thr[t].proc THEN "idle" ELSE "append")
  /\ UNCHANGED <<proc, desc, ctx, thr, loc, calls>>

Append(c) ==
  LET t == loc[c].t IN
  /\ pc[c] = "append" /\ Touch(t)
  /\ thr' = [thr EXCEPT ![t].proc = TRUE, ![t].appends = @ + 1]
  /\ Goto(c, "idle")
  /\ UNCHANGED <<proc, desc, ctx, loc, calls>>

\* Sys_ThreadOpen(current process, tid): the walk of parent->threads reads
\* each thread's tid (without a lock) ...
OpenFind(c) ==
  /\ Start(c, "open")
  /\ \E t \in {u \in Thrs : thr[u].appends > 0} :
       /\ Touch(t)
       /\ loc' = [loc EXCEPT ![c].t = t]
  /\ Goto(c, "open_alloc")
  /\ UNCHANGED <<proc, desc, ctx, thr>>

\* ... then a handle is allocated for the thread found, under the table
\* lock; thr->references is not incremented.
OpenAlloc(c) ==
  /\ pc[c] = "open_alloc"
  /\ \E h \in FreeSlots : desc' = [desc EXCEPT ![h] = [type |-> "thread", obj |-> loc[c].t]]
  /\ Goto(c, "idle")
  /\ UNCHANGED <<proc, ctx, thr, loc, uaf, calls>>

\* Closing a thread handle frees its descriptor and calls
\* OBOS_ThreadHandleFree: --thr->references, and the thread is freed at 0.
Close(c) ==
  /\ Start(c, "close")
  /\ \E h \in Handles :
       LET t == desc[h].obj IN
       /\ desc[h].type = "thread"
       /\ desc' = [desc EXCEPT ![h] = FreeDesc]
       /\ Touch(t)
       /\ thr' = [thr EXCEPT ![t].refs = @ - 1, ![t].live = (@ /\ thr[t].refs # 1)]
  /\ UNCHANGED <<proc, ctx, pc, loc>>

\* Sys_ProcessStart, under the table lock: the thread handle and the VMM
\* context handle are looked up, and a missing one returns HANDLE_INVALID.
ProcessStartLookup(c) ==
  /\ Start(c, "pstart")
  /\ \E h, v \in Handles :
       IF desc[h].type = "thread" /\ desc[v].type = "vmm"
       THEN /\ loc' = [loc EXCEPT ![c] = [op |-> "pstart", h |-> h, t |-> desc[h].obj, x |-> Nil]]
            /\ Goto(c, "pstart")
       ELSE UNCHANGED <<pc, loc>>
  /\ UNCHANGED <<desc, ctx, thr, proc, uaf>>

\* After the unlock: main = main_desc->un.thread, and vmm_ctx =
\* main_desc->un.vmm_context reads the same union member of the thread
\* handle (vmm_ctx_desc is never used).  Core_ProcessAllocate gives the new
\* process, new->ctx = vmm_ctx, and vmm_ctx->owner = new stores into the
\* object the descriptor names.  Core_ProcessStart (not in the repository)
\* starts it.
ProcessStart(c) ==
  LET h == loc[c].h
      t == loc[c].t
  IN /\ pc[c] = "pstart"
     /\ \E p \in {q \in Procs : proc[q].ctx = Nil} :
          /\ proc' = [proc EXCEPT ![p] = [live |-> TRUE, ctx |-> desc[h].obj]]
          /\ loc' = [loc EXCEPT ![c].x = p]
     /\ uaf' = (uaf \/ desc[h] # [type |-> "thread", obj |-> t] \/ ~thr[t].live)
     /\ thr' = IF desc[h].obj \in Thrs THEN [thr EXCEPT ![desc[h].obj].clobbered = TRUE] ELSE thr
     /\ Goto(c, "pstart_alloc")
     /\ UNCHANGED <<desc, ctx, calls>>

\* ... and a process handle for it is allocated under the table lock.
ProcessStartAlloc(c) ==
  /\ pc[c] = "pstart_alloc"
  /\ \E h \in FreeSlots : desc' = [desc EXCEPT ![h] = [type |-> "process", obj |-> loc[c].x]]
  /\ Goto(c, "idle")
  /\ UNCHANGED <<ctx, thr, proc, loc, uaf, calls>>

\* Sys_ProcessKill: desc->un.process is read under the table lock, and
\* Core_ProcessTerminate (not in the repository) ends the process.
ProcessKill(c) ==
  /\ Start(c, "kill")
  /\ \E h \in Handles :
       IF desc[h].type = "process"
       THEN proc' = [proc EXCEPT ![desc[h].obj].live = FALSE]
       ELSE UNCHANGED proc
  /\ UNCHANGED <<desc, ctx, thr, pc, loc, uaf>>

\* Every call made, or every handle slot or process object of the model in
\* use (the kernel would allocate another; the model explores no further):
\* the system stops.
Done == /\ \/ calls = MaxCalls /\ \A c \in Callers : pc[c] = "idle"
           \/ FreeSlots = {}
           \/ \E c \in Callers : pc[c] = "pstart" /\ \A q \in Procs : proc[q].ctx # Nil
        /\ UNCHANGED vars

Next == \/ \E c \in Callers :
             \/ CtxCreate(c) \/ CtxAlloc(c) \/ CtxSetup(c) \/ ThreadCreate(c)
             \/ Lookup(c) \/ Deref(c) \/ Ready(c) \/ ReadyAlloc(c) \/ Access(c)
             \/ Owner(c) \/ Append(c) \/ OpenFind(c) \/ OpenAlloc(c) \/ Close(c)
             \/ ProcessStartLookup(c) \/ ProcessStart(c) \/ ProcessStartAlloc(c)
             \/ ProcessKill(c)
        \/ Done

Spec == Init /\ [][Next]_vars

-----------------------------------------------------------------------------
TypeOK == /\ desc \in [Handles -> [type : {"free", "ctx", "thread", "vmm", "process"},
                                   obj : Ctxs \cup Thrs \cup Procs \cup {VmmCtx, Nil}]]
          /\ proc \in [Procs -> [live : BOOLEAN, ctx : Thrs \cup Ctxs \cup Procs \cup {VmmCtx, Nil}]]
          /\ ctx \in [Ctxs -> [live : BOOLEAN, canFree : BOOLEAN, ptr : Thrs \cup {"buf", Nil},
                                setup : BOOLEAN]]
          /\ \A t \in Thrs : thr[t].from \in Ctxs \cup {Nil} /\ thr[t].kstacks \in Nat
          /\ uaf \in BOOLEAN /\ calls \in 0 .. MaxCalls

\* The thread handles that name thread t.
HandlesTo(t) == {h \in Handles : desc[h] = [type |-> "thread", obj |-> t]}

HandlesKeepThreadAlive ==
  \A t \in Thrs : HandlesTo(t) # {} => thr[t].live /\ thr[t].refs >= Cardinality(HandlesTo(t))

\* No system call reads or writes a thread, or a handle descriptor, that a
\* concurrent close has freed.
NoThreadUseAfterFree == ~uaf

\* Each thread gets one kernel stack: concurrent Sys_ThreadReady calls do
\* not both allocate one (the loser's 64 KiB would leak).
OneKernelStack == \A t \in Thrs : thr[t].kstacks <= 1

\* Sys_ThreadSetOwner links a thread into a process once ("can only be
\* called once per thread-object").
OwnerSetOnce == \A t \in Thrs : thr[t].appends <= 1

\* A handle returned by Sys_ThreadCreate names an initialized thread (tid,
\* status and context set by CoreH_ThreadInitialize).
HandlesInitialized ==
  \A h \in Handles : desc[h].type = "thread" => thr[desc[h].obj].init

\* A process started by Sys_ProcessStart runs in the VMM context whose
\* handle was passed as vmmContext, and no thread object is written to as
\* if it were a context.
ProcessContextIsVmm ==
  /\ \A p \in Procs : proc[p].live => proc[p].ctx = VmmCtx
  /\ \A t \in Thrs : ~thr[t].clobbered
=============================================================================

----------------------------- MODULE ThreadList -----------------------------
(***************************************************************************)
(* The per-CPU ready lists of the scheduler (src/oboskrnl/scheduler/       *)
(* thread.c): CoreH_ThreadReadyNode, CoreH_ThreadBlock and the doubly      *)
(* linked thread_list they edit with CoreH_ThreadListAppend / Remove.      *)
(* One priority level is modelled (each priority has its own list and the  *)
(* code treats them alike); every thread may run on every CPU.  A thread   *)
(* has one node (thr->snode), so nodes are named by their threads.         *)
(*                                                                         *)
(* A list edit runs under the list's spinlock and is one step.  The code   *)
(* around it reads and writes thread fields and Core_ReadyThreadCount      *)
(* without a lock; those accesses are steps of their own.                  *)
(***************************************************************************)
EXTENDS Integers, FiniteSets

CONSTANTS NCPUs,     \* Core_CpuCount
          Callers,   \* CPUs making calls
          Threads,   \* initialized threads, with one node each
          Nil,       \* nullptr
          ReadyFrom, \* statuses a thread is readied from: "new", "blocked"
          MaxCalls   \* calls made in all (model bound)

CPUs == 0 .. NCPUs - 1

ASSUME /\ Callers \subseteq CPUs /\ Nil \notin Threads
       /\ ReadyFrom \subseteq {"new", "blocked"}

VARIABLES head, tail, nNodes,   \* each CPU's thread_list
          next, prev,           \* each node's links
          status, master,       \* thr->status, thr->masterCPU
          readyCount,           \* Core_ReadyThreadCount
          pc, arg,              \* each caller's place, thread and temporary
          calls

vars == <<head, tail, nNodes, next, prev, status, master, readyCount, pc, arg,
          calls>>

Init == /\ head = [c \in CPUs |-> Nil] /\ tail = [c \in CPUs |-> Nil]
        /\ nNodes = [c \in CPUs |-> 0]
        /\ next = [n \in Threads |-> Nil] /\ prev = [n \in Threads |-> Nil]
        /\ status = [n \in Threads |-> "new"]
        /\ master = [n \in Threads |-> Nil]
        /\ readyCount = 0
        /\ pc = [c \in Callers |-> "idle"]
        /\ arg = [c \in Callers |-> [thr |-> Nil, tmp |-> 0]]
        /\ calls = 0

Goto(c, l) == pc' = [pc EXCEPT ![c] = l]
Start(c) == pc[c] = "idle" /\ calls < MaxCalls /\ calls' = calls + 1

\* The loop of CoreH_ThreadReadyNode over the CPUs: the first CPU whose
\* list has the fewest nodes (nNodes is read without the list lock).
LeastLoaded == CHOOSE c \in CPUs : \A d \in CPUs :
                 nNodes[c] < nNodes[d] \/ (nNodes[c] = nNodes[d] /\ c <= d)

\* CoreH_ThreadReadyNode(thr, node), called for a thread whose status (read
\* by the caller before the call) is in ReadyFrom: picks the CPU,
\* sets thr->masterCPU and the READY status.
ReadyNode(c) ==
  /\ Start(c)
  /\ \E thr \in Threads :
       /\ status[thr] \in ReadyFrom
       /\ arg' = [arg EXCEPT ![c].thr = thr]
       /\ master' = [master EXCEPT ![thr] = LeastLoaded]
       /\ status' = [status EXCEPT ![thr] = "ready"]
  /\ Goto(c, "inc_load")
  /\ UNCHANGED <<head, tail, nNodes, next, prev, readyCount>>

\* Mutation of CountStore: the decrement of CoreH_ThreadBlock dropped.
CountStoreNoDec(c) ==
  /\ pc[c] \in {"inc_store", "dec_store"}
  /\ readyCount' = arg[c].tmp + IF pc[c] = "inc_store" THEN 1 ELSE 0
  /\ Goto(c, IF pc[c] = "inc_store" THEN "append" ELSE "idle")
  /\ UNCHANGED <<head, tail, nNodes, next, prev, status, master, arg, calls>>

\* Core_ReadyThreadCount++ and --: a plain load, then a store.
CountLoad(c) ==
  /\ pc[c] \in {"inc_load", "dec_load"}
  /\ arg' = [arg EXCEPT ![c].tmp = readyCount]
  /\ Goto(c, IF pc[c] = "inc_load" THEN "inc_store" ELSE "dec_store")
  /\ UNCHANGED <<head, tail, nNodes, next, prev, status, master, readyCount, calls>>

CountStore(c) ==
  /\ pc[c] \in {"inc_store", "dec_store"}
  /\ readyCount' = arg[c].tmp + IF pc[c] = "inc_store" THEN 1 ELSE -1
  /\ Goto(c, IF pc[c] = "inc_store" THEN "append" ELSE "idle")
  /\ UNCHANGED <<head, tail, nNodes, next, prev, status, master, arg, calls>>

\* CoreH_ThreadListAppend(&masterCPU's list, node) under the list lock;
\* node->next is not assigned.
ListAppend(c) ==
  LET n == arg[c].thr
      l == master[n]
  IN  /\ pc[c] = "append"
      /\ IF tail[l] # Nil THEN next' = [next EXCEPT ![tail[l]] = n]
                          ELSE UNCHANGED next
      /\ head' = IF head[l] = Nil THEN [head EXCEPT ![l] = n] ELSE head
      /\ prev' = [prev EXCEPT ![n] = tail[l]]
      /\ tail' = [tail EXCEPT ![l] = n]
      /\ nNodes' = [nNodes EXCEPT ![l] = @ + 1]
      /\ Goto(c, "idle")
      /\ UNCHANGED <<status, master, readyCount, arg, calls>>

\* CoreH_ThreadBlock(thr, node) for a thread readied before (masterCPU is
\* set): returns at once when the status is already BLOCKED.
BlockCheck(c) ==
  /\ Start(c)
  /\ \E thr \in Threads :
       /\ master[thr] # Nil
       /\ arg' = [arg EXCEPT ![c].thr = thr]
       /\ Goto(c, IF status[thr] = "blocked" THEN "idle" ELSE "block")
  /\ UNCHANGED <<head, tail, nNodes, next, prev, status, master, readyCount>>

BlockSet(c) ==
  /\ pc[c] = "block"
  /\ status' = [status EXCEPT ![arg[c].thr] = "blocked"]
  /\ Goto(c, "remove")
  /\ UNCHANGED <<head, tail, nNodes, next, prev, master, readyCount, arg, calls>>

\* Mutation of ListRemove: list->tail not moved back when the tail leaves.
ListRemoveKeepTail(c) ==
  LET n == arg[c].thr
      l == master[n]
  IN  /\ pc[c] = "remove"
      /\ IF next[n] # Nil THEN prev' = [prev EXCEPT ![next[n]] = prev[n]]
                          ELSE UNCHANGED prev
      /\ IF prev[n] # Nil THEN next' = [next EXCEPT ![prev[n]] = next[n]]
                          ELSE UNCHANGED next
      /\ head' = IF head[l] = n THEN [head EXCEPT ![l] = next[n]] ELSE head
      /\ UNCHANGED tail
      /\ nNodes' = [nNodes EXCEPT ![l] = @ - 1]
      /\ Goto(c, "dec_load")
      /\ UNCHANGED <<status, master, readyCount, arg, calls>>

\* CoreH_ThreadListRemove(&masterCPU's list, node) under the list lock:
\* unlinks the node; its own next and prev are left as they were.
ListRemove(c) ==
  LET n == arg[c].thr
      l == master[n]
  IN  /\ pc[c] = "remove"
      /\ IF next[n] # Nil THEN prev' = [prev EXCEPT ![next[n]] = prev[n]]
                          ELSE UNCHANGED prev
      /\ IF prev[n] # Nil THEN next' = [next EXCEPT ![prev[n]] = next[n]]
                          ELSE UNCHANGED next
      /\ head' = IF head[l] = n THEN [head EXCEPT ![l] = next[n]] ELSE head
      /\ tail' = IF tail[l] = n THEN [tail EXCEPT ![l] = prev[n]] ELSE tail
      /\ nNodes' = [nNodes EXCEPT ![l] = @ - 1]
      /\ Goto(c, "dec_load")
      /\ UNCHANGED <<status, master, readyCount, arg, calls>>

\* All calls made: the system stops.
Done == /\ calls = MaxCalls /\ \A c \in Callers : pc[c] = "idle"
        /\ UNCHANGED vars

Next == \/ \E c \in Callers :
             \/ ReadyNode(c) \/ CountLoad(c) \/ CountStore(c) \/ ListAppend(c)
             \/ BlockCheck(c) \/ BlockSet(c) \/ ListRemove(c)
        \/ Done

Spec == Init /\ [][Next]_vars

-----------------------------------------------------------------------------
\* The i-th node met from the head of CPU l's list (Nil past the end).
RECURSIVE NodeAt(_, _)
NodeAt(l, i) == IF i = 1 THEN head[l]
                ELSE LET p == NodeAt(l, i - 1) IN IF p = Nil THEN Nil ELSE next[p]

Members(l) == {NodeAt(l, i) : i \in 1 .. nNodes[l]}

\* Every CPU's ready list is a well-formed doubly linked list of nNodes
\* distinct nodes from head to tail, and no node is on two lists: what
\* CoreH_ThreadListAppend / Remove and the scheduler walking them assume.
ListsWellFormed ==
  /\ \A l \in CPUs :
       LET k == nNodes[l] IN
       /\ k >= 0
       /\ IF k = 0 THEN head[l] = Nil /\ tail[l] = Nil
          ELSE /\ Nil \notin Members(l) /\ Cardinality(Members(l)) = k
               /\ tail[l] = NodeAt(l, k) /\ next[tail[l]] = Nil
               /\ prev[head[l]] = Nil
               /\ \A i \in 1 .. k - 1 : prev[NodeAt(l, i + 1)] = NodeAt(l, i)
  /\ \A l, m \in CPUs : l # m => Members(l) \cap Members(m) = {}

\* With no call in progress, Core_ReadyThreadCount equals the number of
\* nodes on the ready lists, and these are exactly the READY threads.
ReadyCountExact ==
  (\A c \in Callers : pc[c] = "idle") =>
     /\ readyCount = Cardinality(UNION {Members(l) : l \in CPUs})
     /\ UNION {Members(l) : l \in CPUs} = {n \in Threads : status[n] = "ready"}
=============================================================================

----------------------------- MODULE PageCache -----------------------------
(***************************************************************************)
(* The dirty-region list and the reference count of a page cache           *)
(* (src/oboskrnl/vfs/pagecache.c), used by threads that register dirty     *)
(* ranges (VfsH_PCDirtyRegionCreate), write them back                      *)
(* (VfsH_PageCacheFlush) and take and drop references (VfsH_PageCacheRef / *)
(* Unref).  File offsets are counted in pages; VfsH_PageCacheGetEntry,    *)
(* which commits and reads in the cache's pages, takes byte offsets.      *)
(*                                                                         *)
(* pc->dirty_list_lock is taken here as the mutex the spec describes: a    *)
(* thread waits while another holds it (Mutex.tla checks the real one).    *)
(* A scan of the list under the lock is one step; the accesses the code    *)
(* makes without the lock (dirty->sz, pc->refcnt) are steps of their own.  *)
(***************************************************************************)
EXTENDS Naturals, Sequences, FiniteSets

CONSTANTS Threads,    \* threads using the page cache
          NoThread,   \* the dirty-list mutex is free
          FilePages,  \* vn->filesize, in pages
          Sizes,      \* sizes passed to VfsH_PCDirtyRegionCreate
          PageSize,   \* OBOS_PAGE_SIZE, in bytes
          GetOffsets, \* byte offsets passed to VfsH_PageCacheGetEntry
          GetSizes,   \* byte sizes passed to VfsH_PageCacheGetEntry
          ReadFails,  \* what a read_sync may do: subset of {FALSE, TRUE} (TRUE: error)
          MaxOps      \* calls made by a thread (model bound)

ASSUME /\ NoThread \notin Threads /\ Sizes \subseteq Nat \ {0}
       /\ PageSize \in Nat \ {0} /\ GetSizes \subseteq Nat \ {0}
       /\ \A o \in GetOffsets, z \in GetSizes : o + z <= FilePages * PageSize
       /\ ReadFails \subseteq BOOLEAN

VARIABLES list,     \* pc->dirty_regions, a sequence of region ids
          region,   \* id -> [off, sz] of every region ever allocated
          freed,    \* regions released by Vfs_Free
          lock,     \* holder of pc->dirty_list_lock
          refcnt,   \* pc->refcnt
          data,     \* pc->data is allocated
          pc, arg,  \* each thread's place and its call's locals
          held,     \* references each thread holds (ghost)
          dirty,    \* pages registered dirty and not yet written (ghost)
          uaf,      \* a freed region, or a freed pc->data, has been accessed (ghost)
          gen,      \* reservations of pc->data made so far
          sizeCommitted, \* size_committed of pc->data's page_range, in pages
          loaded,   \* pages of pc->data holding what read_sync read in (ghost)
          reads,    \* page -> read_sync calls into it since pc->data was reserved (ghost)
          stale,    \* GetEntry returned a range with a page not read in (ghost)
          ops       \* calls started by each thread

vars == <<list, region, freed, lock, refcnt, data, pc, arg, held, dirty,
          uaf, gen, sizeCommitted, loaded, reads, stale, ops>>
getVars == <<gen, sizeCommitted, loaded, reads, stale>>

Pages(r) == r.off .. r.off + r.sz - 1

\* The first region of the list at one of the positions `hits' (those whose
\* test holds), or 0 (nullptr).
FirstWhere(hits) ==
  IF hits = {} THEN 0 ELSE list[CHOOSE i \in hits : \A j \in hits : i <= j]

\* The positions of the list whose region covers page off, or ends at it.
Containing(off) == {i \in 1 .. Len(list) : LET r == region[list[i]] IN
                      r.off <= off /\ off < r.off + r.sz}
EndingAt(off) == {i \in 1 .. Len(list) : LET r == region[list[i]] IN r.off + r.sz = off}

Init == /\ list = <<>>
        /\ region = <<>>
        /\ freed = {}
        /\ lock = NoThread
        /\ refcnt = 1     \* the reference of the vnode owning the cache
        /\ data = TRUE
        /\ pc = [t \in Threads |-> "idle"]
        /\ arg = [t \in Threads |-> [off |-> 0, sz |-> 0, cur |-> 0, tmp |-> 0]]
        /\ held = [t \in Threads |-> 0]
        /\ dirty = {}
        /\ uaf = FALSE
        /\ gen = 0
        /\ sizeCommitted = 0
        /\ loaded = {}
        /\ reads = [p \in 0 .. FilePages - 1 |-> 0]
        /\ stale = FALSE
        /\ ops = [t \in Threads |-> 0]

Goto(t, l) == pc' = [pc EXCEPT ![t] = l]
Begin(t) == pc[t] = "idle" /\ ops[t] < MaxOps /\ ops' = [ops EXCEPT ![t] = @ + 1]
Touch(id) == uaf' = (uaf \/ id \in freed)

\* VfsH_PCDirtyRegionCreate(pc, off, sz) starts with
\* VfsH_PCDirtyRegionLookup: under the lock, the first region containing off.
CreateLookup(t) ==
  /\ Begin(t) /\ lock = NoThread
  /\ \E off \in 0 .. FilePages - 1, sz \in Sizes :
       /\ off + sz <= FilePages
       /\ arg' = [arg EXCEPT ![t] = [off |-> off, sz |-> sz, tmp |-> 0,
                    cur |-> FirstWhere(Containing(off))]]
  /\ Goto(t, "check")
  /\ UNCHANGED <<getVars, list, region, freed, lock, refcnt, data, held, dirty, uaf>>

\* The region found is returned when (fileoff + sz) <= (fileoff + dirty->sz),
\* read after the lock was dropped: it compares the sizes only, not where
\* off lies in the region.  The caller's range is then registered dirty.
CreateCheck(t) ==
  LET a == arg[t] IN
  /\ pc[t] = "check"
  /\ IF a.cur # 0 /\ a.sz <= region[a.cur].sz
     THEN /\ Touch(a.cur) /\ Goto(t, "idle")
          /\ dirty' = dirty \cup Pages(a)
     ELSE Touch(a.cur) /\ Goto(t, "contig") /\ UNCHANGED dirty
  /\ UNCHANGED <<getVars, list, region, freed, lock, refcnt, data, arg, held, ops>>

\* find_contiguous_region: under the lock, the first region ending at off.
CreateContig(t) ==
  /\ pc[t] = "contig" /\ lock = NoThread
  /\ LET c == FirstWhere(EndingAt(arg[t].off))
     IN  /\ arg' = [arg EXCEPT ![t].cur = c]
         /\ Goto(t, IF c # 0 THEN "grow_load" ELSE "append")
  /\ UNCHANGED <<getVars, list, region, freed, lock, refcnt, data, held, dirty, uaf, ops>>

\* dirty->sz += sz, without the lock: a load and a store.
GrowLoad(t) ==
  LET c == arg[t].cur IN
  /\ pc[t] = "grow_load"
  /\ arg' = [arg EXCEPT ![t].tmp = region[c].sz]
  /\ Touch(c) /\ Goto(t, "grow_store")
  /\ UNCHANGED <<getVars, list, region, freed, lock, refcnt, data, held, dirty, ops>>

GrowStore(t) ==
  LET a == arg[t] IN
  /\ pc[t] = "grow_store"
  /\ region' = [region EXCEPT ![a.cur].sz = a.tmp + a.sz]
  /\ dirty' = dirty \cup Pages(a)
  /\ Touch(a.cur) /\ Goto(t, "idle")
  /\ UNCHANGED <<getVars, list, freed, lock, refcnt, data, arg, held, ops>>

\* Vfs_Calloc a region [off, sz] and LIST_APPEND it under the lock.
CreateAppend(t) ==
  LET a == arg[t]
      id == Len(region) + 1
  IN  /\ pc[t] = "append" /\ lock = NoThread
      /\ region' = Append(region, [off |-> a.off, sz |-> a.sz])
      /\ list' = Append(list, id)
      /\ dirty' = dirty \cup Pages(a)
      /\ Goto(t, "idle")
      /\ UNCHANGED <<getVars, freed, lock, refcnt, data, arg, held, uaf, ops>>

\* VfsH_PageCacheFlush takes the lock for the whole write-back loop.
FlushBegin(t) ==
  /\ Begin(t) /\ lock = NoThread
  /\ lock' = t /\ Goto(t, "flush")
  /\ UNCHANGED <<getVars, list, region, freed, refcnt, data, arg, held, dirty, uaf>>

\* One iteration: write_sync of [fileoff, fileoff + sz), LIST_REMOVE and
\* Vfs_Free of the region.
FlushOne(t) ==
  LET r == Head(list) IN
  /\ pc[t] = "flush" /\ list # <<>>
  /\ dirty' = dirty \ Pages(region[r])
  /\ list' = Tail(list)
  /\ freed' = freed \cup {r}
  /\ UNCHANGED <<getVars, region, lock, refcnt, data, pc, arg, held, uaf, ops>>

FlushEnd(t) ==
  /\ pc[t] = "flush" /\ list = <<>>
  /\ lock' = NoThread /\ Goto(t, "idle")
  /\ UNCHANGED <<getVars, list, region, freed, refcnt, data, arg, held, dirty, uaf, ops>>

\* VfsH_PageCacheRef: pc->refcnt++, a plain load and store.
RefLoad(t) ==
  /\ Begin(t)
  /\ arg' = [arg EXCEPT ![t].tmp = refcnt]
  /\ Goto(t, "ref_store")
  /\ UNCHANGED <<getVars, list, region, freed, lock, refcnt, data, held, dirty, uaf>>

RefStore(t) ==
  /\ pc[t] = "ref_store"
  /\ refcnt' = arg[t].tmp + 1
  /\ held' = [held EXCEPT ![t] = @ + 1]
  /\ Goto(t, "idle")
  /\ UNCHANGED <<getVars, list, region, freed, lock, data, arg, dirty, uaf, ops>>

\* VfsH_PageCacheUnref: pc->refcnt-- (load, store), then a new read of
\* pc->refcnt; zero frees pc->data.
UnrefLoad(t) ==
  /\ Begin(t) /\ held[t] > 0
  /\ arg' = [arg EXCEPT ![t].tmp = refcnt]
  /\ Goto(t, "unref_store")
  /\ UNCHANGED <<getVars, list, region, freed, lock, refcnt, data, held, dirty, uaf>>

UnrefStore(t) ==
  /\ pc[t] = "unref_store"
  /\ refcnt' = arg[t].tmp - 1
  /\ held' = [held EXCEPT ![t] = @ - 1]
  /\ Goto(t, "unref_test")
  /\ UNCHANGED <<getVars, list, region, freed, lock, data, arg, dirty, uaf, ops>>

UnrefTest(t) ==
  /\ pc[t] = "unref_test"
  /\ data' = (data /\ refcnt # 0)
  /\ Goto(t, "idle")
  /\ UNCHANGED <<getVars, list, region, freed, lock, refcnt, arg, held, dirty, uaf, ops>>

\* The pages [first, last] that bytes [off, off + sz) of the file lie in.
PagesOf(off, sz) == (off \div PageSize) .. ((off + sz - 1) \div PageSize)

\* The loop of VfsH_PageCacheGetEntry is past its last page: addr >= top,
\* with top = base + size and base the offset rounded down to a page.
LoopDone(a) == a.cur * PageSize >= (a.off - (a.off % PageSize)) + a.sz

\* The call's pc->data is the current reservation: not freed by an unref
\* since the call read it (arg.tmp holds the reservation it read).
Current(a) == data /\ a.tmp = gen

\* The pages whose contents are what read_sync read in since pc->data was
\* reserved.
ReadIn == loaded

\* rng->reserved of pc->data's page_range: cleared by the commit that brings
\* size_committed to rng->size (vn->filesize).
Reserved == sizeCommitted < FilePages

\* VfsH_PageCacheGetEntry(pc, vn, offset, size): pc->data is reserved
\* (VMA_FLAGS_RESERVE) when null, without a lock (the test and the store are
\* one step here: two calls that both reserve, one reservation leaking, are
\* not modelled); the loop then runs from base = pc->data + offset rounded
\* down to a page, while addr < base + size.
GetBegin(t) ==
  /\ Begin(t)
  /\ \E off \in GetOffsets, sz \in GetSizes :
       arg' = [arg EXCEPT ![t] = [off |-> off, sz |-> sz, cur |-> off \div PageSize,
                                  tmp |-> IF data THEN gen ELSE gen + 1]]
  /\ IF data THEN UNCHANGED <<data, gen, sizeCommitted, loaded, reads>>
     ELSE /\ data' = TRUE /\ gen' = gen + 1 /\ sizeCommitted' = 0 /\ loaded' = {}
          /\ reads' = [p \in DOMAIN reads |-> 0]
  /\ Goto(t, "get_commit")
  /\ UNCHANGED <<list, region, freed, lock, refcnt, held, dirty, uaf, stale>>

\* One iteration: Mm_VirtualMemoryAlloc(&Mm_KernelContext, addr, one page),
\* atomic under the context lock.  RB_FIND finds pc->data's page_range;
\* while it is reserved the commit succeeds, whether or not the page was
\* committed before: size_committed grows by a page, the page is mapped
\* anew to the anonymous page (what it held is dropped), and read_sync
\* follows.  Once size_committed has reached the range's size the range is
\* no longer reserved and every commit returns OBOS_STATUS_IN_USE, which
\* goes on to the next page.  When the loop ends, pc->data + offset is
\* returned and the caller reads or writes bytes [offset, offset + size).
\* A call whose pc->data an unref freed meanwhile uses freed memory (what
\* follows is not modelled: the call ends).
GetCommit(t) ==
  LET a == arg[t] IN
  /\ pc[t] = "get_commit"
  /\ CASE ~Current(a) -> uaf' = TRUE /\ Goto(t, "idle")
                         /\ UNCHANGED <<sizeCommitted, loaded, stale, arg>>
       [] LoopDone(a) -> /\ stale' = (stale \/ ~(PagesOf(a.off, a.sz) \subseteq ReadIn))
                         /\ Goto(t, "idle") /\ UNCHANGED <<sizeCommitted, loaded, arg, uaf>>
       [] Reserved -> /\ sizeCommitted' = sizeCommitted + 1
                      /\ loaded' = loaded \ {a.cur}
                      /\ Goto(t, "get_read") /\ UNCHANGED <<stale, arg, uaf>>
       [] OTHER -> /\ arg' = [arg EXCEPT ![t].cur = @ + 1]
                   /\ UNCHANGED <<sizeCommitted, loaded, stale, pc, uaf>>
  /\ UNCHANGED <<list, region, freed, lock, refcnt, data, gen, held, dirty, reads, ops>>

\* read_sync of the page just committed from the disk; an error returns
\* nullptr and leaves the page committed but not read in.
GetRead(t) ==
  /\ pc[t] = "get_read"
  /\ \E fail \in ReadFails :
       CASE ~Current(arg[t]) -> uaf' = TRUE /\ Goto(t, "idle") /\ UNCHANGED <<arg, reads, loaded>>
         [] fail -> Goto(t, "idle") /\ UNCHANGED <<arg, reads, loaded, uaf>>
         [] OTHER -> /\ reads' = [reads EXCEPT ![arg[t].cur] = @ + 1]
                     /\ loaded' = loaded \cup {arg[t].cur}
                     /\ arg' = [arg EXCEPT ![t].cur = @ + 1]
                     /\ Goto(t, "get_commit") /\ UNCHANGED uaf
  /\ UNCHANGED <<list, region, freed, lock, refcnt, data, gen, held, dirty,
                 sizeCommitted, stale, ops>>

\* Every thread has made its calls: the system stops.
Done == /\ \A t \in Threads : pc[t] = "idle" /\ ops[t] = MaxOps
        /\ UNCHANGED vars

Next == \/ \E t \in Threads :
             \/ CreateLookup(t) \/ CreateCheck(t) \/ CreateContig(t)
             \/ GrowLoad(t) \/ GrowStore(t) \/ CreateAppend(t)
             \/ FlushBegin(t) \/ FlushOne(t) \/ FlushEnd(t)
             \/ RefLoad(t) \/ RefStore(t)
             \/ UnrefLoad(t) \/ UnrefStore(t) \/ UnrefTest(t)
             \/ GetBegin(t) \/ GetCommit(t) \/ GetRead(t)
        \/ Done

Spec == Init /\ [][Next]_vars

-----------------------------------------------------------------------------
\* Every page registered through VfsH_PCDirtyRegionCreate and not written
\* back since lies in a region of pc->dirty_regions, so a flush writes it.
DirtyCovered ==
  \A p \in dirty : \E i \in 1 .. Len(list) : p \in Pages(region[list[i]])

\* Spec 3 (PageCache): dirty regions may touch but not overlap.
RegionsDisjoint ==
  \A i, j \in 1 .. Len(list) :
     i # j => Pages(region[list[i]]) \cap Pages(region[list[j]]) = {}

\* A region released by Vfs_Free in a flush is never read or written
\* again by a VfsH_PCDirtyRegionCreate that found it.
NoRegionUseAfterFree == ~uaf

\* Spec 4.6: pc->data is freed only when the last reference is dropped.
\* The owning vnode keeps its reference here and each thread drops only
\* those it took, so the data stays allocated throughout.
DataLiveWhileReferenced == data

EntryReadIn == ~stale
=============================================================================

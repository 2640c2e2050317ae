---------------------------- MODULE VirtualMemory ----------------------------
(***************************************************************************)
(* The address-space context of src/oboskrnl/mm/alloc.c:                   *)
(* Mm_VirtualMemoryAlloc, Mm_VirtualMemoryFree and Mm_VirtualMemoryProtect *)
(* called by several threads on one context.                              *)
(*                                                                         *)
(* Addresses are page numbers (OBOS_PAGE_SIZE = 1, no huge pages), no     *)
(* file is passed (the anonymous and reserved paths are the ones the      *)
(* kernel's own callers take).  The page tree ctx->pages is a function    *)
(* from range identities to range records, so a page_range* that outlives *)
(* its range is detectable.  The page table holds, per page, whether it   *)
(* is present, the frame and the rw bit; a non-present entry carries no   *)
(* frame, because MmS_SetPageMapping ignores phys when !present.          *)
(*                                                                         *)
(* The parts of each call that run under ctx->lock form one atomic step;  *)
(* RB_FIND of free and protect runs before the lock is taken and is a     *)
(* step of its own.  A panic (failed OBOS_ASSERT, null dereference, use   *)
(* of freed memory) stops the model in state fault.                        *)
(***************************************************************************)
EXTENDS FindAvailable, Integers, FiniteSets, SequencesExt, Functions, TLC

CONSTANTS Threads,         \* threads calling into the VMM
          NoThread,        \* the spinlock's "not held"
          NFrames,         \* number of physical frames MmH_PgAllocatePhysical can hand out
          NoFrame,         \* phys 0
          Sizes,           \* sizes, in pages, callers pass
          AllocFlagSets,   \* vma_flags of fresh allocations (subsets of Flags)
          CommitFlagSets,  \* vma_flags of commits into a reserved allocation
          ExplicitBases,   \* bases callers pass explicitly to Mm_VirtualMemoryAlloc
          ExplicitFlagSets,\* vma_flags passed with an explicit base
          AllocProts,      \* protections passed to alloc: "RW", "RO"
          Prots,           \* protections passed to protect: "RW", "RO", "SAME"
          PageableArgs,    \* isPageable passed to protect: 0, 1, 2 (= keep)
          WholeOnly,       \* TRUE: free/protect only whole allocations returned earlier
          MaxCalls         \* bound on VMM calls (state constraint)

Flags == {"RESERVE", "NON_PAGED", "GUARD_PAGE", "HINT"}
Frames == 1 .. NFrames
MaxSize == Max(Sizes)
\* Pages a range can reach: the span, plus what a range appended after the
\* limit by MmH_FindAvailableAddress can cover.
PtPages == 1 .. SpanLimit + 2 * (MaxSize + 1)

ASSUME /\ NoThread \notin Threads /\ NoFrame \notin Frames
       /\ Sizes \subseteq Nat \ {0}
       /\ \A F \in AllocFlagSets \cup CommitFlagSets \cup ExplicitFlagSets : F \subseteq Flags
       /\ ExplicitBases \subseteq SpanBase .. SpanLimit - 1
       /\ AllocProts \subseteq {"RW", "RO"} /\ Prots \subseteq {"RW", "RO", "SAME"} /\ PageableArgs \subseteq 0 .. 2

VARIABLES tree,     \* ctx->pages: range id -> page_range
          nextId,   \* identity of the next page_range the allocator returns
          pt,       \* ctx->pt: page -> [present, frame, rw]
          refcnt,   \* frame -> its page's refcount (0: on the free list)
          stat,     \* ctx->stat (memstat), unbounded: a negative value is a wrapped size_t
          lock,     \* ctx->lock: holder or NoThread
          pc,       \* thread -> "idle" | "alloc" | "free" | "protect"
          arg,      \* thread -> arguments of its call, and the range found before the lock
          held,     \* allocations returned to callers: [base, size, id, reserve]
          backed,   \* pages that received a commit since they were last freed
          calls,    \* number of calls made
          fault     \* "none" or the panic that stopped the kernel

vars == <<tree, nextId, pt, refcnt, stat, lock, pc, arg, held, backed, calls, fault>>

Unmapped == [present |-> FALSE, frame |-> NoFrame, rw |-> FALSE]

Ranges == Range(tree)

\* Mutation of Find: the lookup misses a range's first page.
FindAfterStart(b) == {i \in DOMAIN tree : tree[i].virt < b /\ b < RangeEnd(tree[i])}

\* RB_FIND(page_tree, &ctx->pages, &what): the ranges containing base.
Find(b) == {i \in DOMAIN tree : tree[i] \in Containing(Ranges, b)}

\* The pages a loop "for (addr = base; addr < base+size; addr += pgSize)" visits.
Window(b, s) == {p \in PtPages : b <= p /\ p < b + s}

\* Pages of the page table mapping frame f.
Mappings(f) == {p \in PtPages : pt[p].present /\ pt[p].frame = f}

FreeFrames == {f \in Frames : refcnt[f] = 0}

-----------------------------------------------------------------------------
(* Mm_VirtualMemoryAlloc                                                  *)

\* The requests callers make: a fresh allocation at base 0 or at an explicit
\* base, or the commit of one page inside an allocation made with RESERVE
\* (VfsH_PageCacheGetEntry commits its cache this way).
AllocRequests ==
  [base : {0}, size : Sizes, flags : AllocFlagSets, prot : AllocProts]
  \cup [base : ExplicitBases, size : Sizes, flags : ExplicitFlagSets, prot : AllocProts]
  \cup UNION {[base : Window(a.base, a.size), size : {1}, flags : CommitFlagSets,
               prot : {"RW"}] : a \in {h \in held : h.reserve}}

AllocBegin(t) ==
  /\ pc[t] = "idle" /\ fault = "none"
  /\ \E r \in AllocRequests : arg' = [arg EXCEPT ![t] = r]
  /\ pc' = [pc EXCEPT ![t] = "alloc"]
  /\ calls' = calls + 1
  /\ UNCHANGED <<tree, nextId, pt, refcnt, stat, lock, held, backed, fault>>

\* The size of the range: size plus the guard page.
AllocSize(a) == a.size + IF "GUARD_PAGE" \in a.flags THEN 1 ELSE 0

\* The frames the NON_PAGED branch of the page loop takes for pages P,
\* in the order MmH_PgAllocatePhysical hands them out.
TakeFrames(P) ==
  LET ps == SetToSortSeq(P, <)
      fs == SetToSortSeq(FreeFrames, <)
  IN  [p \in P |-> fs[CHOOSE k \in 1 .. Len(ps) : ps[k] = p]]

\* The page_range made when RB_FIND finds none at base b.
NewRange(a, b) ==
  [virt |-> b, size |-> AllocSize(a), reserved |-> "RESERVE" \in a.flags, committed |-> 0,
   guard |-> "GUARD_PAGE" \in a.flags, pageable |-> "NON_PAGED" \notin a.flags,
   rw |-> a.prot = "RW", cow |-> FALSE]

\* A commit into the reserved range r found: size_committed grows by the
\* size asked for, and the range stops being reserved once it reaches
\* rng->size.
CommitRange(r, sz) == [r EXCEPT !.committed = @ + sz, !.reserved = r.committed + sz < r.size]

\* An anonymous, pageable, non-reserve request: phys = Mm_AnonPage.
AnonPhys(a) == "NON_PAGED" \notin a.flags /\ "RESERVE" \notin a.flags

\* The body of Mm_VirtualMemoryAlloc from the page_range setup to the
\* release of ctx->lock, placing the request of t at base b into range i
\* (0: RB_FIND found none, a new page_range is made; otherwise the
\* reserved range the request commits into).
Place(t, b, i) ==
  LET a     == arg[t]
      np    == "NON_PAGED" \in a.flags
      res   == "RESERVE" \in a.flags
      g     == "GUARD_PAGE" \in a.flags
      sz    == AllocSize(a)
      isNew == i = 0
      r0    == IF isNew THEN NewRange(a, b) ELSE CommitRange(tree[i], sz)
      present == ~isNew \/ ~res
      L     == Window(b, sz)
      \* isPresent of the page loop: every page but a leading guard page.
      P     == {p \in L : present /\ ~(r0.guard /\ p = b)}
      \* phys = Mm_AnonPage: the loop marks the range COW_ASYMMETRIC.
      anon  == AnonPhys(a)
      r1    == IF anon /\ P # {} THEN [r0 EXCEPT !.cow = TRUE] ELSE r0
      \* curr.prot.present is forced off once the range is COW_ASYMMETRIC.
      mapped == IF np /\ ~r0.cow THEN P ELSE {}
      fr    == TakeFrames(P)
      s2    == IF g THEN sz - 1 ELSE sz
  IN
  \/ \* phys stays nullptr for a present page: MmH_RefPage(nullptr).
     /\ P # {} /\ res /\ ~np
     /\ fault' = "null_deref" /\ lock' = t
     /\ UNCHANGED <<tree, nextId, pt, refcnt, stat, pc, arg, held, backed, calls>>
  \/ \* MmH_PgAllocatePhysical fails: OBOS_ASSERT(phys != 0 || !isPresent).
     /\ np /\ Cardinality(P) > Cardinality(FreeFrames)
     /\ fault' = "assert" /\ lock' = t
     /\ UNCHANGED <<tree, nextId, pt, refcnt, stat, pc, arg, held, backed, calls>>
  \/ /\ ~(P # {} /\ res /\ ~np)
     /\ np => Cardinality(P) <= Cardinality(FreeFrames)
     /\ tree' = IF isNew THEN tree @@ (nextId :> r1) ELSE [tree EXCEPT ![i] = r1]
     /\ nextId' = IF isNew THEN nextId + 1 ELSE nextId
     /\ pt' = [p \in PtPages |->
                 IF p \notin L THEN pt[p]
                 ELSE IF p \in mapped THEN [present |-> TRUE, frame |-> fr[p], rw |-> r1.rw]
                 ELSE Unmapped]
     /\ refcnt' = IF np THEN [f \in Frames |-> IF f \in Range(fr) THEN 1 ELSE refcnt[f]]
                  ELSE refcnt
     /\ stat' = IF res
                THEN [stat EXCEPT !.reserved = @ + sz]
                ELSE [stat EXCEPT !.pageable  = IF np THEN @ ELSE @ + s2,
                                  !.nonPaged  = IF np THEN @ + s2 ELSE @,
                                  !.reserved  = IF isNew THEN @ ELSE @ - s2,
                                  !.committed = IF isNew THEN @ + s2 ELSE @]
     /\ held' = IF isNew
                THEN held \cup {[base |-> IF g THEN b + 1 ELSE b, size |-> a.size,
                                 id |-> nextId, reserve |-> res]}
                ELSE held
     /\ backed' = backed \cup P
     /\ pc' = [pc EXCEPT ![t] = "idle"]
     /\ UNCHANGED <<lock, arg, calls, fault>>

\* RB_FIND's answer at base b: a range id, or 0 for nullptr.
Hit(b) == IF Find(b) = {} THEN {0} ELSE Find(b)

\* A range the request may be placed in: none, or a reserved one.
Usable(i) == IF i = 0 THEN TRUE ELSE tree[i].reserved

AllocInUse(t) ==
  /\ pc' = [pc EXCEPT ![t] = "idle"]
  /\ UNCHANGED <<tree, nextId, pt, refcnt, stat, lock, arg, held, backed, calls, fault>>

\* "goto top" with base = 0 finds the same used address again, forever,
\* with ctx->lock held.
AllocHang(t) ==
  /\ fault' = "hang" /\ lock' = t
  /\ UNCHANGED <<tree, nextId, pt, refcnt, stat, pc, arg, held, backed, calls>>

\* Mm_VirtualMemoryAlloc from Core_SpinlockAcquireExplicit to the release.
AllocLocked(t) ==
  /\ pc[t] = "alloc" /\ lock = NoThread /\ fault = "none"
  /\ LET a  == arg[t]
         b0 == IF a.base = 0 THEN FindAvailableAddress(Ranges, AllocSize(a)) ELSE a.base
         b1 == FindAvailableAddress(Ranges, AllocSize(a))
     IN  \E i \in Hit(b0), j \in Hit(b1) :
           \* HINT: "base = 0; goto top", RB_FIND now answering j
           LET retry == ~Usable(i) /\ "HINT" \in a.flags
           IN  \/ /\ Usable(i) \/ (retry /\ Usable(j))
                  /\ Place(t, IF retry THEN b1 ELSE b0, IF retry THEN j ELSE i)
               \/ ~Usable(i) /\ "HINT" \notin a.flags /\ AllocInUse(t)
               \/ retry /\ ~Usable(j) /\ AllocHang(t)

-----------------------------------------------------------------------------
(* Mm_VirtualMemoryFree                                                   *)

\* The [base, size) a caller passes to free or protect.  Callers never
\* free or protect bytes another thread is freeing or protecting.
InFlight(t) == UNION {Window(arg[u].base, arg[u].size) :
                        u \in {v \in Threads \ {t} : pc[v] \in {"free", "protect"}}}
RangeArgs(t) ==
  IF WholeOnly
  THEN {[base |-> h.base, size |-> h.size] : h \in held}
  ELSE {a \in [base : SpanBase .. SpanLimit - 1, size : Sizes] :
          Window(a.base, a.size) \cap InFlight(t) = {}}

\* The argument checks and the RB_FIND made before ctx->lock is taken.
FreeBegin(t) ==
  /\ pc[t] = "idle" /\ fault = "none"
  /\ \E a \in RangeArgs(t) :
       /\ held' = {h \in held : h.base # a.base \/ h.size # a.size}
       /\ calls' = calls + 1
       /\ \/ Find(a.base) = {} /\ UNCHANGED <<pc, arg>>          \* OBOS_STATUS_NOT_FOUND
          \/ \E i \in Find(a.base) :
               /\ arg' = [arg EXCEPT ![t] = [base |-> a.base, size |-> a.size, rid |-> i]]
               /\ pc' = [pc EXCEPT ![t] = "free"]
  /\ UNCHANGED <<tree, nextId, pt, refcnt, stat, lock, backed, fault>>

\* Mutation of UnmapPt: MmS_SetPageMapping is not called.
UnmapPtNone(L) == pt
\* Mutation of DerefAll: MmH_DerefPage is not called.
DerefNone(L) == refcnt
\* Mutation of DerefAll: each frame is dereferenced twice.
DerefTwice(L) == [f \in Frames |-> refcnt[f] - 2 * Cardinality(Mappings(f) \cap L)]
\* The loop over [base, base+size): MmH_DerefPage of every present page's
\* frame, then MmS_SetPageMapping(..., 0, true) of every page.
UnmapPt(L) == [p \in PtPages |-> IF p \in L THEN Unmapped ELSE pt[p]]
DerefAll(L) == [f \in Frames |-> refcnt[f] - Cardinality(Mappings(f) \cap L)]

\* The memstat update of the free for n pages of range r.
FreeStat(r, n) ==
  [stat EXCEPT !.reserved  = IF r.reserved THEN @ - n ELSE @,
               !.committed = IF r.reserved THEN @ ELSE @ - n,
               !.pageable  = IF r.pageable THEN @ - n ELSE @,
               !.nonPaged  = IF r.pageable THEN @ ELSE @ - n]

\* A panic with ctx->lock held by t.
Panic(t, kind) ==
  /\ fault' = kind /\ lock' = t
  /\ UNCHANGED <<tree, nextId, pt, refcnt, stat, pc, arg, held, backed, calls>>

\* Return with ctx->lock still held (the INVALID_ARGUMENT of a split).
ReturnLocked(t) ==
  /\ lock' = t /\ pc' = [pc EXCEPT ![t] = "idle"]
  /\ UNCHANGED <<tree, nextId, pt, refcnt, stat, arg, held, backed, calls, fault>>

\* Mutation of FreeRelease: the page loop stops one page early.
FreeReleaseShort(t, L) ==
  LET L2 == {p \in L : \E q \in L : q > p} IN
  /\ pt' = UnmapPt(L2) /\ refcnt' = DerefAll(L2)
  /\ backed' = backed \ L
  /\ pc' = [pc EXCEPT ![t] = "idle"]
  /\ UNCHANGED <<nextId, lock, arg, held, calls, fault>>

\* The page loop over L and the release of ctx->lock.
FreeRelease(t, L) ==
  /\ pt' = UnmapPt(L) /\ refcnt' = DerefAll(L)
  /\ backed' = backed \ L
  /\ pc' = [pc EXCEPT ![t] = "idle"]
  /\ UNCHANGED <<nextId, lock, arg, held, calls, fault>>

\* Mm_VirtualMemoryFree from Core_SpinlockAcquireExplicit to the release.
FreeLocked(t) ==
  /\ pc[t] = "free" /\ lock = NoThread /\ fault = "none"
  /\ LET a == arg[t] IN
     \/ a.rid \notin DOMAIN tree /\ Panic(t, "use_after_free")
     \/ a.rid \in DOMAIN tree /\
        LET r    == tree[a.rid]
            b    == IF r.guard THEN a.base - 1 ELSE a.base
            shg  == r.guard /\ a.size = r.size - 1
            s    == IF shg THEN a.size + 1 ELSE a.size
            L    == Window(b, s)
            n    == IF shg THEN s - 1 ELSE s
            full == r.virt = b /\ r.size = s
            both == r.virt # b /\ r.size # s
            ns   == r.size - s
        IN
        \/ /\ full
           /\ tree' = Restrict(tree, DOMAIN tree \ {a.rid})
           /\ stat' = FreeStat(r, n) /\ FreeRelease(t, L)
        \/ both /\ b + s >= RangeEnd(r) /\ ReturnLocked(t)
        \/ \* split into before and after, then OBOS_ASSERT(rng->size) with rng == nullptr
           /\ both /\ b + s < RangeEnd(r)
           /\ tree' = Restrict(tree, DOMAIN tree \ {a.rid})
                      @@ (nextId :> [r EXCEPT !.size = b - r.virt])
                      @@ (nextId + 1 :> [r EXCEPT !.virt = b + s, !.size = b + s - r.virt,
                                                  !.guard = FALSE])
           /\ nextId' = nextId + 2
           /\ fault' = "null_deref" /\ lock' = t
           /\ UNCHANGED <<pt, refcnt, stat, pc, arg, held, backed, calls>>
        \/ ~full /\ ~both /\ ns = 0 /\ Panic(t, "assert")
        \/ \* rng->size - size wraps: the model stops at a range of size ~2^64
           ~full /\ ~both /\ ns < 0 /\ Panic(t, "size_wrap")
        \/ /\ ~full /\ ~both /\ ns > 0
           /\ tree' = [tree EXCEPT ![a.rid] = [r EXCEPT !.size = ns, !.virt = @ + s]]
           /\ stat' = FreeStat([r EXCEPT !.size = ns], n) /\ FreeRelease(t, L)

-----------------------------------------------------------------------------
(* Mm_VirtualMemoryProtect                                                *)

ProtectBegin(t) ==
  /\ pc[t] = "idle" /\ fault = "none"
  /\ \E a \in RangeArgs(t), prot \in Prots, pg \in PageableArgs :
       /\ calls' = calls + 1
       /\ \/ prot = "SAME" /\ pg = 2 /\ UNCHANGED <<pc, arg>>     \* nothing to change
          \/ ~(prot = "SAME" /\ pg = 2) /\ Find(a.base) = {}
             /\ UNCHANGED <<pc, arg>>                              \* OBOS_STATUS_NOT_FOUND
          \/ ~(prot = "SAME" /\ pg = 2) /\ \E i \in Find(a.base) :
               /\ arg' = [arg EXCEPT ![t] = [base |-> a.base, size |-> a.size, rid |-> i,
                                             prot |-> prot, pageable |-> pg]]
               /\ pc' = [pc EXCEPT ![t] = "protect"]
  /\ UNCHANGED <<tree, nextId, pt, refcnt, stat, lock, held, backed, fault>>

\* The loop over [base, base+size): MmS_SetPageMapping with new_prot and
\* the present bit and phys the page table already holds.
Reprotect(L, rw) == [p \in PtPages |-> IF p \in L /\ pt[p].present
                                        THEN [pt[p] EXCEPT !.rw = rw] ELSE pt[p]]

\* new_prot.rw: replaced unless OBOS_PROTECTION_SAME_AS_BEFORE.
NewRw(r, prot) == IF prot = "SAME" THEN r.rw ELSE prot = "RW"

\* The page loop over L and the release of ctx->lock.
ProtectRelease(t, L, rw) ==
  /\ pt' = Reprotect(L, rw)
  /\ pc' = [pc EXCEPT ![t] = "idle"]
  /\ UNCHANGED <<refcnt, stat, lock, arg, held, backed, calls, fault>>

\* Mm_VirtualMemoryProtect from Core_SpinlockAcquireExplicit to the release.
ProtectLocked(t) ==
  /\ pc[t] = "protect" /\ lock = NoThread /\ fault = "none"
  /\ LET a == arg[t] IN
     \/ a.rid \notin DOMAIN tree /\ Panic(t, "use_after_free")
     \/ a.rid \in DOMAIN tree /\
        LET r    == tree[a.rid]
            b    == a.base
            s    == a.size
            rw   == NewRw(r, a.prot)
            pg   == IF a.pageable = 2 THEN r.pageable ELSE a.pageable = 1
            new  == [r EXCEPT !.virt = b, !.size = s, !.rw = rw, !.pageable = pg]
            full == r.virt = b /\ r.size = s
            both == r.virt # b /\ r.size # s
            ns   == r.size - s
        IN
        \/ full /\ UNCHANGED <<tree, nextId>> /\ ProtectRelease(t, Window(b, s), rw)
        \/ both /\ b + s >= RangeEnd(r) /\ ReturnLocked(t)
        \/ \* before, new and after are memcpy'd from rng: all keep hasGuardPage
           /\ both /\ b + s < RangeEnd(r)
           /\ tree' = Restrict(tree, DOMAIN tree \ {a.rid})
                      @@ (nextId :> [r EXCEPT !.size = b - r.virt])
                      @@ (nextId + 1 :> [r EXCEPT !.virt = b + s,
                                                  !.size = r.size - (b + s - r.virt)])
                      @@ (nextId + 2 :> new)
           /\ nextId' = nextId + 3 /\ ProtectRelease(t, Window(b, s), rw)
        \/ ~full /\ ~both /\ ns < 0 /\ Panic(t, "size_wrap")
        \/ /\ ~full /\ ~both /\ ns >= 0
           \* new keeps rng->virt; rng moves to base when base > rng->virt
           /\ tree' = [tree EXCEPT ![a.rid] =
                         [r EXCEPT !.size = ns,
                                   !.virt = IF b > r.virt THEN b ELSE r.virt + s]]
                      @@ (nextId :> [new EXCEPT !.virt = r.virt])
           /\ nextId' = nextId + 1 /\ ProtectRelease(t, Window(b, s), rw)

-----------------------------------------------------------------------------

\* A thread in Core_SpinlockAcquireExplicit spinning on a held ctx->lock.
Spin(t) ==
  /\ pc[t] \in {"alloc", "free", "protect"} /\ lock # NoThread /\ fault = "none"
  /\ UNCHANGED vars

\* OBOS_Panic never returns: the kernel loops forever.
Halt == fault # "none" /\ UNCHANGED vars

Init ==
  /\ tree = [i \in {} |-> {}]
  /\ nextId = 1
  /\ pt = [p \in PtPages |-> Unmapped]
  /\ refcnt = [f \in Frames |-> 0]
  /\ stat = [committed |-> 0, pageable |-> 0, nonPaged |-> 0, reserved |-> 0]
  /\ lock = NoThread
  /\ pc = [t \in Threads |-> "idle"]
  /\ arg = [t \in Threads |-> [base |-> 0, size |-> 0]]
  /\ held = {}
  /\ backed = {}
  /\ calls = 0
  /\ fault = "none"

Next ==
  \/ \E t \in Threads : \/ AllocBegin(t) \/ AllocLocked(t)
                        \/ FreeBegin(t) \/ FreeLocked(t)
                        \/ ProtectBegin(t) \/ ProtectLocked(t)
                        \/ Spin(t)
  \/ Halt

Spec == Init /\ [][Next]_vars

\* The model's bound on the number of calls.
CallBound == calls <= MaxCalls

-----------------------------------------------------------------------------
(* Properties                                                             *)

RangeRec == [virt : Int, size : Int, reserved : BOOLEAN, committed : Nat,
             guard : BOOLEAN, pageable : BOOLEAN, rw : BOOLEAN, cow : BOOLEAN]

TypeOK ==
  /\ DOMAIN tree \subseteq 1 .. nextId - 1 /\ \A i \in DOMAIN tree : tree[i] \in RangeRec
  /\ pt \in [PtPages -> {Unmapped} \cup [present : {TRUE}, frame : Frames, rw : BOOLEAN]]
  /\ refcnt \in [Frames -> Nat]
  /\ stat \in [committed : Int, pageable : Int, nonPaged : Int, reserved : Int]
  /\ lock \in Threads \cup {NoThread}
  /\ pc \in [Threads -> {"idle", "alloc", "free", "protect"}]
  /\ backed \subseteq PtPages
  /\ fault \in {"none", "null_deref", "assert", "use_after_free", "hang", "size_wrap"}

\* Section 8.1 of the spec: the page tree holds non-empty, pairwise disjoint
\* ranges, whatever the interleaving of alloc (MmH_FindAvailableAddress and
\* the RB_FIND collision check), free and protect splits.
RangesDisjoint ==
  fault = "none" =>
    \A i, j \in DOMAIN tree :
      /\ tree[i].size > 0
      /\ i # j => RangeEnd(tree[i]) <= tree[j].virt \/ RangeEnd(tree[j]) <= tree[i].virt

\* Section 8.2: the refcount of every frame the NON_PAGED path allocated is
\* the number of page-table entries that map it, so the frame returns to
\* the free pool exactly when its last mapping is removed by a free.
RefcountExact == \A f \in Frames : refcnt[f] = Cardinality(Mappings(f))

\* No frame is mapped while its refcount says fewer mappings exist, i.e. a
\* free never hands back to the allocator a frame some page still maps.
NoFrameFreedWhileMapped == \A f \in Frames : refcnt[f] >= Cardinality(Mappings(f))

\* Section 8.3: a page is present in the page table only inside a range of
\* the tree; Mm_VirtualMemoryFree unmaps every page it removes.
MappedPagesInRanges ==
  \A p \in PtPages : pt[p].present => \E i \in DOMAIN tree : tree[i].virt <= p /\ p < RangeEnd(tree[i])

\* No memstat counter (size_t) wraps below zero: what alloc adds for a
\* range, free removes from the same counter.
NoCounterUnderflow == \A k \in DOMAIN stat : stat[k] >= 0

\* ctx->lock is held only by a thread inside a VMM call: no return path of
\* free or protect leaves the spinlock held.
LockReleasedOnReturn == lock # NoThread => pc[lock] # "idle"

\* The OBOS_ASSERT(rng->size) after a split never dereferences nullptr.
NoNullDeref == fault # "null_deref"

\* The page_range that free or protect found before taking ctx->lock is
\* still in the tree when it is used under the lock.
NoUseAfterFree == fault # "use_after_free"

\* A present page is writable exactly when the range that holds it says
\* so: protect keeps the range record and the page table in step.
RangeProtMatchesPageTable ==
  \A p \in PtPages, i \in DOMAIN tree :
    pt[p].present /\ tree[i].virt <= p /\ p < RangeEnd(tree[i]) => pt[p].rw = tree[i].rw

\* A range that is no longer reserved has had every page (but its guard
\* page) committed: size_committed counts pages, not commit calls.
UnreservedRangesCommitted ==
  \A i \in DOMAIN tree :
    ~tree[i].reserved =>
      \A p \in Window(tree[i].virt, tree[i].size) :
        p \in backed \/ (tree[i].guard /\ p = tree[i].virt)

=============================================================================

--------------------------- MODULE MCVirtualMemory ---------------------------
(***************************************************************************)
(* Instances of VirtualMemory for TLC.  The flag sets are the vma_flags   *)
(* the kernel's callers pass: VfsH_PageCacheGetEntry reserves its cache   *)
(* with RESERVE|NON_PAGED and commits single pages with no flags; kernel  *)
(* stacks and buffers are NON_PAGED, with or without a guard page.        *)
(***************************************************************************)
EXTENDS VirtualMemory

CONSTANTS t1, t2

MCThreads == {t1, t2}

\* The threads are interchangeable.
ThreadSymmetry == Permutations(MCThreads)

\* Fresh allocations made by kernel code.
KernelAllocFlags ==
  {{}, {"NON_PAGED"}, {"NON_PAGED", "GUARD_PAGE"}, {"RESERVE", "NON_PAGED"}}

\* Commits of one page of a reserved allocation, as VfsH_PageCacheGetEntry.
PageCacheCommitFlags == {{}}

\* Commits of non-paged memory into a reserved allocation.
MixedCommitFlags == {{}, {"NON_PAGED"}}

\* Flags any caller (a system call on a user context) may pass.
AnyAllocFlags ==
  {{}, {"NON_PAGED"}, {"RESERVE"}, {"RESERVE", "NON_PAGED"}, {"GUARD_PAGE"}, {"HINT"}}
AnyCommitFlags == {{}, {"NON_PAGED"}, {"RESERVE"}}
AnyExplicitFlags == {{}, {"HINT"}}

\* An explicit base passed with HINT: placed elsewhere on a collision.
HintFlags == {{"HINT"}}

\* Anonymous allocations with no flag.
PlainFlags == {{}}

\* An explicit base passed with NON_PAGED.
NonPagedFlags == {{"NON_PAGED"}}

NoFlags == {}

=============================================================================

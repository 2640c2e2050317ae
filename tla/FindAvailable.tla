---------------------------- MODULE FindAvailable ----------------------------
(***************************************************************************)
(* MmH_FindAvailableAddress (src/oboskrnl/mm/alloc.c) as a pure operator.  *)
(* Addresses are counted in pages (one page = OBOS_PAGE_SIZE bytes), so   *)
(* the rounding of size to pgSize is the identity.  A range is a record   *)
(* [virt, size]; the page tree of a context is a set of such records.     *)
(***************************************************************************)
EXTENDS Integers, SequencesExt

CONSTANTS SpanBase,   \* base of the context's span (OBOS_USER_ADDRESS_SPACE_BASE)
          SpanLimit   \* limit of the span (OBOS_USER_ADDRESS_SPACE_LIMIT)

ASSUME SpanBase \in Nat \ {0} /\ SpanLimit \in Nat /\ SpanBase < SpanLimit

RangeEnd(r) == r.virt + r.size

\* RB_FIND with the page tree's comparator: the ranges whose half-open
\* interval contains address v (the comparator lives in mm/page.h).
Containing(R, v) == {r \in R : r.virt <= v /\ v < RangeEnd(r)}

\* RB_MIN / RB_NEXT: the ranges in ascending order of virt.
InOrder(R) == SetToSortSeq(R, LAMBDA a, b : a.virt < b.virt)

\* Mutation of Walk: the gap test without the one-page slack (size + pgSize).
RECURSIVE WalkNoSlack(_, _, _, _)
WalkNoSlack(nodes, size, lastAddress, lastEnd) ==
  IF nodes = <<>> \/ Head(nodes).virt >= SpanLimit
  THEN [found |-> 0, last |-> lastEnd]
  ELSE LET n == Head(nodes) IN
       IF n.virt < SpanBase
       THEN WalkNoSlack(Tail(nodes), size, lastAddress, lastEnd)
       ELSE IF n.virt < lastAddress \/ n.virt - lastAddress >= size
            THEN IF lastEnd = 0
                 THEN WalkNoSlack(Tail(nodes), size, lastAddress, lastEnd)
                 ELSE [found |-> lastAddress, last |-> lastEnd]
            ELSE WalkNoSlack(Tail(nodes), size, RangeEnd(n), RangeEnd(n))

\* The loop of MmH_FindAvailableAddress over the ranges in ascending order.
\* lastEnd is the end of lastNode, 0 while lastNode is nullptr.  The result
\* is [found |-> the accepted address, or 0, last |-> lastEnd at exit].
RECURSIVE Walk(_, _, _, _)
Walk(nodes, size, lastAddress, lastEnd) ==
  IF nodes = <<>> \/ Head(nodes).virt >= SpanLimit
  THEN [found |-> 0, last |-> lastEnd]
  ELSE LET n == Head(nodes) IN
       IF n.virt < SpanBase
       THEN Walk(Tail(nodes), size, lastAddress, lastEnd)
       \* currentNodeAddr - lastAddress is unsigned: it wraps to a huge gap
       \* when a node starts before lastAddress (overlapping ranges).
       ELSE IF n.virt < lastAddress \/ n.virt - lastAddress >= size + 1
            THEN IF lastEnd = 0
                 THEN Walk(Tail(nodes), size, lastAddress, lastEnd)
                 ELSE [found |-> lastAddress, last |-> lastEnd]
            ELSE Walk(Tail(nodes), size, RangeEnd(n), RangeEnd(n))

\* MmH_FindAvailableAddress(ctx, size, flags): lastNode starts as the range
\* containing the span base; when no gap is accepted the address after
\* lastNode (or the span base) is returned.  The code never compares that
\* fallback with the limit, so it never reports NOT_ENOUGH_MEMORY.
FindAvailableAddress(R, size) ==
  LET start == Containing(R, SpanBase)
      end0  == IF start = {} THEN 0 ELSE RangeEnd(CHOOSE r \in start : TRUE)
      w     == Walk(InOrder(R), size, SpanBase, end0)
  IN  IF w.found # 0 THEN w.found
      ELSE IF w.last # 0 THEN w.last ELSE SpanBase

=============================================================================

--------------------------- MODULE MCFindAvailable ---------------------------
(***************************************************************************)
(* Checks MmH_FindAvailableAddress (module FindAvailable) over every page  *)
(* tree of disjoint ranges inside a small span.  The state is one input:  *)
(* the set of ranges and the requested size; the client adds and removes  *)
(* ranges, so every reachable state is a tree a context can hold.         *)
(***************************************************************************)
EXTENDS FindAvailable, FiniteSets

CONSTANTS MaxSize   \* largest requested size, in pages

VARIABLES rs, size
vars == <<rs, size>>

SpanPages == SpanBase .. SpanLimit - 1

Disjoint(r, q) == RangeEnd(r) <= q.virt \/ RangeEnd(q) <= r.virt

Init == /\ rs = {}
        /\ size \in 1 .. MaxSize

AddRange == \E v \in SpanPages, s \in 1 .. MaxSize :
              LET r == [virt |-> v, size |-> s] IN
              /\ RangeEnd(r) <= SpanLimit
              /\ \A q \in rs : Disjoint(r, q)
              /\ rs' = rs \cup {r}
              /\ UNCHANGED size

RemoveRange == \E r \in rs : rs' = rs \ {r} /\ UNCHANGED size

Next == AddRange \/ RemoveRange

Spec == Init /\ [][Next]_vars

-----------------------------------------------------------------------------
\* The placement the spec (section 4.3) asks for: the first gap after the
\* span base or after a range that leaves size + one page free before the
\* next range; failing that, the address after the last range; failing that
\* (the range would cross the limit), no address.
Covered(c) == Containing(rs, c) # {}
Candidates == {c \in {SpanBase} \cup {RangeEnd(r) : r \in rs} : ~Covered(c)}
GapFits(c) == /\ c + size <= SpanLimit
              /\ \A r \in rs : r.virt >= c => r.virt >= c + size + 1
AfterLast(c) == /\ c + size <= SpanLimit
                /\ \A r \in rs : r.virt < c
Reference ==
  IF \E c \in Candidates : GapFits(c)
  THEN CHOOSE c \in Candidates : GapFits(c) /\ \A d \in Candidates : GapFits(d) => c <= d
  ELSE IF \E c \in Candidates : AfterLast(c)
       THEN CHOOSE c \in Candidates : AfterLast(c)
       ELSE 0

Result == FindAvailableAddress(rs, size)

TypeOK == /\ rs \subseteq [virt : SpanPages, size : 1 .. MaxSize]
          /\ size \in 1 .. MaxSize

\* Whenever the span has room, MmH_FindAvailableAddress returns exactly the
\* first-fit address of the reference placement: its walk over the sorted
\* tree (the lastNode bookkeeping, the one-page slack, the fall-back after
\* the last range) agrees with the specified algorithm.
MatchesReference == Reference # 0 => Result = Reference

\* The address returned leaves the whole allocation inside the span: the
\* fall-back "after the last range" of MmH_FindAvailableAddress is never
\* compared with the limit.
ResultWithinSpan == Result + size <= SpanLimit

=============================================================================

CONSTANTS
  t1 = t1
  t2 = t2
  NoThread = NoThread
  NoFrame = NoFrame
  SpanBase = 1
  SpanLimit = 11
  NFrames = 3
  Sizes = {1, 2}
  ExplicitBases = {}
  ExplicitFlagSets <- NoFlags
  AllocProts = {"RW"}
  Prots = {}
  PageableArgs = {2}
  WholeOnly = TRUE
  MaxCalls = 4
  Threads <- MCThreads
  AllocFlagSets <- KernelAllocFlags
  CommitFlagSets <- PageCacheCommitFlags
SPECIFICATION Spec
CONSTRAINT CallBound
SYMMETRY ThreadSymmetry
INVARIANT TypeOK
INVARIANT RangesDisjoint
INVARIANT RefcountExact
INVARIANT MappedPagesInRanges

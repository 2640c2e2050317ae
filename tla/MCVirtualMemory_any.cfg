CONSTANTS
  t1 = t1
  t2 = t2
  NoThread = NoThread
  NoFrame = NoFrame
  SpanBase = 1
  SpanLimit = 5
  NFrames = 2
  Sizes = {1, 2}
  ExplicitBases = {1, 2}
  AllocProts = {"RW"}
  Prots = {"RO", "SAME"}
  PageableArgs = {0, 2}
  WholeOnly = FALSE
  MaxCalls = 3
  Threads <- MCThreads
  AllocFlagSets <- AnyAllocFlags
  CommitFlagSets <- AnyCommitFlags
  ExplicitFlagSets <- AnyExplicitFlags
SPECIFICATION Spec
CONSTRAINT CallBound
SYMMETRY ThreadSymmetry
INVARIANT NoFrameFreedWhileMapped

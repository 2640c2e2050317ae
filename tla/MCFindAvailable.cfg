CONSTANTS
  SpanBase = 1
  SpanLimit = 7
  MaxSize = 3
SPECIFICATION Spec
INVARIANT MatchesReference

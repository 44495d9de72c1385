SPECIFICATION FairSpec
CONSTANTS
  forward = forward
  backward = backward
  other = other
  short = short
  Definitions = {forward, backward, other, short}
  LinesOf <- MCLinesOf
  Amount = 3
CHECK_DEADLOCK FALSE
INVARIANTS
  SplitsTypeOK
  DefinitionsAreWhole
  DoubledOnlyByOverlap
  FailsOnlyOnDoubledLines
PROPERTIES
  DefinitionsEnd

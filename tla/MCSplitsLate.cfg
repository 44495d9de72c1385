SPECIFICATION Spec
CONSTANTS
  forward = forward
  backward = backward
  other = other
  short = short
  Definitions = {forward, other}
  LinesOf <- MCLinesOf
  Amount = 3
CHECK_DEADLOCK FALSE
PROPERTIES
  LinesFixedWhenClosed

\* Bit tables with outputs of width 0.
CONSTANTS
  MaxOutputs = 2
  Widths = {0, 1}
  MaxReduction = 1
  ElementBytes = 1
  Garbage = Garbage
  Fault = Fault
  NoResult = NoResult

SPECIFICATION Spec

INVARIANT ZeroWidthOutputIsIdentity

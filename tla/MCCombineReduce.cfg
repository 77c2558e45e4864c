\* Up to three outputs of widths 1..3, up to two chunk reductions, one-byte
\* elements for the fixed-width overload, partials on host or device.
CONSTANTS
  MaxOutputs = 3
  Widths = {1, 2, 3}
  MaxReduction = 2
  ElementBytes = 1
  Garbage = Garbage
  Fault = Fault
  NoResult = NoResult

SPECIFICATION Spec

INVARIANT TypeOK
INVARIANT CombineMatchesReference

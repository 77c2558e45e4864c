\* Tables of 32 and 33 generators (two and three windows) and chunks at
\* every window-aligned offset that fits them.  Generator counts on both sides of each 16-generator window boundary,
\* one and two scalar bytes per generator, and bytes that set bit 0 only,
\* bit 7 only, and a mix of bits.
CONSTANTS
  TableGenCounts = {32, 33}
  GenCounts = {1, 15, 16, 17, 33}
  ProductCounts = {8, 16}
  ByteValues = {1, 128, 165}
  Garbage = Garbage
  NoResult = NoResult
  NoCopy = NoCopy

SPECIFICATION Spec

INVARIANT TypeOK
INVARIANT KernelMatchesReference
INVARIANT TableSliceInBounds

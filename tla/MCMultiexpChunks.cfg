\* Up to three chunks of two partial products each: enough for every order
\* in which three tasks can finish and for chunks with no, some or all
\* products of nonzero length.
CONSTANTS
  MaxChunks = 3
  NumProducts = 2
  Identity = Identity
  Garbage = Garbage
  NoSlot = NoSlot

SPECIFICATION Spec

INVARIANT TypeOK
INVARIANT CombineInputComplete

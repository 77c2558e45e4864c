\* Up to three chunks: every order in which three tasks, their two copies
\* each and their reductions can interleave, with and without copies.
CONSTANTS
  MaxChunks = 3
SPECIFICATION Spec
INVARIANT TypeOK
INVARIANT SumsEveryChunkOnce

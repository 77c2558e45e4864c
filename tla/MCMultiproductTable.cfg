\* Two threads and 8-bit digits (buckets 1..255); two outputs of two-byte
\* scalars, so four blocks of which each may be the one checked; one to
\* five generators, so one to three items per thread, with and without
\* padding items, and every assignment of the digits 0, 1, 2 and 255 (the
\* last bucket) to the block's generators.
\* Indexes two bits wide for the code's sixteen: a length limit of 4 is the
\* largest under which no generator index wraps (the code's limit is
\* outside src; it must be at most 2^16), and n = 5 is refused by the
\* assert.
CONSTANTS
  NumThreads = 2
  BitWidth = 8
  NumOutputs = 2
  ElementNumBytes = 2
  DigitValues = {0, 1, 2, 255}
  Filler = 1
  Ns = {1, 2, 3, 4, 5}
  MaxLength = 4
  IndexBits = 2
  Unwritten = Unwritten
SPECIFICATION Spec
INVARIANT TypeOK
INVARIANT TableMatchesDigits

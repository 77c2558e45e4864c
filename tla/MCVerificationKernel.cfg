\* round_first 1..6 and one to four challenges: num_rounds up to 9, given
\* prefixes of 1 to 32 entries and g_exponents of up to 512 entries.
CONSTANTS
  RoundFirsts = {1, 2, 3, 4, 5, 6}
  XLens = {1, 2, 3, 4}
  Garbage = Garbage
  Unwritten = Unwritten
SPECIFICATION Spec
INVARIANT TypeOK
INVARIANT ExponentsMatchReference

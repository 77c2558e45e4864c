\* Two-bit limbs (R = 256).  47 / 256 is near the bn254 ratio p / R = 0.19;
\* 127 is the largest odd modulus below R / 2, where the result before
\* subtract_p still fits four limbs.  419 / 4096 is near the BLS12-381 ratio
\* 0.10 for the six-limb subtract_p, and 2047 the largest below R / 2 there.
\* y^2 = x^3 + 4 over GF(11) has 11 finite points, among them (0, 2) and
\* (0, 9), so x = 0 occurs on the curve as well as in the identity.
CONSTANTS
  LimbBits = 2
  Moduli = {47, 127}
  Moduli12 = {419, 2047}
  FieldPrime = 11
  CurveB = 4
  EdwardsD = 2
  ScalarModulus = 3
  MaxVectorLength = 3
  None = None

SPECIFICATION Spec

INVARIANT ReduceMatchesReference
INVARIANT SubtractPMatchesReference
INVARIANT BelowModulusMatches
INVARIANT ConversionsPreservePoint
INVARIANT NegationMatchesGroup
INVARIANT Curve21FormsAgree
INVARIANT InnerProductMatchesReference

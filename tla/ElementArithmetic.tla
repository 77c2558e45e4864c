----------------------------- MODULE ElementArithmetic -----------------------------
(***************************************************************************)
(* Montgomery reduction of the bn254 base field (src/sxt/field25/base/    *)
(* reduce.cc), the conditional subtraction of the modulus it ends with    *)
(* (src/sxt/field12/base/subtract_p.h has the six-limb form; the          *)
(* four-limb field25 one it calls has the same body) and                  *)
(* is_below_modulus.                                                       *)
(*                                                                         *)
(* The limbs are LimbBits wide instead of 64, so that every input can be  *)
(* enumerated; the moduli keep the code's shape (odd, with p / R near the *)
(* bn254 ratio 0.19, up to just below R / 2, where R = 2^(4 * LimbBits)).  *)
(* mac, adc and sbb (basfld, not under src) keep their double-width       *)
(* semantics at that width, and inv_v is -p^-1 mod 2^LimbBits.            *)
(*                                                                         *)
(* reduce is called on the double-width product t = a * b of two reduced  *)
(* elements; one action runs the whole call, subtract_p included.         *)
(*                                                                         *)
(* The conversions between projective and affine points of curve_g1       *)
(* (src/sxt/curve_g1/type/conversion_utility.h) run over the curve        *)
(* y^2 = x^3 + CurveB on the prime field of FieldPrime elements: the      *)
(* field12 operations invert, mul and cmov, and element_affine::identity, *)
(* are not under src and are taken at their documented meaning.  neg and  *)
(* cneg of curve_gk (src/sxt/curve_gk/operation/neg.cc) run on the same   *)
(* points: they do not depend on b.  The curve21 compact conversion and   *)
(* operator== (src/sxt/curve21/type/element_p3.cc) run on the extended    *)
(* points of the twisted Edwards curve -x^2 + y^2 = 1 + EdwardsD x^2 y^2  *)
(* over the same field.  The sequential scalar25 inner_product            *)
(* (src/sxt/scalar25/operation/inner_product.cc) runs modulo              *)
(* ScalarModulus on vectors of up to MaxVectorLength elements.             *)
(***************************************************************************)
EXTENDS Naturals, Sequences, Bitwise, Functions

CONSTANTS
  LimbBits,   \* the width of a limb (64 in the code)
  Moduli,     \* the moduli p tried, as numbers of four limbs
  Moduli12,   \* the moduli tried for the six-limb subtract_p of field12
  FieldPrime, \* the field of the curve points (the BLS12-381 base field)
  CurveB,     \* the curve constant b of y^2 = x^3 + b (4 for BLS12-381)
  EdwardsD,   \* the constant d of the curve21 points
  ScalarModulus,   \* the order of the scalar25 field
  MaxVectorLength, \* bound on the lengths of the inner product's vectors
  None        \* the call has not returned

Base == 2^LimbBits
Limb == 0 .. Base - 1

(* The little-endian limbs of x, and the number limbs l stand for.        *)
Limbs(x, k) == [i \in 0 .. k - 1 |-> (x \div Base^i) % Base]
RECURSIVE ValueFrom(_, _)
ValueFrom(l, i) == IF i \notin DOMAIN l THEN 0 ELSE l[i] + Base * ValueFrom(l, i + 1)
Value(l) == ValueFrom(l, 0)

(* basfld::mac(ret, carry, a, b, c): a + b * c + carry as two limbs.      *)
Mac(a, b, c, carry) ==
  LET s == a + b * c + carry IN <<s % Base, s \div Base>>

(* basfld::adc(ret, carry, a, b, carry): a + b + carry as two limbs.      *)
Adc(a, b, carry) ==
  LET s == a + b + carry IN <<s % Base, s \div Base>>

(* basfld::sbb(ret, borrow, a, b): a - b - (borrow >> 63); the new borrow *)
(* is the high limb of the double-width difference, 0 or all ones.        *)
Sbb(a, b, borrow) ==
  LET s == a - b - borrow \div 2^(LimbBits - 1)
  IN <<s % Base, IF s < 0 THEN Base - 1 ELSE 0>>

(* inv_v: -p^-1 mod 2^64, at the limb width.                              *)
Inv(q) == CHOOSE k \in Limb : (q * k) % Base = Base - 1

VARIABLES
  op,    \* the function called
  p,     \* the modulus p_v
  input,    \* its input: the eight limbs of t, or the limbs of a
  out    \* what it returned or wrote, or None

vars == <<op, p, input, out>>
-----------------------------------------------------------------------------
(* A mutant of SubtractP: the selection keeps a - p on underflow and a    *)
(* when it did not underflow.                                              *)
SubtractPSwapped(a, q) ==
  LET k == DOMAIN a
      RECURSIVE Chain(_, _, _)
      Chain(i, r, borrow) ==
        IF i \notin k THEN <<r, borrow>>
        ELSE LET s == Sbb(a[i], q[i], borrow) IN Chain(i + 1, [r EXCEPT ![i] = s[1]], s[2])
      diff == Chain(0, [i \in k |-> 0], 0)
      borrow == diff[2]
      mask == IF borrow = 0 THEN Base - 1 ELSE 0
  IN [i \in k |-> (diff[1][i] & borrow) | (a[i] & mask)]

(* subtract_p(ret, a): ret = a - p limb by limb with the borrow; the      *)
(* final borrow (all ones on underflow) and mask = borrow - 1 when it is  *)
(* zero select a or a - p limb by limb.                                   *)
SubtractP(a, q) ==
  LET k == DOMAIN a
      RECURSIVE Chain(_, _, _)
      Chain(i, r, borrow) ==
        IF i \notin k THEN <<r, borrow>>
        ELSE LET s == Sbb(a[i], q[i], borrow) IN Chain(i + 1, [r EXCEPT ![i] = s[1]], s[2])
      diff == Chain(0, [i \in k |-> 0], 0)
      borrow == diff[2]
      mask == IF borrow = 0 THEN Base - 1 ELSE 0
  IN [i \in k |-> (a[i] & borrow) | (diff[1][i] & mask)]

(* A mutant of Round: k taken from the input limb t[i], as in the first  *)
(* block, instead of the running ret[i].                                   *)
RoundKFromInput(ret, i, q, wide) ==
  LET k == (wide[i] * Inv(Value(q))) % Base
      RECURSIVE MacChain(_, _, _)
      MacChain(j, r, carry) ==
        IF j = 4 THEN <<r, carry>>
        ELSE LET m == Mac(r[i + j], k, q[j], carry)
             IN MacChain(j + 1, [r EXCEPT ![i + j] = m[1]], m[2])
      macs == MacChain(0, ret, 0)
      last == Adc(wide[i + 4], macs[1][i + 4], macs[2])
  IN IF i + 5 <= 7
       THEN [macs[1] EXCEPT ![i + 4] = last[1], ![i + 5] = last[2]]
       ELSE [macs[1] EXCEPT ![i + 4] = last[1]]

(* Block i of reduce: k = ret[i] * inv_v; ret[i + j] = mac(ret[i + j], k, *)
(* p_v[j]) with the carry for j = 0 .. 3 (the block-0 limbs are t[0..3], *)
(* the low one goes to tmp); then adc(ret[i + 4], ret[i + 5], t[i + 4],   *)
(* ret[i + 4], carry), with 0 for ret[4] in block 0.  The last block's    *)
(* carry goes to tmp and is dropped.                                      *)
Round(ret, i, q, wide) ==
  LET k == (ret[i] * Inv(Value(q))) % Base
      RECURSIVE MacChain(_, _, _)
      MacChain(j, r, carry) ==
        IF j = 4 THEN <<r, carry>>
        ELSE LET m == Mac(r[i + j], k, q[j], carry)
             IN MacChain(j + 1, [r EXCEPT ![i + j] = m[1]], m[2])
      macs == MacChain(0, ret, 0)
      last == Adc(wide[i + 4], macs[1][i + 4], macs[2])
  IN IF i + 5 <= 7
       THEN [macs[1] EXCEPT ![i + 4] = last[1], ![i + 5] = last[2]]
       ELSE [macs[1] EXCEPT ![i + 4] = last[1]]

(* reduce(h, t): the four blocks in order, then subtract_p of ret[4..7].  *)
Reduce(wide, q) ==
  LET start == [i \in 0 .. 7 |-> IF i < 4 THEN wide[i] ELSE 0]
      r0 == Round(start, 0, q, wide)
      r1 == Round(r0, 1, q, wide)
      r2 == Round(r1, 2, q, wide)
      r3 == Round(r2, 3, q, wide)
  IN SubtractP([j \in 0 .. 3 |-> r3[j + 4]], q)

(* A mutant of IsBelowModulus: the borrow of the top limb is not taken.   *)
IsBelowModulusThreeLimbs(a, q) ==
  LET s0 == Sbb(a[0], q[0], 0)
      s1 == Sbb(a[1], q[1], s0[2])
      s2 == Sbb(a[2], q[2], s1[2])
  IN s2[2] % 2 = 1

(* is_below_modulus(h): subtract p limb by limb; the low bit of the final *)
(* borrow says whether the subtraction underflowed.                       *)
IsBelowModulus(a, q) ==
  LET s0 == Sbb(a[0], q[0], 0)
      s1 == Sbb(a[1], q[1], s0[2])
      s2 == Sbb(a[2], q[2], s1[2])
      s3 == Sbb(a[3], q[3], s2[2])
  IN s3[2] % 2 = 1
-----------------------------------------------------------------------------
(* The field of the points, with the field12 operations mul and invert.   *)
(* invert reports whether its argument is zero; what it leaves in its     *)
(* output then is not defined here, and is a parameter.                    *)
Fq == 0 .. FieldPrime - 1
FMul(a, b) == (a * b) % FieldPrime
FInvert(a) == CHOOSE x \in Fq : FMul(a, x) = 1

(* element_affine::identity(): the point at infinity, with x = 0, y = 1.  *)
AffineIdentity == [X |-> 0, Y |-> 1, infinity |-> TRUE]

(* Mutant: the cmov of infinity left out, so the identity converts to a *)
(* finite point.                                                           *)
ToElementAffineInfinityKept(P, zinv0) ==
  LET isZero == P.Z = 0
      zinv   == IF isZero THEN 0 ELSE FInvert(P.Z)
  IN [X        |-> IF isZero THEN AffineIdentity.X ELSE FMul(P.X, zinv),
      Y        |-> IF isZero THEN AffineIdentity.Y ELSE FMul(P.Y, zinv),
      infinity |-> FALSE]

(* to_element_affine(a, p): multiply X and Y by Z^-1, then replace all    *)
(* three fields by the identity's when Z is zero; zinv0 is what invert   *)
(* leaves in z_inv for Z = 0, overwritten by the first cmov.               *)
ToElementAffine(P, zinv0) ==
  LET isZero == P.Z = 0
      zinv1  == IF isZero THEN zinv0 ELSE FInvert(P.Z)
      zinv   == IF isZero THEN 0 ELSE zinv1
      a      == [X |-> FMul(P.X, zinv), Y |-> FMul(P.Y, zinv), infinity |-> FALSE]
  IN [X        |-> IF isZero THEN AffineIdentity.X ELSE a.X,
      Y        |-> IF isZero THEN AffineIdentity.Y ELSE a.Y,
      infinity |-> IF isZero THEN AffineIdentity.infinity ELSE a.infinity]

(* to_element_p2(p, a): Z = 1, moved to zero for the point at infinity.   *)
ToElementP2(a) ==
  [X |-> a.X, Y |-> a.Y, Z |-> IF a.infinity THEN 0 ELSE 1]

(* The affine points of the curve, and all projective representatives of *)
(* each point (lambda * (x, y, 1)) and of the identity (0, lambda, 0).    *)
OnCurve(x, y) == FMul(y, y) = (FMul(FMul(x, x), x) + CurveB) % FieldPrime
CurvePoints == { pt \in Fq \X Fq : OnCurve(pt[1], pt[2]) }
Scalars == 1 .. FieldPrime - 1
ProjectivePoints ==
  { [X |-> FMul(l, pt[1]), Y |-> FMul(l, pt[2]), Z |-> l] : pt \in CurvePoints, l \in Scalars }
    \cup { [X |-> 0, Y |-> l, Z |-> 0] : l \in Scalars }
AffinePoints ==
  { [X |-> pt[1], Y |-> pt[2], infinity |-> FALSE] : pt \in CurvePoints }
    \cup { AffineIdentity }

(* fgko::neg and fgko::cmov (not under src): -a mod q, and a move of t   *)
(* into r when b is 1.                                                     *)
FNeg(a) == (FieldPrime - a) % FieldPrime
FCmov(r, t, b) == IF b = 1 THEN t ELSE r

(* Mutant: neg negating X instead of Y.                                   *)
NegOfX(P) == [X |-> FNeg(P.X), Y |-> P.Y, Z |-> P.Z]

(* cgko::neg(r, p): X and Z copied, Y negated.                            *)
Neg(P) == [X |-> P.X, Y |-> FNeg(P.Y), Z |-> P.Z]

(* cgko::cneg(r, b): r.Y replaced by its negation when b is 1.            *)
CNeg(P, b) == [P EXCEPT !.Y = FCmov(P.Y, FNeg(P.Y), b)]

(* The extended points (X : Y : Z : T) of the curve21 curve, with T = XY/Z, *)
(* every nonzero multiple of each affine point.                            *)
OnEdwards(x, y) ==
  (FieldPrime - FMul(x, x) + FMul(y, y)) % FieldPrime
    = (1 + FMul(EdwardsD, FMul(FMul(x, x), FMul(y, y)))) % FieldPrime
EdwardsPoints == { pt \in Fq \X Fq : OnEdwards(pt[1], pt[2]) }
ExtendedPoints ==
  { [X |-> FMul(l, pt[1]), Y |-> FMul(l, pt[2]), Z |-> l, T |-> FMul(l, FMul(pt[1], pt[2]))]
    : pt \in EdwardsPoints, l \in Scalars }

(* element_p3's conversion to compact_element: X and Y divided by Z, and  *)
(* T = X * Y of the results.                                               *)
C21Compact(P) ==
  LET zInv == FInvert(P.Z)
      x == FMul(P.X, zInv)
      y == FMul(P.Y, zInv)
  IN [X |-> x, Y |-> y, T |-> FMul(x, y)]

(* Mutant: operator== comparing the X cross products only.                 *)
C21EqualXOnly(lhs, rhs) == FMul(lhs.X, rhs.Z) = FMul(rhs.X, lhs.Z)

(* c21t::operator==: X and then Y cross-multiplied by the other Z.        *)
C21Equal(lhs, rhs) ==
  /\ FMul(lhs.X, rhs.Z) = FMul(rhs.X, lhs.Z)
  /\ FMul(lhs.Y, rhs.Z) = FMul(rhs.Y, lhs.Z)

(* s25o::mul and s25o::muladd (not under src): a * b and a * b + c modulo *)
(* the scalar field order.                                                 *)
ScalarMul(a, b) == (a * b) % ScalarModulus
ScalarMulAdd(a, b, c) == (a * b + c) % ScalarModulus

(* The vectors the inner product is called on: nonempty (the debug assert *)
(* n > 0), of reduced scalars.                                             *)
Vectors == UNION { [1 .. k -> 0 .. ScalarModulus - 1] : k \in 1 .. MaxVectorLength }

(* Mutant: the loop starting at 0, so the first product is added twice.    *)
InnerProductFromZero(lhs, rhs) ==
  LET n == IF Len(lhs) < Len(rhs) THEN Len(lhs) ELSE Len(rhs)
      RECURSIVE Loop(_, _)
      Loop(res, i) == IF i > n THEN res ELSE Loop(ScalarMulAdd(lhs[i], rhs[i], res), i + 1)
  IN Loop(ScalarMul(lhs[1], rhs[1]), 1)

(* s25o::inner_product: n = min of the sizes, res = lhs[0] * rhs[0], then *)
(* res = lhs[i] * rhs[i] + res for i = 1 .. n - 1 (indexes one higher    *)
(* here).                                                                  *)
InnerProduct(lhs, rhs) ==
  LET n == IF Len(lhs) < Len(rhs) THEN Len(lhs) ELSE Len(rhs)
      RECURSIVE Loop(_, _)
      Loop(res, i) == IF i > n THEN res ELSE Loop(ScalarMulAdd(lhs[i], rhs[i], res), i + 1)
  IN Loop(ScalarMul(lhs[1], rhs[1]), 2)
-----------------------------------------------------------------------------
(* reduce is called on the product t = a * b of two reduced elements   *)
(* (below p); is_below_modulus on any four limbs; the six-limb subtract_p *)
(* on a value below 2p, as reduce and add leave it.                        *)
Init ==
  /\ out = None
  /\ \/ /\ op = "reduce"
        /\ p \in Moduli
        /\ input \in { Limbs(a * b, 8) : a, b \in 0 .. p - 1 }
     \/ /\ op = "is_below_modulus"
        /\ p \in Moduli
        /\ input \in { Limbs(x, 4) : x \in 0 .. Base^4 - 1 }
     \/ /\ op = "subtract_p"
        /\ p \in Moduli12
        /\ input \in { Limbs(a, 6) : a \in 0 .. 2 * p - 1 }
     \/ /\ op = "to_element_affine"
        /\ p = FieldPrime
        /\ input \in ProjectivePoints
     \/ /\ op = "to_element_p2"
        /\ p = FieldPrime
        /\ input \in AffinePoints
     \/ /\ op = "neg"
        /\ p = FieldPrime
        /\ input \in ProjectivePoints
     \/ /\ op = "cneg"
        /\ p = FieldPrime
        /\ input \in [P : ProjectivePoints, b : {0, 1}]
     \/ /\ op = "c21_compact"
        /\ p = FieldPrime
        /\ input \in ExtendedPoints
     \/ /\ op = "c21_equal"
        /\ p = FieldPrime
        /\ input \in [lhs : ExtendedPoints, rhs : ExtendedPoints]
     \/ /\ op = "inner_product"
        /\ p = ScalarModulus
        /\ input \in [lhs : Vectors, rhs : Vectors]

(* The call reduce(h, t).                                                  *)
ReduceCall ==
  /\ op = "reduce" /\ out = None
  /\ out' = Reduce(input, Limbs(p, 4))
  /\ UNCHANGED <<op, p, input>>

(* The call is_below_modulus(h).                                           *)
IsBelowModulusCall ==
  /\ op = "is_below_modulus" /\ out = None
  /\ out' = IsBelowModulus(input, Limbs(p, 4))
  /\ UNCHANGED <<op, p, input>>

(* The call subtract_p(ret, a) of field12.                                 *)
SubtractPCall ==
  /\ op = "subtract_p" /\ out = None
  /\ out' = SubtractP(input, Limbs(p, 6))
  /\ UNCHANGED <<op, p, input>>

(* The call to_element_affine(a, p), over every value invert may leave  *)
(* in z_inv for Z = 0.                                                     *)
ToElementAffineCall ==
  /\ op = "to_element_affine" /\ out = None
  /\ \E zinv0 \in Fq : out' = ToElementAffine(input, zinv0)
  /\ UNCHANGED <<op, p, input>>

(* The call to_element_p2(p, a).                                           *)
ToElementP2Call ==
  /\ op = "to_element_p2" /\ out = None
  /\ out' = ToElementP2(input)
  /\ UNCHANGED <<op, p, input>>

(* The call neg(r, p) of curve_gk.                                        *)
NegCall ==
  /\ op = "neg" /\ out = None
  /\ out' = Neg(input)
  /\ UNCHANGED <<op, p, input>>

(* The call cneg(r, b) of curve_gk, in place on r.                         *)
CNegCall ==
  /\ op = "cneg" /\ out = None
  /\ out' = CNeg(input.P, input.b)
  /\ UNCHANGED <<op, p, input>>

(* The conversion of a curve21 element_p3 to compact_element.              *)
C21CompactCall ==
  /\ op = "c21_compact" /\ out = None
  /\ out' = C21Compact(input)
  /\ UNCHANGED <<op, p, input>>

(* The comparison lhs == rhs of two curve21 element_p3.                    *)
C21EqualCall ==
  /\ op = "c21_equal" /\ out = None
  /\ out' = C21Equal(input.lhs, input.rhs)
  /\ UNCHANGED <<op, p, input>>

(* The call inner_product(res, lhs, rhs) of scalar25.                      *)
InnerProductCall ==
  /\ op = "inner_product" /\ out = None
  /\ out' = InnerProduct(input.lhs, input.rhs)
  /\ UNCHANGED <<op, p, input>>

Terminating ==
  /\ out # None
  /\ UNCHANGED vars

Next ==
  \/ ReduceCall \/ IsBelowModulusCall \/ SubtractPCall
  \/ ToElementAffineCall \/ ToElementP2Call \/ NegCall \/ CNegCall
  \/ C21CompactCall \/ C21EqualCall \/ InnerProductCall
  \/ Terminating

Spec == Init /\ [][Next]_vars
-----------------------------------------------------------------------------
R == Base^4

(* R^-1 mod q, from the definition.                                        *)
RInverse(q) == CHOOSE x \in 0 .. q - 1 : (x * R) % q = 1

(* reduce returns the Montgomery reduction t * R^-1 mod p, fully reduced  *)
(* below p: the four blocks clear the low limbs, the carry the last adc   *)
(* drops into tmp is always zero, and one conditional subtraction brings  *)
(* the result (below 2p) under p.                                          *)
ReduceMatchesReference ==
  op = "reduce" /\ out # None => Value(out) = (Value(input) * RInverse(p)) % p

(* The six-limb subtract_p of field12 maps every a below 2p to a mod p:   *)
(* the borrow of the top limb alone selects between a and a - p.          *)
SubtractPMatchesReference ==
  op = "subtract_p" /\ out # None => Value(out) = Value(input) % p

(* is_below_modulus holds exactly of the four-limb values below p, the    *)
(* borrow carried through every limb.                                     *)
BelowModulusMatches ==
  op = "is_below_modulus" /\ out # None => (out <=> Value(input) < p)

(* The affine form of a projective point, from the definition: the      *)
(* identity for Z = 0, else the curve point (x, y) with x * Z = X and     *)
(* y * Z = Y.                                                              *)
AffineOf(P) ==
  IF P.Z = 0 THEN AffineIdentity
  ELSE CHOOSE a \in AffinePoints :
         ~a.infinity /\ FMul(a.X, P.Z) = P.X /\ FMul(a.Y, P.Z) = P.Y

(* to_element_affine maps every representative of a point, those of the  *)
(* identity (Z = 0) among them, to that point's affine form, whatever    *)
(* invert leaves in z_inv for Z = 0; to_element_p2 maps each affine form *)
(* to a representative of the same point.  The Z = 0 case rests on the   *)
(* cmovs after the multiplications, and on the one into Z.                 *)
ConversionsPreservePoint ==
  /\ op = "to_element_affine" /\ out # None => out = AffineOf(input)
  /\ op = "to_element_p2" /\ out # None =>
       out \in ProjectivePoints /\ AffineOf(out) = input

(* The affine negation of a point, from the definition: the identity is  *)
(* its own negation, and (x, y) has negation (x, y') with y + y' = 0.     *)
NegOf(a) ==
  CHOOSE b \in AffinePoints :
    /\ b.infinity = a.infinity /\ b.X = a.X
    /\ a.infinity \/ (a.Y + b.Y) % FieldPrime = 0

(* neg maps every representative of a point, the identity's included, to *)
(* a representative of its negation, and cneg does so exactly when b is  *)
(* 1 and leaves the point otherwise: only Y may change, and the points   *)
(* with x = 0 are where negating the wrong coordinate goes unseen.       *)
NegationMatchesGroup ==
  /\ op = "neg" /\ out # None =>
       out \in ProjectivePoints /\ AffineOf(out) = NegOf(AffineOf(input))
  /\ op = "cneg" /\ out # None =>
       /\ out \in ProjectivePoints
       /\ AffineOf(out) = IF input.b = 1 THEN NegOf(AffineOf(input.P)) ELSE AffineOf(input.P)

(* Two extended points are equal exactly when one is a nonzero multiple  *)
(* of the other.                                                           *)
SameExtended(P, Q) ==
  \E l \in Scalars : FMul(l, Q.X) = P.X /\ FMul(l, Q.Y) = P.Y /\ FMul(l, Q.Z) = P.Z

(* On curve21, operator== holds exactly of two representatives of the    *)
(* same point (the X comparison alone confuses a point with its mirror   *)
(* image in the x axis), and the compact form of every representative is *)
(* the affine point with T = x * y.                                        *)
Curve21FormsAgree ==
  /\ op = "c21_equal" /\ out # None => (out <=> SameExtended(input.lhs, input.rhs))
  /\ op = "c21_compact" /\ out # None =>
       /\ <<out.X, out.Y>> \in EdwardsPoints
       /\ SameExtended(input, [X |-> out.X, Y |-> out.Y, Z |-> 1])
       /\ out.T = FMul(out.X, out.Y)

(* The sequential inner_product is the sum of lhs[i] * rhs[i] over the   *)
(* indexes both vectors have, whichever of them is the shorter.           *)
InnerProductMatchesReference ==
  op = "inner_product" /\ out # None =>
    LET n == IF Len(input.lhs) < Len(input.rhs) THEN Len(input.lhs) ELSE Len(input.rhs)
    IN out = SumFunction([i \in 1 .. n |-> input.lhs[i] * input.rhs[i]]) % ScalarModulus
=============================================================================

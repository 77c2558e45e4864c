-------------------------- MODULE VerificationKernel --------------------------
(***************************************************************************)
(* async_compute_g_exponents_partial of the inner-product proof            *)
(* (src/sxt/proof/inner_product/verification_kernel.cc).                  *)
(*                                                                         *)
(* The first a = 2^(round_first - 1) entries of g_exponents are given;    *)
(* each pass of the loop takes the next multiplier from the back of       *)
(* x_sq_vector and writes g[a + i] = multiplier * g[i] for i < a, then    *)
(* doubles a, until a = np = 2^num_rounds.  A scalar is abstracted to     *)
(* the given entry it started from and the bag of x_sq indices it was     *)
(* multiplied by, so a result names exactly the factors it holds.  A      *)
(* multiplier read before the start of x_sq_vector is Garbage.            *)
(***************************************************************************)
EXTENDS Naturals, Bags

CONSTANTS
  RoundFirsts,  \* the round_first values tried (at least 1)
  XLens,        \* the x_sq_vector sizes tried (at least 1)
  Garbage,      \* a multiplier read before the start of x_sq_vector
  Unwritten     \* an entry of g_exponents the loop has not written

VARIABLES
  r0,     \* round_first - 1
  xlen,   \* x_sq_vector.size()
  a,      \* a
  iter,   \* multiplier_iter, as the index one past the next multiplier
  g,      \* g_exponents, indexed from 0
  done    \* the coroutine has returned

vars == <<r0, xlen, a, iter, g, done>>

(* The loop's unsigned arithmetic wraps modulo 2^32.  TLC's integers end  *)
(* at 2^31 - 1; np is at most 2^9 here, so wrapping modulo 2^30 takes    *)
(* every comparison the same way.                                          *)
UIntModulus == 2^30

(* np = 1ull << num_rounds.                                               *)
NumRounds == r0 + xlen
Np == 2^NumRounds

(* The entries given on entry: entry i is given value i, no factor.      *)
Given(n, k) == [i \in 0 .. n - 1 |-> IF i < k THEN [base |-> i, xs |-> EmptyBag] ELSE Unwritten]

Init ==
  /\ r0 \in {r - 1 : r \in RoundFirsts}
  /\ xlen \in XLens
  /\ a = 2^r0
  /\ iter = xlen + 1
  /\ g = Given(2^(r0 + xlen), 2^r0)
  /\ done = FALSE

(* s25o::mul(val, multiplier, val).                                       *)
Mul(m, v) ==
  IF m = Garbage \/ v = Garbage \/ v = Unwritten THEN Garbage
  ELSE [v EXCEPT !.xs = @ (+) SetToBag({m})]

(* A mutant of Iterate: a is not doubled.                                 *)
IterateNoDouble ==
  /\ ~done /\ a # Np
  /\ LET m == IF iter - 1 >= 1 THEN iter - 1 ELSE Garbage IN
     /\ g' = [j \in DOMAIN g |-> IF a <= j /\ j < 2 * a THEN Mul(m, g[j - a]) ELSE g[j]]
     /\ iter' = iter - 1
  /\ UNCHANGED <<r0, xlen, a, done>>

(* A mutant of Iterate: the multipliers taken from the front.             *)
IterateFromFront ==
  /\ ~done /\ a # Np
  /\ LET m == xlen + 2 - iter IN
     /\ g' = [j \in DOMAIN g |-> IF a <= j /\ j < 2 * a THEN Mul(m, g[j - a]) ELSE g[j]]
     /\ iter' = iter - 1
  /\ a' = (2 * a) % UIntModulus
  /\ UNCHANGED <<r0, xlen, done>>

(* One pass of while (a != np): --multiplier_iter, then                   *)
(* co_await algi::transform of g[a, 2a) from g[0, a), then a *= 2u.       *)
Iterate ==
  /\ ~done /\ a # Np
  /\ LET m == IF iter - 1 >= 1 THEN iter - 1 ELSE Garbage IN
     /\ g' = [j \in DOMAIN g |-> IF a <= j /\ j < 2 * a THEN Mul(m, g[j - a]) ELSE g[j]]
     /\ iter' = iter - 1
  /\ a' = (2 * a) % UIntModulus
  /\ UNCHANGED <<r0, xlen, done>>

(* The loop exits and the coroutine returns.                              *)
Return ==
  /\ ~done /\ a = Np
  /\ done' = TRUE
  /\ UNCHANGED <<r0, xlen, a, iter, g>>

Terminating ==
  /\ done
  /\ UNCHANGED vars

Next == Iterate \/ Return \/ Terminating

Spec == Init /\ [][Next]_vars
-----------------------------------------------------------------------------
(* Bit k of i.                                                             *)
Bit(i, k) == (i \div 2^k) % 2 = 1

(* The reference: entry i is given entry i mod 2^r0 times x_sq[xlen - j] *)
(* for every bit r0 + j of i that is set.                                 *)
Reference(i) ==
  [base |-> i % 2^r0,
   xs   |-> SetToBag({xlen - j : j \in {j \in 0 .. xlen - 1 : Bit(i, r0 + j)}})]

(* Every variable has the shape the code gives it.                        *)
TypeOK ==
  /\ done \in BOOLEAN
  /\ a \in {2^k : k \in 0 .. NumRounds}
  /\ iter \in 1 .. xlen + 1

(* When the coroutine returns, every entry of g_exponents is its given    *)
(* entry times the squared challenges its index's bits select: the last   *)
(* x_sq for the lowest new bit, the first for the highest, each once.     *)
ExponentsMatchReference ==
  done => \A i \in DOMAIN g : g[i] = Reference(i)
=============================================================================

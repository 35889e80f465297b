------------------------------ MODULE Ieee754 --------------------------------
(***************************************************************************)
(* The floating point addition that simulator/probe.c does with integers,  *)
(* as eBPF has no other, for any widths of exponent and mantissa: 11 and   *)
(* 52 there, in registers of 64 bits.  A number is its bit pattern.        *)
(***************************************************************************)
EXTENDS Integers

CONSTANTS
  EXP_BITS,   \* 11
  MANT_BITS   \* 52

ASSUME BitsAssumption == EXP_BITS \in Nat \ {0} /\ MANT_BITS \in Nat \ {0}

WIDTH == 1 + EXP_BITS + MANT_BITS

\* The registers are 64 bits wide, which is a power of two.
ASSUME RegisterAssumption == \E k \in 1 .. WIDTH : WIDTH = 2^k

Shl(n, k) == (n * 2^k) % 2^WIDTH
Shr(n, k) == n \div 2^k

EXP_MASK == 2^EXP_BITS - 1
HIDDEN == 2^MANT_BITS
SIGN_BIT == 2^(EXP_BITS + MANT_BITS)

\* The exponents reach further than the bits of a mantissa: 2047 and 54.
ASSUME RangeAssumption == MANT_BITS + 2 <= EXP_MASK

Numbers == 0 .. 2 * SIGN_BIT - 1
Capped(delta) == IF delta > WIDTH - 1 THEN WIDTH - 1 ELSE delta

----------------------------------------------------------------------------
\* The widths that are tested in turn halve: 32, 16, 8, 4, 2, 1 for 64.
HALVINGS == CHOOSE k \in 1 .. WIDTH : WIDTH = 2^k

\* If the upper half is empty its width is counted and the lower one moves up.
Halve(acc, half) ==
  IF Shr(acc.n, WIDTH - half) = 0
  THEN [n |-> Shl(acc.n, half), count |-> acc.count + half]
  ELSE acc

Halved(n) ==
  LET after[i \in 0 .. HALVINGS] == IF i = 0 THEN [n |-> n, count |-> 0]
                                    ELSE Halve(after[i - 1], WIDTH \div 2^i)
  IN after

count_leading_left_zeroes(n) == IF n = 0 THEN WIDTH ELSE Halved(n)[HALVINGS].count
----------------------------------------------------------------------------
sign(a) == Shr(a, EXP_BITS + MANT_BITS)
exponent(a) == Shr(a, MANT_BITS) % 2^EXP_BITS
fraction(a) == a % HIDDEN
\* A plausible slip: a hidden bit that zero has as well.
mantissaAlways(a) == fraction(a) + HIDDEN
mantissa(a) == fraction(a) + (IF exponent(a) # 0 THEN HIDDEN ELSE 0)

\* A plausible slip: the exponents alone decide.
LargerByExponent(a, b) == exponent(a) > exponent(b)
Larger(a, b) == \/ exponent(a) > exponent(b)
                \/ exponent(a) = exponent(b) /\ mantissa(a) > mantissa(b)

\* A plausible slip: an alignment that is a place too far.
AlignedFurther(l, s) == Shr(mantissa(s), Capped(exponent(l) - exponent(s) + 1))

\* The mantissa of the smaller number, aligned: the bits shifted out are lost.
Aligned(l, s) == Shr(mantissa(s), Capped(exponent(l) - exponent(s)))

\* The sum or difference of the mantissas, with the exponent of the larger.
Combined(l, s) == IF sign(l) = sign(s) THEN mantissa(l) + Aligned(l, s)
                                       ELSE mantissa(l) - Aligned(l, s)

\* The most significant bit of m goes where the hidden bit is; an exponent
\* that does not fit makes the result 0.
Normalized(s, e, m) ==
  LET shift == (WIDTH - 1 - count_leading_left_zeroes(m)) - MANT_BITS
      e_res == e + shift
      m_res == IF shift > 0 THEN Shr(m, Capped(shift)) ELSE Shl(m, Capped(-shift))
  IN IF e_res > EXP_MASK - 1 \/ e_res < 0
     THEN 0
     ELSE s * SIGN_BIT + e_res * HIDDEN + (m_res % HIDDEN)

AddOrdered(l, s) == IF Combined(l, s) = 0 THEN 0
                    ELSE Normalized(sign(l), exponent(l), Combined(l, s))

ieee754_add(a, b) == IF Larger(a, b) THEN AddOrdered(a, b) ELSE AddOrdered(b, a)
----------------------------------------------------------------------------
(***************************************************************************)
(* What a number stands for, in units of the smallest positive one.        *)
(***************************************************************************)
IsFinite(a) == exponent(a) < EXP_MASK
IsNormal(a) == IsFinite(a) /\ exponent(a) # 0
Scale(a) == 2^(IF exponent(a) = 0 THEN 0 ELSE exponent(a) - 1)
Value(a) == (IF sign(a) = 1 THEN -1 ELSE 1) * mantissa(a) * Scale(a)
Magnitude(n) == IF n < 0 THEN -n ELSE n
Highest(a, b) == IF a > b THEN a ELSE b

SmallestNormal == HIDDEN
BeyondLargest == 2 * HIDDEN * 2^(EXP_MASK - 2)

(***************************************************************************)
(* What an addition promises, as its own bits and not a specification of   *)
(* IEEE 754 have it: sum is less than one unit of the last place, of the   *)
(* larger operand or of itself, from the exact sum; numbers below the      *)
(* smallest normal one count as nothing, and a sum that is too large is 0. *)
(***************************************************************************)
Lost(a, b, sum) == Highest(Scale(sum), Highest(Scale(a), Scale(b)))
Flushed(a) == IF IsNormal(a) THEN 0 ELSE mantissa(a)

IsSum(sum, a, b) ==
  LET exact == Value(a) + Value(b)
      off == Magnitude(Value(sum) - exact)
  IN \/ Magnitude(exact) >= BeyondLargest - Lost(a, b, sum) /\ sum = 0
     \/ /\ Magnitude(exact) < BeyondLargest
        /\ off < Lost(a, b, sum) + Flushed(a) + Flushed(b) + (IF IsNormal(sum) THEN 0 ELSE SmallestNormal)
============================================================================

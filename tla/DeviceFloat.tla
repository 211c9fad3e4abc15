---------------------------- MODULE DeviceFloat ----------------------------
(***************************************************************************)
(* binary64 arithmetic of the exact Markov kernel (f64.wgsl), on pairs of  *)
(* words: the conversion of a scaled integer, one product rounded to       *)
(* nearest even, one comparison.                                           *)
(*                                                                         *)
(* A number is the pair of words of its bit pattern.  The high word holds  *)
(* the sign (always 0), an exponent below EXPONENTS and the top of the     *)
(* mantissa, below TOP; the low word holds the rest of the mantissa.  In   *)
(* the program WORD = 2^32, TOP = 2^20 and EXPONENTS = 2^11: a mantissa of *)
(* 52 bits.                                                                *)
(***************************************************************************)
EXTENDS DeviceWord

CONSTANTS W,          \* the bits of a word, 32
          MH,         \* the bits of the mantissa in the high word, 20
          EXPONENTS,  \* 2^11
          BIAS        \* 1023

TOP == 2 ^ MH
MANTISSA == W + MH              \* 52
HIGH == 2 * EXPONENTS * TOP     \* the high word wraps here, 2^32

ASSUME LayoutAssumption ==
    /\ W \in Nat /\ MH \in Nat /\ EXPONENTS \in Nat \ {0} /\ BIAS \in Nat
    /\ WORD = 2 ^ W

\* The least nonzero sample is a normal number, and no product of numbers up to 1
\* has an exponent that is out of range at the top.
ASSUME BiasAssumption == MANTISSA + 2 <= BIAS /\ 2 * BIAS < EXPONENTS

\* What f64_mul asks of the layout: the shifts by 20 and 21 are shifts within
\* a word with room for a carry above the significand, and bit 105 of a product
\* of significands lies in its last limb.
ASSUME LimbAssumption ==
    /\ TOP \in Nat \ {0} /\ 2 * (TOP \div 2) = TOP /\ 2 * TOP < WORD
    /\ (2 * TOP) * (WORD \div (2 * TOP)) = WORD
    /\ WORD * ((2 * TOP * TOP) \div WORD) = 2 * TOP * TOP

\* The high word of a pattern, `u32(exponent) << 20u | top`.
HighWord(exponent, m_hi) == ((exponent * TOP) % HIGH) + (m_hi % TOP)

Zero == [hi |-> 0, lo |-> 0]
f64_is_zero(a) == a.hi % (EXPONENTS * TOP) = 0 /\ a.lo = 0
f64_lt(a, b) == IF a.hi # b.hi THEN a.hi < b.hi ELSE a.lo < b.lo

LeadingBit(x) == CHOOSE p \in 0 .. W - 1 : 2 ^ p <= x /\ x < 2 ^ (p + 1)
msb64(hi, lo) == IF hi # 0 THEN W + LeadingBit(hi) ELSE LeadingBit(lo)

\* The exact conversion of (v_hi * WORD + v_lo) * 2^e.
f64_from_scaled_int(v_hi, v_lo, e) ==
    IF v_hi = 0 /\ v_lo = 0 THEN Zero ELSE
    LET p == msb64(v_hi, v_lo)
        s == MANTISSA - p
        m == IF s >= W
             THEN [hi |-> Shl32(v_lo, 2 ^ (s - W)), lo |-> 0]
             ELSE IF s > 0
             THEN [hi |-> Shl32(v_hi, 2 ^ s) + v_lo \div 2 ^ (W - s),
                   lo |-> Shl32(v_lo, 2 ^ s)]
             ELSE [hi |-> v_hi, lo |-> v_lo]
    IN  [hi |-> HighWord(p + e + BIAS, m.hi), lo |-> m.lo]

-----------------------------------------------------------------------------
(* The product, in the steps of f64_mul.                                   *)

Exponent(a) == (a.hi \div TOP) % EXPONENTS

\* The high part of the significand, with its implicit leading one.
Significand(a) == (a.hi % TOP) + TOP

Carry(sum, addend) == IF sum < addend THEN 1 ELSE 0

\* The four limbs of a product, from the products of the words: columns
\* added with their carries.
Columns(ll, lh, hl, hh) ==
    LET s1 == Add32(ll.hi, lh.lo)
        p1 == Add32(s1, hl.lo)
        carry == Carry(s1, ll.hi) + Carry(p1, s1)
        s2 == Add32(lh.hi, hl.hi)
        s3 == Add32(s2, carry)
        p2 == Add32(s3, hh.lo)
        carry2 == Carry(s2, lh.hi) + Carry(s3, s2) + Carry(p2, s3)
    IN  <<ll.lo, p1, p2, Add32(hh.hi, carry2)>>

Limbs(a, b) ==
    Columns(mul32(a.lo, b.lo), mul32(a.lo, Significand(b)),
            mul32(Significand(a), b.lo), mul32(Significand(a), Significand(b)))

\* Bit 105 of the product is bit 9 of limb 3: one more bit must go.
TwoBinades(p) == (p[4] \div ((2 * TOP * TOP) \div WORD)) % 2 = 1

\* The bits kept, the guard bit below them, and whether any bit below it is
\* set.  drop is 2^20 or 2^21: limb 0 goes whole and so many bits of limb 1.
Kept(p, drop) ==
    [lo |-> p[2] \div drop + Shl32(p[3], WORD \div drop),
     hi |-> p[3] \div drop + Shl32(p[4], WORD \div drop)]
Guard(p, drop) == (p[2] \div (drop \div 2)) % 2
StickyInOneLimb(p, drop) == p[2] % (drop \div 2) # 0
Sticky(p, drop) == p[2] % (drop \div 2) # 0 \/ p[1] # 0

RoundsUp(m, guard, sticky) == guard = 1 /\ (sticky \/ m.lo % 2 = 1)

Increment(m) ==
    LET lo == Add32(m.lo, 1)
    IN  [lo |-> lo, hi |-> IF lo < m.lo THEN Add32(m.hi, 1) ELSE m.hi]

\* The mantissa became 2^53.
Overflows(m) == (m.hi \div (2 * TOP)) % 2 = 1
Halved(m) ==
    [lo |-> m.lo \div 2 + Shl32(m.hi, WORD \div 2), hi |-> m.hi \div 2]

\* The pattern of the mantissa m, one binade up if it became 2^53.
Packed(exponent, m, over) ==
    [hi |-> HighWord(exponent + (IF over THEN 1 ELSE 0),
                     IF over THEN Halved(m).hi ELSE m.hi),
     lo |-> IF over THEN Halved(m).lo ELSE m.lo]

Rounded(exponent, kept, up) ==
    LET m == IF up THEN Increment(kept) ELSE kept
    IN  Packed(exponent, m, up /\ Overflows(m))

Normalised(exponent, p) ==
    LET drop == IF TwoBinades(p) THEN 2 * TOP ELSE TOP
    IN  Rounded(exponent + (IF TwoBinades(p) THEN 1 ELSE 0), Kept(p, drop),
                RoundsUp(Kept(p, drop), Guard(p, drop), Sticky(p, drop)))

f64_mul(a, b) ==
    IF f64_is_zero(a) \/ f64_is_zero(b) THEN Zero
    ELSE Normalised(Exponent(a) + Exponent(b) - BIAS, Limbs(a, b))
=============================================================================

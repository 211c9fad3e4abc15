----------------------------- MODULE DeviceWord -----------------------------
(***************************************************************************)
(* Integer arithmetic of the device kernels (common.wgsl, f64.wgsl).  A    *)
(* shader has 32-bit words only, so the 64-bit arithmetic that keys a      *)
(* draw's substream is emulated on pairs of words, and a product of two    *)
(* words on their halves.                                                  *)
(*                                                                         *)
(* Every u32 operation wraps here as it does on the device.  A shift by s  *)
(* is given by the power 2^s, a mask of the low bits by a remainder, and   *)
(* the or of disjoint bits is a sum.                                       *)
(***************************************************************************)
EXTENDS Integers

CONSTANTS HALF,           \* 2^16 in the program: half a word
          XorWord(_, _),      \* exclusive or of two words
          GOLDEN,         \* the constants of mix64, pairs of words
          MULTIPLIER1,
          MULTIPLIER2,
          SHIFT1,         \* 2^30, 2^27 and 2^31 in the program
          SHIFT2,
          SHIFT3

WORD == HALF * HALF
Words == 0 .. WORD - 1
U64 == [lo : Words, hi : Words]

ASSUME HalfAssumption == HALF \in Nat \ {0, 1}
ASSUME XorAssumption == \A x, y \in Words : XorWord(x, y) \in Words
ASSUME MixAssumption ==
    /\ {GOLDEN, MULTIPLIER1, MULTIPLIER2} \subseteq U64
    /\ \A p \in {SHIFT1, SHIFT2, SHIFT3} :
          p \in Nat \ {0} /\ p * (WORD \div p) = WORD

\* The value of a pair of words.
Number(a) == a.hi * WORD + a.lo

\* u32 addition, product and left shift.
Add32(x, y) == (x + y) % WORD
Mul32(x, y) == (x * y) % WORD
Shl32(x, power) == (x * power) % WORD

-----------------------------------------------------------------------------
\* The two words of a product of words, on halves: schoolbook multiplication.
mul32(a, b) ==
    LET a0 == a % HALF
        a1 == a \div HALF
        b0 == b % HALF
        b1 == b \div HALF
        p00 == Mul32(a0, b0)
        mid1 == Add32(Mul32(a1, b0), p00 \div HALF)
        mid2 == Add32(Mul32(a0, b1), mid1 % HALF)
    IN  [lo |-> Shl32(mid2, HALF) + (p00 % HALF),
         hi |-> Add32(Add32(Mul32(a1, b1), mid1 \div HALF), mid2 \div HALF)]

u64_add(a, b) ==
    LET lo == Add32(a.lo, b.lo)
        carry == IF lo < a.lo THEN 1 ELSE 0
    IN  [lo |-> lo, hi |-> Add32(Add32(a.hi, b.hi), carry)]

u64_xor(a, b) == [lo |-> XorWord(a.lo, b.lo), hi |-> XorWord(a.hi, b.hi)]

\* A right shift by 1 .. 31: the bits that leave hi enter lo.
u64_shr(a, power) ==
    [lo |-> a.lo \div power + Shl32(a.hi, WORD \div power),
     hi |-> a.hi \div power]

\* The low 64 bits of the product: the core of mul32, and the cross products.
u64_mul(a, b) ==
    LET core == mul32(a.lo, b.lo)
    IN  [lo |-> core.lo,
         hi |-> Add32(Add32(core.hi, Mul32(a.lo, b.hi)), Mul32(a.hi, b.lo))]

\* SplitMix64's finaliser of (seed, i).
mix64(seed, i) ==
    LET z0 == u64_add(seed, u64_mul(i, GOLDEN))
        z1 == u64_mul(u64_xor(z0, u64_shr(z0, SHIFT1)), MULTIPLIER1)
        z2 == u64_mul(u64_xor(z1, u64_shr(z1, SHIFT2)), MULTIPLIER2)
    IN  u64_xor(z2, u64_shr(z2, SHIFT3))

\* stream_new: the key of the draw's keystream.
StreamKey(seed, i) ==
    LET z == mix64(seed, i)
    IN  <<z.lo, z.hi, seed.lo, seed.hi, i.lo, i.hi, 0, 0>>
=============================================================================

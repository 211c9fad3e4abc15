------------------------------ MODULE ForkRng ------------------------------
(***************************************************************************)
(* The random substream of a draw, on the host: fork_rng (engine.rs) mixes *)
(* the config's seed with the draw's index by the SplitMix64 finaliser and *)
(* keys a fresh ChaCha20 with the result, the seed and the index.          *)
(*                                                                         *)
(* The arithmetic is that of u64, which is DOUBLE wide; the words of the   *)
(* key and of the keystream are WORD wide.  A shift by s is a division by  *)
(* 2^s, and the two powers are parameters.                                 *)
(***************************************************************************)
EXTENDS Integers

CONSTANTS WORD,           \* 2^32 in the program
          XorWord(_, _),      \* exclusive or of two words
          GOLDEN,         \* the increment and the two multipliers, u64
          MULTIPLIER1,
          MULTIPLIER2,
          SHIFT1,         \* 2^30, 2^27 and 2^31 in the program
          SHIFT2,
          SHIFT3

DOUBLE == WORD * WORD

WrappingAdd(x, y) == (x + y) % DOUBLE
WrappingMul(x, y) == (x * y) % DOUBLE

\* Exclusive or acts on each bit, so on each half.
XorDouble(x, y) ==
    XorWord(x \div WORD, y \div WORD) * WORD + XorWord(x % WORD, y % WORD)

Mix(seed, i) ==
    LET z0 == WrappingAdd(seed, WrappingMul(i, GOLDEN))
        z1 == WrappingMul(XorDouble(z0, z0 \div SHIFT1), MULTIPLIER1)
        z2 == WrappingMul(XorDouble(z1, z1 \div SHIFT2), MULTIPLIER2)
    IN  XorDouble(z2, z2 \div SHIFT3)

\* to_le_bytes: the low word of a u64 comes first.
LittleEndian(x) == <<x % WORD, x \div WORD>>

\* The 32 bytes the generator is seeded with, as eight words.
ForkKey(seed, i) ==
    LET z == LittleEndian(Mix(seed, i))
        s == LittleEndian(seed)
        j == LittleEndian(i)
    IN  <<z[1], z[2], s[1], s[2], j[1], j[2], 0, 0>>
=============================================================================

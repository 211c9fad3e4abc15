------------------------------ MODULE HostDraw ------------------------------
(***************************************************************************)
(* One draw of the finite-state Markov family on the host: the substream   *)
(* of fork_rng, read word by word by the rand crate, the intensity, the    *)
(* perturbed label, and the indicator of the base label (engine.rs,        *)
(* examples.rs).  It is what the exact device kernel promises to compute,  *)
(* bit for bit.                                                            *)
(*                                                                         *)
(* A binary64 number is the integer of its bit pattern: comparing two      *)
(* numbers is comparing the integers, the next number down is the integer  *)
(* less one.  All of them are non-negative and finite.                     *)
(***************************************************************************)
EXTENDS ForkRng

CONSTANTS W,          \* the bits of a word
          MANTISSA,   \* the bits of a mantissa
          BIAS,       \* of the exponent
          Draws,      \* the draws considered (a bound): hyperparameters that
                      \* Family::validate accepts, a seed, an index, and the
                      \* words the keystream may hold
          MaxWords,   \* bound on the words a draw takes
          NoValue

VARIABLES
    draw,    \* the member of Draws
    pc,      \* "fork", "theta lo", "theta hi", "u lo", "u hi", "compare", "range",
             \* "eval" or "done"
    key,     \* of the substream
    pos,     \* the words taken from the keystream
    word,    \* the last of them
    lo,      \* the low word of a u64 being read
    theta,
    u,
    label,
    hit      \* the observation: 1.0 if label is the base label

vars == <<draw, pc, key, pos, word, lo, theta, u, label, hit>>

-----------------------------------------------------------------------------
(* binary64.  A pattern is Unit * exponent + mantissa; subnormal numbers    *)
(* have the exponent 0 and the spacing of exponent 1.                      *)

Unit == 2 ^ MANTISSA
One == BIAS * Unit

Exponent(x) == IF x < Unit THEN 1 ELSE x \div Unit
Significand(x) == x - (Exponent(x) - 1) * Unit
Pattern(exponent, significand) == (exponent - 1) * Unit + significand

LeadingBit(x) ==
    CHOOSE p \in 0 .. 2 * MANTISSA + 1 : 2 ^ p <= x /\ x < 2 ^ (p + 1)

\* num / den to the nearest integer, ties to even.
RoundEven(num, den) ==
    LET q == num \div den
        r == num % den
    IN  IF 2 * r > den \/ (2 * r = den /\ q % 2 = 1) THEN q + 1 ELSE q

LargerOf(x, y) == IF x > y THEN x ELSE y

\* x * y, gradual underflow included.
Product(x, y) ==
    IF x = 0 \/ y = 0 THEN 0 ELSE
    LET p == Significand(x) * Significand(y)
        e == Exponent(x) + Exponent(y) - BIAS - MANTISSA
        s == LargerOf(LeadingBit(p) - MANTISSA, 1 - e)
    IN  IF s > 2 * MANTISSA + 2 THEN 0
        ELSE Pattern(e + s, RoundEven(p, 2 ^ s))

\* v * 2^e for an integer v that fits a mantissa: nothing to round.
Scaled(v, e) ==
    IF v = 0 THEN 0
    ELSE Pattern(LeadingBit(v) + e + BIAS, v * 2 ^ (MANTISSA - LeadingBit(v)))

-----------------------------------------------------------------------------
(* rand: Uniform::new_inclusive(0.0, high), Standard and gen_range.         *)

\* The largest value0_1, 1 - 2^-52.
MaxRand == Scaled(Unit - 1, -MANTISSA)

\* (high - low) / max_rand, for low = 0: max_rand is (Unit - 1) / Unit.
Quotient(high) ==
    IF high = 0 THEN 0 ELSE
    LET num == Significand(high) * Unit
        den == Unit - 1
    IN  IF num \div den < 2 * Unit
        THEN Pattern(Exponent(high), RoundEven(num, den))
        ELSE Pattern(Exponent(high) + 1, RoundEven(num, 2 * den))

Overshoots(scale, high) == Product(scale, MaxRand) > high

\* The largest scale from the quotient down whose largest draw does not
\* overshoot.
InclusiveScale(high) ==
    LET down[s \in 0 .. Quotient(high)] ==
            IF Overshoots(s, high) THEN down[s - 1] ELSE s
    IN  down[Quotient(high)]

\* next_u64 >> 12 over 2^52 and next_u64 >> 11 over 2^53.
Low52(x) == x \div 2 ^ (2 * W - MANTISSA)
Low53(x) == x \div 2 ^ (2 * W - MANTISSA - 1)
UniformSample(x, scale) == Product(Scaled(Low52(x), -MANTISSA), scale)
StandardSample(x) == Scaled(Low53(x), -MANTISSA - 1)

\* Lemire: a word w stands for the label w * k / 2^32, unless it is rejected.
RangeZone(k) == k * 2 ^ (W - 1 - LeadingBit(k)) - 1
Accepted(w, k) == (w * k) % WORD <= RangeZone(k)
LabelOf(w, k) == (w * k) \div WORD

-----------------------------------------------------------------------------
Init ==
    /\ draw \in Draws
    /\ pc = "fork"
    /\ key = NoValue
    /\ pos = 0
    /\ word = NoValue
    /\ lo = NoValue
    /\ theta = NoValue
    /\ u = NoValue
    /\ label = draw.start
    /\ hit = NoValue

\* draw_one: fork_rng(seed, i).
Fork ==
    /\ pc = "fork"
    /\ key' = ForkKey(draw.seed, draw.i)
    /\ pc' = "theta lo"
    /\ UNCHANGED <<draw, pos, word, lo, theta, u, label, hit>>

\* The next word of the keystream.
Take(w) ==
    /\ w \in draw.words
    /\ pos < MaxWords
    /\ word' = w
    /\ pos' = pos + 1

\* next_u64: the low word first.
LowWord(from, to) ==
    /\ pc = from
    /\ \E w \in draw.words : Take(w) /\ lo' = w
    /\ pc' = to
    /\ UNCHANGED <<draw, key, theta, u, label, hit>>

\* sample_theta
SampleTheta ==
    /\ pc = "theta hi"
    /\ \E w \in draw.words :
          /\ Take(w)
          /\ theta' = UniformSample(w * WORD + lo, InclusiveScale(draw.theta_max))
    /\ lo' = NoValue
    /\ pc' = "u lo"
    /\ UNCHANGED <<draw, key, u, label, hit>>

\* apply: rng.gen(), and the comparison.
SampleU ==
    /\ pc = "u hi"
    /\ \E w \in draw.words : Take(w) /\ u' = StandardSample(w * WORD + lo)
    /\ lo' = NoValue
    /\ pc' = "compare"
    /\ UNCHANGED <<draw, key, theta, label, hit>>

Compare ==
    /\ pc = "compare"
    /\ pc' = IF u < theta THEN "range" ELSE "eval"
    /\ theta' = NoValue
    /\ u' = NoValue
    /\ UNCHANGED <<draw, key, pos, word, lo, label, hit>>

\* gen_range(0..k)
Reject ==
    /\ pc = "range"
    /\ \E w \in draw.words : ~Accepted(w, draw.k) /\ Take(w)
    /\ UNCHANGED <<draw, pc, key, lo, theta, u, label, hit>>

Accept ==
    /\ pc = "range"
    /\ \E w \in draw.words :
          /\ Accepted(w, draw.k)
          /\ Take(w)
          /\ label' = LabelOf(w, draw.k)
    /\ pc' = "eval"
    /\ UNCHANGED <<draw, key, lo, theta, u, hit>>

\* BaseIndicator::eval
Eval ==
    /\ pc = "eval"
    /\ hit' = IF label = draw.base THEN 1 ELSE 0
    /\ pc' = "done"
    /\ UNCHANGED <<draw, key, pos, word, lo, theta, u, label>>

Next ==
    \/ Fork
    \/ LowWord("theta lo", "theta hi") \/ SampleTheta
    \/ LowWord("u lo", "u hi") \/ SampleU
    \/ Compare \/ Reject \/ Accept \/ Eval

Spec == Init /\ [][Next]_vars
=============================================================================

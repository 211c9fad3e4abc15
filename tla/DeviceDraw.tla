----------------------------- MODULE DeviceDraw -----------------------------
(***************************************************************************)
(* One draw of the bit-exact Markov run: the parameters the host derives   *)
(* (uniform_inclusive_params and evaluate_markov_exact of gpu/mod.rs) and  *)
(* one invocation of draw_markov (markov_exact.wgsl) up to its hit, with   *)
(* the keystream reader of common.wgsl and the emulated binary64 of        *)
(* f64.wgsl.  What the invocations do with their hits is MarkovExact's.    *)
(*                                                                         *)
(* The rounds of ChaCha20 are abstracted: a block holds, for each of its   *)
(* words, the position of that word in the keystream, and the word at a    *)
(* position is any of draw.words, chosen when it is taken.                 *)
(***************************************************************************)
EXTENDS DeviceFloat, FiniteSets, Sequences

CONSTANTS BLOCK,      \* words of a ChaCha20 block, 16
          Draws,      \* as in HostDraw, with pairs of words for u64
          MaxWords,   \* bound on the words a draw takes
          NoValue

ASSUME BlockAssumption == BLOCK \in Nat \ {0}

VARIABLES
    draw,
    pc,        \* the host: "divide", "walk"; the invocation: as in HostDraw
    scale,     \* the bits of the scale
    walked,    \* how many times it was walked down
    stream,    \* the Stream of the invocation
    taken,     \* history: the position after that of the last word taken
    word,      \* history: that word
    lo,
    theta,
    u,
    thetaDrawn,  \* history: the u64 behind theta and the one behind u,
    uDrawn,      \* without the bits that are dropped
    label,
    hit

lane == <<draw, scale, walked>>
drawn == <<thetaDrawn, uDrawn>>
vars == <<draw, pc, scale, walked, stream, taken, word, lo, theta, u, drawn, label, hit>>

\* A pattern as an integer, and as the two words uploaded.
Bits(f) == f.hi * WORD + f.lo
Split(x) == [hi |-> x \div WORD, lo |-> x % WORD]

Host == INSTANCE HostDraw WITH
    GOLDEN <- Number(GOLDEN),
    MULTIPLIER1 <- Number(MULTIPLIER1),
    MULTIPLIER2 <- Number(MULTIPLIER2),
    Draws <- {[d EXCEPT !.seed = Number(@), !.i = Number(@)] : d \in Draws},
    draw <- [draw EXCEPT !.seed = Number(@), !.i = Number(@)],
    pc <- IF pc \in {"divide", "walk"} THEN "fork" ELSE pc,
    key <- IF stream = NoValue THEN NoValue ELSE stream.key,
    pos <- taken,
    theta <- IF theta = NoValue THEN NoValue ELSE Bits(theta),
    u <- IF u = NoValue THEN NoValue ELSE Bits(u)

\* What Family::validate accepts; the stream_new index of a draw is a u32.
ASSUME DrawsAssumption ==
    /\ Draws \subseteq [theta_max : 0 .. Host!One, k : Words \ {0},
                        start : Words, base : Words, seed : U64, i : U64,
                        words : SUBSET Words]
    /\ \A d \in Draws : {d.start, d.base} \subseteq 0 .. d.k - 1 /\ d.i.hi = 0

\* The values of a number and of a Stream, and none.
Numbers == [hi : 0 .. HIGH - 1, lo : Words]
Streams == [key : Seq(Words), block : [0 .. BLOCK - 1 -> Nat],
            block_index : Nat, word : Nat, loaded : BOOLEAN]

ASSUME NoValueAssumption == NoValue \notin Numbers /\ NoValue \notin Streams

\* No product of a sample, at least 2^-52 unless it is 0, with the scale is below
\* the normal range.
HasNormalProducts(d) ==
    d.theta_max = 0 \/ d.theta_max >= (MANTISSA + 1) * Host!Unit

-----------------------------------------------------------------------------
(* The keystream reader.                                                   *)

stream_new(seed, i) ==
    [key |-> StreamKey(seed, i),
     block |-> [j \in 0 .. BLOCK - 1 |-> 0],
     block_index |-> 0, word |-> 0, loaded |-> FALSE]

chacha_block(s, counter) ==
    [s EXCEPT !.block = [j \in 0 .. BLOCK - 1 |-> counter * BLOCK + j],
              !.block_index = counter,
              !.loaded = TRUE]

LoadedOnce(s) == IF ~s.loaded THEN chacha_block(s, s.word \div BLOCK) ELSE s

\* next_u32: reload when the word is not in the block held.
Current(s) ==
    IF ~s.loaded \/ s.block_index # s.word \div BLOCK
    THEN chacha_block(s, s.word \div BLOCK) ELSE s

NextU32(w) ==
    /\ stream.word < MaxWords
    /\ word' = w
    /\ taken' = Current(stream).block[stream.word % BLOCK] + 1
    /\ stream' = [Current(stream) EXCEPT !.word = @ + 1]

\* value0_1 and value: 52 and 53 bits of the u64 read.
uniform_f64(w_lo, w_hi, by) ==
    LET keep == 2 ^ (2 * W - MANTISSA)
        value0_1 == f64_from_scaled_int(w_hi \div keep,
                        w_lo \div keep + Shl32(w_hi, WORD \div keep), -MANTISSA)
    IN  f64_mul(value0_1, by)

standard_f64(w_lo, w_hi) ==
    LET keep == 2 ^ (2 * W - MANTISSA - 1)
    IN  f64_from_scaled_int(w_hi \div keep,
            w_lo \div keep + Shl32(w_hi, WORD \div keep), -MANTISSA - 1)

\* History: the u64 behind a number, without the low bits that are dropped.
Kept52(w_lo, w_hi) == (w_hi * WORD + w_lo) - (w_lo % 2 ^ (2 * W - MANTISSA))
Kept53(w_lo, w_hi) == (w_hi * WORD + w_lo) - (w_lo % 2 ^ (2 * W - MANTISSA - 1))

\* gen_range_u32: the zone, and what a word is worth.
ZoneClosed(k) == Shl32(k, 2 ^ (W - 1 - LeadingBit(k)))
Zone(k) == Shl32(k, 2 ^ (W - 1 - LeadingBit(k))) - 1
Accepts(w, k) == k = 0 \/ mul32(w, k).lo <= Zone(k)
LabelFromOne(w, k) == mul32(w, k).hi + 1
RangeLabel(w, k) == IF k = 0 THEN w ELSE mul32(w, k).hi

-----------------------------------------------------------------------------
Init ==
    /\ draw \in Draws
    /\ pc = "divide"
    /\ scale = 0
    /\ walked = 0
    /\ stream = NoValue
    /\ taken = 0
    /\ word = NoValue
    /\ lo = NoValue
    /\ theta = NoValue
    /\ u = NoValue
    /\ thetaDrawn = NoValue
    /\ uDrawn = NoValue
    /\ label = draw.start
    /\ hit = NoValue

\* uniform_inclusive_params, on the host.
Divide ==
    /\ pc = "divide"
    /\ scale' = Host!Quotient(draw.theta_max)
    /\ pc' = "walk"
    /\ UNCHANGED <<draw, walked, stream, taken, word, lo, theta, u, drawn, label, hit>>

WalkDownTwice ==
    /\ pc = "walk"
    /\ Host!Overshoots(scale, draw.theta_max)
    /\ scale' = scale - 2
    /\ walked' = walked + 1
    /\ UNCHANGED <<draw, pc, stream, taken, word, lo, theta, u, drawn, label, hit>>

WalkDown ==
    /\ pc = "walk"
    /\ Host!Overshoots(scale, draw.theta_max)
    /\ scale' = scale - 1
    /\ walked' = walked + 1
    /\ UNCHANGED <<draw, pc, stream, taken, word, lo, theta, u, drawn, label, hit>>

LaunchUnwalked ==
    /\ pc = "walk"
    /\ stream' = stream_new(draw.seed, draw.i)
    /\ pc' = "theta lo"
    /\ UNCHANGED <<lane, taken, word, lo, theta, u, drawn, label, hit>>

\* The parameters are uploaded and the invocation forks its substream.
Launch ==
    /\ pc = "walk"
    /\ ~Host!Overshoots(scale, draw.theta_max)
    /\ stream' = stream_new(draw.seed, draw.i)
    /\ pc' = "theta lo"
    /\ UNCHANGED <<lane, taken, word, lo, theta, u, drawn, label, hit>>

LowWord(from, to) ==
    /\ pc = from
    /\ \E w \in draw.words : NextU32(w) /\ lo' = w
    /\ pc' = to
    /\ UNCHANGED <<lane, theta, u, drawn, label, hit>>

Theta ==
    /\ pc = "theta hi"
    /\ \E w \in draw.words :
          /\ NextU32(w)
          /\ theta' = uniform_f64(lo, w, Split(scale))
          /\ thetaDrawn' = Kept52(lo, w)
    /\ lo' = NoValue
    /\ pc' = "u lo"
    /\ UNCHANGED <<lane, u, uDrawn, label, hit>>

U ==
    /\ pc = "u hi"
    /\ \E w \in draw.words :
          /\ NextU32(w)
          /\ u' = standard_f64(lo, w)
          /\ uDrawn' = Kept53(lo, w)
    /\ lo' = NoValue
    /\ pc' = "compare"
    /\ UNCHANGED <<lane, theta, thetaDrawn, label, hit>>

\* f64_lt(u, theta); neither is used again.
Compare ==
    /\ pc = "compare"
    /\ pc' = IF f64_lt(u, theta) THEN "range" ELSE "eval"
    /\ theta' = NoValue
    /\ u' = NoValue
    /\ thetaDrawn' = NoValue
    /\ uDrawn' = NoValue
    /\ UNCHANGED <<lane, stream, taken, word, lo, label, hit>>

Reject ==
    /\ pc = "range"
    /\ \E w \in draw.words : ~Accepts(w, draw.k) /\ NextU32(w)
    /\ UNCHANGED <<lane, pc, lo, theta, u, drawn, label, hit>>

Accept ==
    /\ pc = "range"
    /\ \E w \in draw.words :
          /\ Accepts(w, draw.k)
          /\ NextU32(w)
          /\ label' = RangeLabel(w, draw.k)
    /\ pc' = "eval"
    /\ UNCHANGED <<lane, lo, theta, u, drawn, hit>>

Hit ==
    /\ pc = "eval"
    /\ hit' = IF label = draw.base THEN 1 ELSE 0
    /\ pc' = "done"
    /\ UNCHANGED <<lane, stream, taken, word, lo, theta, u, drawn, label>>

\* The draw is made, or the bound on its words is met.
Stopped ==
    /\ pc = "done" \/ taken = MaxWords
    /\ UNCHANGED vars

Next ==
    \/ Divide \/ WalkDown \/ Launch
    \/ LowWord("theta lo", "theta hi") \/ Theta
    \/ LowWord("u lo", "u hi") \/ U
    \/ Compare \/ Reject \/ Accept \/ Hit \/ Stopped

Spec == Init /\ [][Next]_vars

-----------------------------------------------------------------------------
(* Properties                                                              *)

\* The type invariant: emulated numbers are patterns, labels are in the
\* alphabet, and an intensity exists exactly while it is compared.
TypeOK ==
    /\ draw \in Draws
    /\ scale \in Nat /\ walked \in Nat
    /\ stream \in Streams \cup {NoValue}
    /\ label \in 0 .. draw.k - 1
    /\ theta \in Numbers \cup {NoValue}
    /\ u \in Numbers \cup {NoValue}
    /\ theta # NoValue <=> pc \in {"u lo", "u hi", "compare"}
    /\ hit \in {0, 1, NoValue}

\* The invocation makes the host's draw: from the same key it takes the same
\* words in the same order and comes to the same intensity, variate, label and
\* observation, bit for bit ("bit-identically to the host", config.rs).
ImplementsHost == Host!Spec

\* Inclusive means inclusive: no draw of the intensity exceeds theta_max, the
\* end of the interval rho was declared on.
NeverOvershoots == theta # NoValue => Bits(theta) <= draw.theta_max

\* gpu/mod.rs: "In practice this runs zero or one times."  The scale never
\* falls so far that another would do.
WalksAtMostOnce ==
    /\ walked <= 1
    /\ pc \notin {"divide", "walk"} =>
          walked = 0 \/ Host!Overshoots(scale + 1, draw.theta_max)

\* The keystream words taken are consecutive from the first, across blocks.
WordsInOrder == stream # NoValue => taken = stream.word

\* A zone too large or too small favours some labels: each label of the
\* alphabet is the label of equally many accepted words, so that the draw of
\* a label is uniform.
LabelsEquallyLikely ==
    pc = "range" =>
        \A l \in 0 .. draw.k - 1 :
            Cardinality({w \in Words :
                Accepts(w, draw.k) /\ RangeLabel(w, draw.k) = l})
              = 2 ^ (W - 1 - LeadingBit(draw.k))

\* Bit identity where it decides something: the device replaces the label on
\* exactly the draws on which the host does.
SameDecision ==
    pc = "compare" =>
        (f64_lt(u, theta) <=>
            Host!StandardSample(uDrawn) <
                Host!UniformSample(thetaDrawn, Host!InclusiveScale(draw.theta_max)))
=============================================================================

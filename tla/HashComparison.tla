---------------------------- MODULE HashComparison ----------------------------
(***************************************************************************)
(* Comparison of two hash sequences at one alignment (matching.rs).  A hash *)
(* is the set of its bits that are 1.  A score is the f32 nearest to the    *)
(* fraction of bits that agree: two fractions that differ may be one score. *)
(* Counts of bits are below 2^24 and are exact as f32.                      *)
(***************************************************************************)
EXTENDS Integers, Sequences, FiniteSets

CONSTANTS
    WORD_BITS,      \* bits of a hash (32)
    F32_DIGITS      \* binary digits of a score (24)

ASSUME HashComparisonAssumption == WORD_BITS \in Nat \ {0} /\ F32_DIGITS \in Nat \ {0}

Bits == 0 .. WORD_BITS - 1
Hash == SUBSET Bits

LesserOf(a, b) == IF a < b THEN a ELSE b
GreaterOf(a, b) == IF a > b THEN a ELSE b

SymmetricDifference(a, b) == (a \ b) \cup (b \ a)

\* Two adjacent hashes in one word of twice the width
Packed(low, high) == low \cup {bit + WORD_BITS : bit \in high}

\* (!(a ^ b)).count_ones() of two words of width bits
AgreeingBits(a, b, width) == width - Cardinality(SymmetricDifference(a, b))

\* The sum of f[1] .. f[n]
SumTo(f, n) ==
    LET sum[k \in 0 .. n] == IF k = 0 THEN 0 ELSE sum[k - 1] + f[k]
    IN  sum[n]

\* x / y to the nearest integer, to the even one of two
RoundHalfEven(x, y) ==
    LET floor == x \div y
        twice == 2 * (x % y)
    IN  IF twice > y \/ (twice = y /\ floor % 2 = 1) THEN floor + 1 ELSE floor

\* The f32 quotient x / y for 0 <= x <= y: mantissa / 2^exponent, with
\* F32_DIGITS digits of mantissa from the first one on
F32(x, y) ==
    LET leading == CHOOSE e \in 0 .. y :
                       x * 2^e >= y /\ \A d \in 0 .. e - 1 : x * 2^d < y
        mantissa == RoundHalfEven(x * 2^(leading + F32_DIGITS - 1), y)
    IN  IF x = 0 THEN [mantissa |-> 0, exponent |-> 0]
        ELSE IF mantissa = 2^F32_DIGITS
        THEN [mantissa |-> mantissa \div 2, exponent |-> leading + F32_DIGITS - 2]
        ELSE [mantissa |-> mantissa, exponent |-> leading + F32_DIGITS - 1]

\* a > b, of two scores
Higher(a, b) == a.mantissa * 2^b.exponent > b.mantissa * 2^a.exponent

\* The score of a comparison; of no hashes it is 0.
Score(matching_bits, count) ==
    IF count = 0 THEN [mantissa |-> 0, exponent |-> 0] ELSE F32(matching_bits, count * WORD_BITS)

Comparison(offset, count, matching_bits) ==
    [best_offset |-> offset, compared_hashes |-> count, matching_bits |-> matching_bits,
     score |-> Score(matching_bits, count)]

\* Fault: the remainder of chunks_exact is not compared.
MatchingBits_NoRemainder(first, second, count) ==
    LET PairBits == [k \in 1 .. count \div 2 |->
                        AgreeingBits(Packed(first[2 * k - 1], first[2 * k]),
                                     Packed(second[2 * k - 1], second[2 * k]),
                                     2 * WORD_BITS)]
    IN  SumTo(PairBits, count \div 2)

\* Agreeing bits of the first count hashes of both: two hashes at a time, then
\* the odd one.
MatchingBits(first, second, count) ==
    LET PairBits == [k \in 1 .. count \div 2 |->
                        AgreeingBits(Packed(first[2 * k - 1], first[2 * k]),
                                     Packed(second[2 * k - 1], second[2 * k]),
                                     2 * WORD_BITS)]
    IN  SumTo(PairBits, count \div 2)
            + (IF count % 2 = 1
               THEN AgreeingBits(first[count], second[count], WORD_BITS) ELSE 0)

Dropped(hashes, n) == SubSeq(hashes, n + 1, Len(hashes))

\* Fault: a positive offset is reported for the hashes dropped from second.
ComparisonAt_SwapsSides(first, second, offset) ==
    LET first_start == GreaterOf(-offset, 0)
        second_start == GreaterOf(offset, 0)
        count == IF first_start >= Len(first) \/ second_start >= Len(second) THEN 0
                 ELSE LesserOf(Len(first) - first_start, Len(second) - second_start)
    IN  Comparison(offset, count, MatchingBits(Dropped(first, first_start),
                                               Dropped(second, second_start), count))

\* comparison_at_offset, with the two starts the search derives from offset: a
\* positive offset drops leading hashes of first, a negative one of second.
ComparisonAt(first, second, offset) ==
    LET first_start == GreaterOf(offset, 0)
        second_start == GreaterOf(-offset, 0)
        count == IF first_start >= Len(first) \/ second_start >= Len(second) THEN 0
                 ELSE LesserOf(Len(first) - first_start, Len(second) - second_start)
    IN  Comparison(offset, count, MatchingBits(Dropped(first, first_start),
                                               Dropped(second, second_start), count))

ScoresHigher(a, b) == Higher(a.score, b.score)

-----------------------------------------------------------------------------

\* The pairs of hashes that lie over each other at an alignment, counted in
\* hash positions of first against second.
Overlap(first, second, offset) ==
    {i \in 1 .. Len(first) : i - offset \in 1 .. Len(second)}

\* What a comparison means, pair by pair and bit by bit.
Agreement(first, second, offset) ==
    LET overlap == Overlap(first, second, offset)
    IN  Comparison(offset, Cardinality(overlap),
                   Cardinality({ib \in overlap \X Bits :
                       ib[2] \in first[ib[1]] <=> ib[2] \in second[ib[1] - offset]}))

\* The order alignments are preferred in when they score the same: the smaller
\* shift, and the positive of two equal ones.
Preferred(a, b) ==
    LET Size(o) == IF o < 0 THEN -o ELSE o
    IN  Size(a) < Size(b) \/ (Size(a) = Size(b) /\ a > b)

\* The best alignment within limit positions in both directions.
BestAlignment(first, second, limit) ==
    CHOOSE c \in {Agreement(first, second, o) : o \in -limit .. limit} :
        \A o \in -limit .. limit :
            LET other == Agreement(first, second, o)
            IN  /\ ~ScoresHigher(other, c)
                /\ ~ScoresHigher(c, other) =>
                       o = c.best_offset \/ Preferred(c.best_offset, o)
=============================================================================

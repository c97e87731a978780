----------------------------- MODULE MatchingProofs -----------------------------
(***************************************************************************)
(* The comparison of hash sequences, the drift search and the matcher, for  *)
(* every width of a hash, precision of a score, length and limit:           *)
(*                                                                          *)
(*   - comparing two hashes in one word counts the bits that agree pair by  *)
(*     pair, and a score is a rounding of their fraction that keeps order;  *)
(*   - the search returns the best alignment there is, whichever sequence   *)
(*     is called the first;                                                 *)
(*   - the matcher returns the best checkpoints in order, and its answer is *)
(*     determined by what it stores.                                        *)
(*                                                                          *)
(* Induction is over a set of naturals, see NatInd of FingerprintProofs.     *)
(***************************************************************************)
EXTENDS DriftSearch, CheckpointMatcher, FingerprintProofs, FiniteSetTheorems

-----------------------------------------------------------------------------
\* Counting

LEMMA SameCount ==
  ASSUME NEW S, NEW T, IsFiniteSet(S), NEW f \in [S -> T],
         \A x, y \in S : f[x] = f[y] => x = y,
         \A t \in T : \E x \in S : f[x] = t
  PROVE  IsFiniteSet(T) /\ Cardinality(T) = Cardinality(S)
<1>1. f \in Bijection(S, T)
  BY DEF Bijection, Injection, Surjection, IsInjective
<1> QED
  BY <1>1, FS_Bijection DEF ExistsBijection

LEMMA NoMore ==
  ASSUME NEW S, NEW T, IsFiniteSet(T), NEW f \in [S -> T],
         \A x, y \in S : f[x] = f[y] => x = y
  PROVE  IsFiniteSet(S) /\ Cardinality(S) <= Cardinality(T)
<1>1. f \in Injection(S, T)
  BY DEF Injection, IsInjective
<1> QED
  BY <1>1, FS_Injection

\* A set that is partitioned in two.
LEMMA CountParts ==
  ASSUME NEW S, NEW T, IsFiniteSet(S), IsFiniteSet(T), S \cap T = {}
  PROVE  /\ IsFiniteSet(S \cup T)
         /\ Cardinality(S \cup T) = Cardinality(S) + Cardinality(T)
<1>1. Cardinality(S \cap T) = 0
  BY FS_EmptySet
<1>2. Cardinality(S) \in Nat /\ Cardinality(T) \in Nat
  BY FS_CardinalityType
<1>3. /\ IsFiniteSet(S \cup T)
      /\ Cardinality(S \cup T) = Cardinality(S) + Cardinality(T) - Cardinality(S \cap T)
  BY FS_Union
<1> QED
  BY <1>1, <1>2, <1>3

-----------------------------------------------------------------------------
\* Powers of two

LEMMA PowerIsCount ==
  ASSUME NEW n \in Nat
  PROVE  IsFiniteSet(SUBSET (1 .. n)) /\ 2^n = Cardinality(SUBSET (1 .. n))
<1>1. IsFiniteSet(1 .. n) /\ Cardinality(1 .. n) = n
  BY FS_Interval
<1> QED
  BY <1>1, FS_SUBSET

LEMMA PowerOfZero == 2^0 = 1
<1>1. SUBSET (1 .. 0) = {{}}
  OBVIOUS
<1> QED
  BY <1>1, PowerIsCount, FS_Singleton

LEMMA PowerDoubles ==
  ASSUME NEW n \in Nat
  PROVE  2^n \in Nat \ {0} /\ 2^(n + 1) = 2 * 2^n
<1> DEFINE A == SUBSET (1 .. n)
           B == {T \cup {n + 1} : T \in A}
<1>1. n + 1 \in Nat /\ n + 1 \notin 1 .. n
  OBVIOUS
<1>2. SUBSET (1 .. n + 1) = A \cup B
  <2>1. 1 .. n + 1 = (1 .. n) \cup {n + 1}
    OBVIOUS
  <2>2. ASSUME NEW T \in SUBSET (1 .. n + 1) PROVE T \in A \cup B
    <3>1. CASE n + 1 \in T
      <4>1. T \ {n + 1} \in A /\ T = (T \ {n + 1}) \cup {n + 1}
        BY <2>1, <3>1
      <4> QED
        BY <4>1
    <3>2. CASE n + 1 \notin T
      BY <2>1, <3>2
    <3> QED
      BY <3>1, <3>2
  <2>3. ASSUME NEW T \in A \cup B PROVE T \in SUBSET (1 .. n + 1)
    BY <2>1
  <2> QED
    BY <2>2, <2>3
<1>3. IsFiniteSet(A) /\ Cardinality(A) = 2^n /\ A # {}
  BY PowerIsCount
<1>4. IsFiniteSet(B) /\ Cardinality(B) = Cardinality(A)
  <2> DEFINE f == [T \in A |-> T \cup {n + 1}]
  <2>1. f \in [A -> B] /\ \A t \in B : \E T \in A : f[T] = t
    OBVIOUS
  <2>2. ASSUME NEW T \in A, NEW U \in A, f[T] = f[U] PROVE T = U
    BY <1>1, <2>2
  <2> HIDE DEF f, A, B
  <2> QED
    BY <1>3, <2>1, <2>2, SameCount
<1>5. A \cap B = {}
  BY <1>1
<1>6. 2^n \in Nat /\ 2^n # 0
  <2> HIDE DEF A
  <2> QED
    BY <1>3, FS_CardinalityType, FS_EmptySet
<1>7. Cardinality(A \cup B) = Cardinality(A) + Cardinality(B)
  <2> HIDE DEF A, B
  <2> QED
    BY <1>3, <1>4, <1>5, CountParts
<1>8. 2^(n + 1) = Cardinality(A \cup B)
  BY <1>1, <1>2, PowerIsCount
<1> HIDE DEF A, B
<1> QED
  BY <1>3, <1>4, <1>6, <1>7, <1>8

\* Powers as a prover sees them: by these facts alone.
Pow(n) == 2^n

LEMMA PowFacts ==
  /\ Pow(0) = 1
  /\ \A n \in Nat : Pow(n) \in Nat /\ Pow(n) > 0 /\ Pow(n + 1) = 2 * Pow(n)
<1>1. ASSUME NEW n \in Nat
      PROVE  Pow(n) \in Nat /\ Pow(n) > 0 /\ Pow(n + 1) = 2 * Pow(n)
  <2> DEFINE p == 2^n
             q == 2^(n + 1)
  <2>1. p \in Nat \ {0} /\ q = 2 * p
    BY PowerDoubles
  <2> HIDE DEF p, q
  <2>2. p \in Nat /\ p > 0 /\ q = 2 * p
    BY <2>1
  <2> QED
    BY <2>2 DEF Pow, p, q
<1>2. Pow(0) = 1
  BY PowerOfZero DEF Pow
<1> QED
  BY <1>1, <1>2

LEMMA PowSum ==
  ASSUME NEW a \in Nat, NEW b \in Nat
  PROVE  Pow(a + b) = Pow(a) * Pow(b)
<1> DEFINE S == {n \in Nat : Pow(a + n) = Pow(a) * Pow(n)}
<1>1. 0 \in S
  <2>1. a + 0 = a /\ Pow(a) * 1 = Pow(a)
    BY PowFacts
  <2> QED
    BY <2>1, PowFacts
<1>2. ASSUME NEW n \in Nat, n \in S PROVE n + 1 \in S
  <2>1. /\ Pow(a + n) = Pow(a) * Pow(n) /\ Pow(n + 1) = 2 * Pow(n)
        /\ Pow((a + n) + 1) = 2 * Pow(a + n) /\ a + (n + 1) = (a + n) + 1
        /\ Pow(a) \in Nat /\ Pow(n) \in Nat
    BY <1>2, PowFacts
  <2>2. Pow(a) * (2 * Pow(n)) = 2 * (Pow(a) * Pow(n))
    BY <2>1
  <2> QED
    BY <2>1, <2>2
<1> HIDE DEF S
<1>3. b \in S
  BY <1>1, <1>2, NatInd
<1> QED
  BY <1>3 DEF S

LEMMA PowMonotone ==
  ASSUME NEW a \in Nat, NEW b \in Nat, a <= b
  PROVE  Pow(a) <= Pow(b)
<1>1. PICK m \in Nat : b = a + m
  <2>1. b - a \in Nat /\ b = a + (b - a)
    OBVIOUS
  <2> QED
    BY <2>1
<1>2. Pow(b) = Pow(a) * Pow(m)
  BY <1>1, PowSum
<1>3. Pow(a) \in Nat /\ Pow(m) \in Nat /\ 1 <= Pow(m)
  BY PowFacts
<1>4. 1 * Pow(a) <= Pow(m) * Pow(a)
  BY <1>3, ProductMonotone
<1> QED
  BY <1>2, <1>3, <1>4

LEMMA PowExceeds == \A n \in Nat : n < Pow(n)
<1> DEFINE S == {n \in Nat : n < Pow(n)}
<1>1. 0 \in S
  BY PowFacts
<1>2. ASSUME NEW n \in Nat, n \in S PROVE n + 1 \in S
  BY <1>2, PowFacts
<1> HIDE DEF S
<1>3. \A n \in Nat : n \in S
  BY <1>1, <1>2, NatInd
<1> QED
  BY <1>3 DEF S

-----------------------------------------------------------------------------
\* Sums

\* A sum is the last of the partial ones.
LEMMA SumIs ==
  ASSUME NEW s, NEW n \in Nat
  PROVE  \E g : /\ g[0] = 0 /\ SumTo(s, n) = g[n]
                /\ \A k \in 1 .. n : g[k] = g[k - 1] + s[k]
<1> DEFINE sum == CHOOSE g : Partial(s, n, g)
<1>1. Partial(s, n, sum)
  BY PartialExists
<1>2. SumTo(s, n) = sum[n]
  BY DEF SumTo, Partial
<1> HIDE DEF sum
<1>3. \A k \in 0 .. n : sum[k] = IF k = 0 THEN 0 ELSE sum[k - 1] + s[k]
  BY <1>1 DEF Partial
<1> QED
  BY <1>2, <1>3

-----------------------------------------------------------------------------
\* Counting two hashes in one word counts each of them.

LEMMA BitsCount == IsFiniteSet(Bits) /\ Cardinality(Bits) = WORD_BITS /\ WORD_BITS \in Nat \ {0}
<1>1. WORD_BITS \in Nat \ {0}
  BY HashComparisonAssumption
<1> QED
  BY <1>1, FS_Interval DEF Bits

Agreeing(a, b) == {bit \in Bits : bit \in a <=> bit \in b}

LEMMA DifferenceCount ==
  ASSUME NEW a \in Hash, NEW b \in Hash
  PROVE  /\ IsFiniteSet(SymmetricDifference(a, b)) /\ SymmetricDifference(a, b) \subseteq Bits
         /\ IsFiniteSet(Agreeing(a, b)) /\ Cardinality(Agreeing(a, b)) \in Nat
         /\ Cardinality(SymmetricDifference(a, b)) = WORD_BITS - Cardinality(Agreeing(a, b))
<1> DEFINE x == SymmetricDifference(a, b)
           y == Agreeing(a, b)
<1>1. x \subseteq Bits /\ y \subseteq Bits
  BY DEF SymmetricDifference, Agreeing, Hash
<1>2. x = Bits \ y /\ y = Bits \cap y
  BY DEF SymmetricDifference, Agreeing, Hash
<1> HIDE DEF x, y
<1>3. IsFiniteSet(x) /\ IsFiniteSet(y)
  BY <1>1, BitsCount, FS_Subset
<1>4. Cardinality(x) = Cardinality(Bits) - Cardinality(Bits \cap y)
  BY <1>2, BitsCount, FS_Difference
<1>5. Cardinality(y) \in Nat
  BY <1>3, FS_CardinalityType
<1> QED
  BY <1>1, <1>2, <1>3, <1>4, <1>5, BitsCount DEF x, y

LEMMA HashAgreement ==
  ASSUME NEW a \in Hash, NEW b \in Hash
  PROVE  AgreeingBits(a, b, WORD_BITS) = Cardinality(Agreeing(a, b))
<1> DEFINE x == Cardinality(SymmetricDifference(a, b))
           y == Cardinality(Agreeing(a, b))
<1>1. x = WORD_BITS - y /\ y \in Nat /\ WORD_BITS \in Nat
  BY DifferenceCount, BitsCount
<1>2. AgreeingBits(a, b, WORD_BITS) = WORD_BITS - x
  BY DEF AgreeingBits
<1> HIDE DEF x, y
<1> QED
  BY <1>1, <1>2 DEF y

LEMMA PackedAgreement ==
  ASSUME NEW a \in Hash, NEW b \in Hash, NEW c \in Hash, NEW d \in Hash
  PROVE  AgreeingBits(Packed(a, b), Packed(c, d), 2 * WORD_BITS)
            = Cardinality(Agreeing(a, c)) + Cardinality(Agreeing(b, d))
<1> DEFINE low == SymmetricDifference(a, c)
           high == SymmetricDifference(b, d)
           raised == {bit + WORD_BITS : bit \in high}
<1>1. /\ IsFiniteSet(low) /\ low \subseteq Bits /\ IsFiniteSet(high) /\ high \subseteq Bits
      /\ Cardinality(Agreeing(a, c)) \in Nat /\ Cardinality(Agreeing(b, d)) \in Nat
      /\ Cardinality(low) = WORD_BITS - Cardinality(Agreeing(a, c))
      /\ Cardinality(high) = WORD_BITS - Cardinality(Agreeing(b, d))
  BY DifferenceCount
<1>2. /\ \A bit \in Bits : bit \in Int /\ 0 <= bit /\ bit < WORD_BITS
      /\ WORD_BITS \in Nat
  BY BitsCount DEF Bits
<1>3. SymmetricDifference(Packed(a, b), Packed(c, d)) = low \cup raised
  <2> DEFINE P == Packed(a, b)
             Q == Packed(c, d)
  <2>1. a \subseteq Bits /\ b \subseteq Bits /\ c \subseteq Bits /\ d \subseteq Bits
    BY DEF Hash
  <2>2. ASSUME NEW x \in Bits
        PROVE  /\ (x \in P <=> x \in a) /\ (x \in Q <=> x \in c)
               /\ (x \in low \cup raised <=> x \in low)
    BY <1>1, <1>2, <2>1 DEF Packed
  <2>3. ASSUME NEW x \in Bits
        PROVE  /\ (x + WORD_BITS \in P <=> x \in b) /\ (x + WORD_BITS \in Q <=> x \in d)
               /\ (x + WORD_BITS \in low \cup raised <=> x \in high)
    <3>1. \A y \in Bits : y + WORD_BITS = x + WORD_BITS => y = x
      BY <1>2
    <3>2. x + WORD_BITS \notin Bits
      BY <1>2
    <3> QED
      BY <1>1, <2>1, <3>1, <3>2 DEF Packed
  <2>4. ASSUME NEW x, x \in P \cup Q \cup low \cup raised
        PROVE  x \in Bits \/ \E y \in Bits : x = y + WORD_BITS
    BY <1>1, <2>1, <2>4 DEF Packed
  <2>5. \A x \in Bits : x \in low <=> (x \in a \/ x \in c) /\ ~(x \in a /\ x \in c)
    BY DEF SymmetricDifference
  <2>6. \A x \in Bits : x \in high <=> (x \in b \/ x \in d) /\ ~(x \in b /\ x \in d)
    BY DEF SymmetricDifference
  <2> HIDE DEF P, Q, low, high, raised
  <2>7. \A x : x \in (P \ Q) \cup (Q \ P) <=> x \in low \cup raised
    <3> SUFFICES ASSUME NEW x PROVE x \in (P \ Q) \cup (Q \ P) <=> x \in low \cup raised
      OBVIOUS
    <3>1. CASE x \in Bits
      BY <2>2, <2>5, <3>1
    <3>2. CASE \E y \in Bits : x = y + WORD_BITS
      BY <2>3, <2>6, <3>2
    <3>3. CASE x \notin P \cup Q \cup low \cup raised
      BY <3>3
    <3> QED
      BY <2>4, <3>1, <3>2, <3>3
  <2> QED
    BY <2>7 DEF SymmetricDifference, P, Q
<1>4. IsFiniteSet(raised) /\ Cardinality(raised) = Cardinality(high)
  <2> DEFINE f == [bit \in high |-> bit + WORD_BITS]
  <2>1. f \in [high -> raised] /\ \A t \in raised : \E bit \in high : f[bit] = t
    OBVIOUS
  <2>2. ASSUME NEW x \in high, NEW y \in high, f[x] = f[y] PROVE x = y
    BY <1>1, <1>2, <2>2
  <2> HIDE DEF f, high, raised
  <2> QED
    BY <1>1, <2>1, <2>2, SameCount
<1>5. low \cap raised = {}
  BY <1>1, <1>2
<1> HIDE DEF low, high, raised
<1>6. Cardinality(low \cup raised) = Cardinality(low) + Cardinality(high)
  BY <1>1, <1>4, <1>5, CountParts
<1>7. AgreeingBits(Packed(a, b), Packed(c, d), 2 * WORD_BITS)
         = 2 * WORD_BITS - Cardinality(low \cup raised)
  BY <1>3 DEF AgreeingBits
<1> DEFINE p == Cardinality(Agreeing(a, c))
           q == Cardinality(Agreeing(b, d))
           u == Cardinality(low)
           v == Cardinality(high)
           w == Cardinality(low \cup raised)
<1>8. p \in Nat /\ q \in Nat /\ u = WORD_BITS - p /\ v = WORD_BITS - q /\ w = u + v
  BY <1>1, <1>6
<1> HIDE DEF p, q, u, v, w
<1>9. 2 * WORD_BITS - w = p + q
  BY <1>2, <1>8
<1> QED
  BY <1>7, <1>9 DEF p, q, w

\* The bits that agree in the first n hashes of two sequences
PairsAgreeing(left, right, n) ==
  {kb \in (1 .. n) \X Bits : kb[2] \in left[kb[1]] <=> kb[2] \in right[kb[1]]}

LEMMA PairsCount ==
  ASSUME NEW left, NEW right, NEW n \in Nat
  PROVE  /\ IsFiniteSet(PairsAgreeing(left, right, n))
         /\ Cardinality(PairsAgreeing(left, right, n)) \in 0 .. n * WORD_BITS
<1>1. IsFiniteSet(1 .. n) /\ Cardinality(1 .. n) = n
  BY FS_Interval
<1>2. IsFiniteSet((1 .. n) \X Bits) /\ Cardinality((1 .. n) \X Bits) = n * WORD_BITS
  BY <1>1, BitsCount, FS_Product
<1>3. PairsAgreeing(left, right, n) \in SUBSET ((1 .. n) \X Bits)
  BY DEF PairsAgreeing
<1>4. /\ IsFiniteSet(PairsAgreeing(left, right, n))
      /\ Cardinality(PairsAgreeing(left, right, n)) <= n * WORD_BITS
  BY <1>2, <1>3, FS_Subset
<1>5. Cardinality(PairsAgreeing(left, right, n)) \in Nat
  BY <1>4, FS_CardinalityType
<1>6. n * WORD_BITS \in Nat
  BY BitsCount
<1> QED
  BY <1>4, <1>5, <1>6

LEMMA PairsNext ==
  ASSUME NEW left, NEW right, NEW n \in Nat,
         IsFiniteSet(Agreeing(left[n + 1], right[n + 1]))
  PROVE  Cardinality(PairsAgreeing(left, right, n + 1))
            = Cardinality(PairsAgreeing(left, right, n))
                + Cardinality(Agreeing(left[n + 1], right[n + 1]))
<1> DEFINE A == PairsAgreeing(left, right, n)
           G == Agreeing(left[n + 1], right[n + 1])
           B == {n + 1} \X G
<1>1. PairsAgreeing(left, right, n + 1) = A \cup B
  <2>1. \A k : k \in 1 .. n + 1 <=> k \in 1 .. n \/ k = n + 1
    OBVIOUS
  <2> QED
    BY <2>1 DEF PairsAgreeing, Agreeing
<1>2. A \cap B = {}
  <2>1. n + 1 \notin 1 .. n
    OBVIOUS
  <2> QED
    BY <2>1 DEF PairsAgreeing
<1>3. IsFiniteSet(A) /\ IsFiniteSet(G)
  BY PairsCount
<1>4. IsFiniteSet(B) /\ Cardinality(B) = Cardinality(G)
  <2> DEFINE f == [bit \in G |-> <<n + 1, bit>>]
  <2>1. /\ f \in [G -> B] /\ \A t \in B : \E bit \in G : f[bit] = t
        /\ \A x, y \in G : f[x] = f[y] => x = y
    OBVIOUS
  <2> HIDE DEF f, G, B
  <2> QED
    BY <1>3, <2>1, SameCount
<1> HIDE DEF A, B, G
<1>5. Cardinality(A \cup B) = Cardinality(A) + Cardinality(G)
  BY <1>2, <1>3, <1>4, CountParts
<1> QED
  BY <1>1, <1>5 DEF A, G

\* The loop over pairs of hashes and the odd one count every bit once.
LEMMA MatchingBitsCount ==
  ASSUME NEW left, NEW right, NEW n \in Nat,
         \A k \in 1 .. n : left[k] \in Hash /\ right[k] \in Hash
  PROVE  MatchingBits(left, right, n) = Cardinality(PairsAgreeing(left, right, n))
<1> DEFINE half == n \div 2
           Bit(k) == AgreeingBits(Packed(left[2 * k - 1], left[2 * k]),
                                  Packed(right[2 * k - 1], right[2 * k]), 2 * WORD_BITS)
           pairs == [k \in 1 .. half |-> Bit(k)]
           C(k) == Cardinality(PairsAgreeing(left, right, k))
           G(k) == Cardinality(Agreeing(left[k], right[k]))
<1>1. half \in Nat /\ 2 * half <= n /\ n <= 2 * half + 1 /\ (n % 2 = 1 <=> n = 2 * half + 1)
      /\ (n % 2 = 1 \/ n = 2 * half)
  OBVIOUS
<1>2. PICK g : /\ g[0] = 0 /\ SumTo(pairs, half) = g[half]
               /\ \A k \in 1 .. half : g[k] = g[k - 1] + pairs[k]
  <2> HIDE DEF half, pairs
  <2> QED
    BY <1>1, SumIs
<1>3. ASSUME NEW k \in Nat, k + 1 <= n
      PROVE  C(k + 1) = C(k) + G(k + 1) /\ left[k + 1] \in Hash /\ right[k + 1] \in Hash
  <2>1. k + 1 \in 1 .. n
    BY <1>3
  <2>2. left[k + 1] \in Hash /\ right[k + 1] \in Hash
    BY <2>1
  <2>3. IsFiniteSet(Agreeing(left[k + 1], right[k + 1]))
    BY <2>2, DifferenceCount
  <2> QED
    BY <2>2, <2>3, PairsNext
<1>4. \A k \in Nat : C(k) \in Nat
  BY PairsCount
<1> DEFINE S == {k \in Nat : k <= half => g[k] = C(2 * k)}
<1>5. 0 \in S
  <2>1. 2 * 0 = 0 /\ C(0) \in 0 .. 0 * WORD_BITS /\ 0 * WORD_BITS = 0
    BY PairsCount, BitsCount
  <2>2. C(0) = 0
    BY <2>1
  <2> QED
    BY <1>2, <2>1, <2>2
<1>6. ASSUME NEW k \in Nat, k \in S PROVE k + 1 \in S
  <2> SUFFICES ASSUME k + 1 <= half PROVE g[k + 1] = C(2 * (k + 1))
    OBVIOUS
  <2>1. g[k] = C(2 * k)
    BY <1>1, <1>6
  <2> DEFINE m == 2 * k
  <2>2. /\ m \in Nat /\ m + 1 \in Nat /\ m + 1 <= n /\ (m + 1) + 1 <= n
        /\ 2 * (k + 1) = (m + 1) + 1 /\ 2 * (k + 1) - 1 = m + 1
    BY <1>1
  <2>3. k + 1 \in 1 .. half /\ (k + 1) - 1 = k
    BY <1>1
  <2>4. g[k + 1] = g[k] + Bit(k + 1)
    BY <1>2, <2>3
  <2> HIDE DEF C, G, m
  <2>5. C(m + 1) = C(m) + G(m + 1) /\ left[m + 1] \in Hash /\ right[m + 1] \in Hash
    BY <1>3, <2>2
  <2>6. /\ C((m + 1) + 1) = C(m + 1) + G((m + 1) + 1)
        /\ left[(m + 1) + 1] \in Hash /\ right[(m + 1) + 1] \in Hash
    BY <1>3, <2>2
  <2>7. Bit(k + 1) = G(m + 1) + G((m + 1) + 1)
    <3>1. Bit(k + 1) = AgreeingBits(Packed(left[m + 1], left[(m + 1) + 1]),
                                    Packed(right[m + 1], right[(m + 1) + 1]), 2 * WORD_BITS)
      BY <2>2
    <3> QED
      BY <2>5, <2>6, <3>1, PackedAgreement DEF G
  <2>8. G(m + 1) \in Nat /\ G((m + 1) + 1) \in Nat /\ C(m) \in Nat
    BY <1>4, <2>2, <2>5, <2>6, DifferenceCount DEF G
  <2> QED
    BY <2>1, <2>2, <2>4, <2>5, <2>6, <2>7, <2>8 DEF m
<1> HIDE DEF S
<1>7. half \in S
  BY <1>1, <1>5, <1>6, NatInd
<1>8. SumTo(pairs, half) = C(2 * half)
  BY <1>1, <1>2, <1>7 DEF S
<1>9. MatchingBits(left, right, n)
         = SumTo(pairs, half)
             + (IF n % 2 = 1 THEN AgreeingBits(left[n], right[n], WORD_BITS) ELSE 0)
  BY DEF MatchingBits
<1> HIDE DEF pairs, half, C, G
<1>10. CASE n % 2 = 1
  <2> DEFINE m == 2 * half
  <2>1. m \in Nat /\ m + 1 <= n /\ n = m + 1
    BY <1>1, <1>10
  <2>2. C(m + 1) = C(m) + G(m + 1) /\ left[n] \in Hash /\ right[n] \in Hash
    BY <1>3, <2>1
  <2>3. AgreeingBits(left[n], right[n], WORD_BITS) = G(n)
    BY <2>2, HashAgreement DEF G
  <2> HIDE DEF m
  <2> QED
    BY <1>8, <1>9, <1>10, <2>1, <2>2, <2>3 DEF C, m
<1>11. CASE n % 2 # 1
  <2>1. n = 2 * half /\ C(n) \in Nat
    BY <1>1, <1>4, <1>11
  <2> QED
    BY <1>8, <1>9, <1>11, <2>1 DEF C
<1> QED
  BY <1>10, <1>11

-----------------------------------------------------------------------------
\* An alignment

FirstStart(o) == GreaterOf(o, 0)
SecondStart(o) == GreaterOf(-o, 0)
Count(f, s, o) ==
  IF FirstStart(o) >= Len(f) \/ SecondStart(o) >= Len(s) THEN 0
  ELSE LesserOf(Len(f) - FirstStart(o), Len(s) - SecondStart(o))

\* What lies over each other after the leading hashes are dropped
LEMMA OverlapIs ==
  ASSUME NEW f \in Seq(Hash), NEW s \in Seq(Hash), NEW o \in Int
  PROVE  /\ FirstStart(o) \in Nat /\ SecondStart(o) \in Nat /\ Count(f, s, o) \in Nat
         /\ FirstStart(o) - o = SecondStart(o)
         /\ Count(f, s, o) > 0 => /\ FirstStart(o) + Count(f, s, o) <= Len(f)
                                  /\ SecondStart(o) + Count(f, s, o) <= Len(s)
         /\ Overlap(f, s, o) = FirstStart(o) + 1 .. FirstStart(o) + Count(f, s, o)
<1>1. Len(f) \in Nat /\ Len(s) \in Nat
  OBVIOUS
<1>2. /\ FirstStart(o) = IF o > 0 THEN o ELSE 0
      /\ SecondStart(o) = IF -o > 0 THEN -o ELSE 0
  BY DEF FirstStart, SecondStart, GreaterOf
<1>3. FirstStart(o) \in Nat /\ SecondStart(o) \in Nat /\ FirstStart(o) - o = SecondStart(o)
  BY <1>2
<1>4. /\ Count(f, s, o) \in Nat
      /\ Count(f, s, o) > 0 => /\ FirstStart(o) + Count(f, s, o) <= Len(f)
                               /\ SecondStart(o) + Count(f, s, o) <= Len(s)
  BY <1>1, <1>3 DEF Count, LesserOf
<1>5. ASSUME NEW i
      PROVE  i \in Overlap(f, s, o) <=> i \in FirstStart(o) + 1 .. FirstStart(o) + Count(f, s, o)
  <2> DEFINE n == Len(f)
             m == Len(s)
             a == FirstStart(o)
             b == SecondStart(o)
  <2>1. i \in Overlap(f, s, o) <=> i \in 1 .. n /\ i - o \in 1 .. m
    BY DEF Overlap
  <2>2. Count(f, s, o) = IF a >= n \/ b >= m THEN 0 ELSE IF n - a < m - b THEN n - a ELSE m - b
    BY DEF Count, LesserOf
  <2>3. n \in Nat /\ m \in Nat /\ a = (IF o > 0 THEN o ELSE 0) /\ b = (IF -o > 0 THEN -o ELSE 0)
    BY <1>1, <1>2
  <2> HIDE DEF n, m, a, b
  <2>4. CASE i \in Int
    <3>1. CASE o > 0
      BY <2>1, <2>2, <2>3, <2>4, <3>1 DEF a
    <3>2. CASE ~(o > 0)
      BY <2>1, <2>2, <2>3, <2>4, <3>2 DEF a
    <3> QED
      BY <3>1, <3>2
  <2>5. CASE i \notin Int
    BY <2>1, <2>2, <2>3, <2>5 DEF a
  <2> QED
    BY <2>4, <2>5
<1> QED
  BY <1>3, <1>4, <1>5

LEMMA OverlapCount ==
  ASSUME NEW f \in Seq(Hash), NEW s \in Seq(Hash), NEW o \in Int
  PROVE  /\ IsFiniteSet(Overlap(f, s, o))
         /\ Cardinality(Overlap(f, s, o)) = Count(f, s, o)
<1> DEFINE a == FirstStart(o)
           c == Count(f, s, o)
<1>1. a \in Nat /\ c \in Nat /\ Overlap(f, s, o) = a + 1 .. a + c
  BY OverlapIs
<1> HIDE DEF a, c
<1>2. a + 1 \in Int /\ a + c \in Int
  BY <1>1
<1>3. IsFiniteSet(a + 1 .. a + c)
      /\ Cardinality(a + 1 .. a + c) = IF a + 1 > a + c THEN 0 ELSE (a + c) - (a + 1) + 1
  BY <1>2, FS_Interval
<1>4. Cardinality(a + 1 .. a + c) = c
  BY <1>1, <1>3
<1> QED
  BY <1>1, <1>3, <1>4 DEF c

\* The pairs of a comparison as positions in the two sequences, and back
AgreeingAt(f, s, o) ==
  {ib \in Overlap(f, s, o) \X Bits : ib[2] \in f[ib[1]] <=> ib[2] \in s[ib[1] - o]}

LEMMA AgreementPairs ==
  ASSUME NEW f \in Seq(Hash), NEW s \in Seq(Hash), NEW o \in Int
  PROVE  /\ IsFiniteSet(AgreeingAt(f, s, o))
         /\ Cardinality(AgreeingAt(f, s, o))
               = Cardinality(PairsAgreeing(Dropped(f, FirstStart(o)), Dropped(s, SecondStart(o)),
                                           Count(f, s, o)))
<1> DEFINE a == FirstStart(o)
           b == SecondStart(o)
           n == Count(f, s, o)
           left == Dropped(f, a)
           right == Dropped(s, b)
           P == PairsAgreeing(left, right, n)
           Q == AgreeingAt(f, s, o)
           g == [kb \in P |-> <<a + kb[1], kb[2]>>]
<1>1. /\ a \in Nat /\ b \in Nat /\ n \in Nat /\ a - o = b
      /\ Overlap(f, s, o) = a + 1 .. a + n
      /\ n > 0 => a + n <= Len(f) /\ b + n <= Len(s)
  BY OverlapIs
<1>2. ASSUME NEW k \in 1 .. n
      PROVE  left[k] = f[a + k] /\ right[k] = s[(a + k) - o] /\ a + k \in Overlap(f, s, o)
  <2>1. /\ k \in Nat /\ 1 <= k /\ k <= n /\ Len(f) \in Nat /\ Len(s) \in Nat
        /\ a + n <= Len(f) /\ b + n <= Len(s)
    BY <1>1
  <2> HIDE DEF a, b, n
  <2>2. left[k] = f[a + k]
    <3>1. left = [i \in 1 .. Len(f) - a |-> f[a + i]]
      <4>1. SubSeq(f, a + 1, Len(f)) = [i \in 1 .. Len(f) - a |-> f[a + i]]
        BY <1>1, <2>1, Slice
      <4> QED
        BY <4>1 DEF Dropped
    <3>2. k \in 1 .. Len(f) - a
      BY <1>1, <2>1
    <3> HIDE DEF left
    <3> QED
      BY <3>1, <3>2
  <2>3. right[k] = s[b + k]
    <3>1. right = [i \in 1 .. Len(s) - b |-> s[b + i]]
      <4>1. SubSeq(s, b + 1, Len(s)) = [i \in 1 .. Len(s) - b |-> s[b + i]]
        BY <1>1, <2>1, Slice
      <4> QED
        BY <4>1 DEF Dropped
    <3>2. k \in 1 .. Len(s) - b
      BY <1>1, <2>1
    <3> HIDE DEF right
    <3> QED
      BY <3>1, <3>2
  <2>4. (a + k) - o = b + k /\ a + k \in a + 1 .. a + n
    BY <1>1, <2>1
  <2> QED
    BY <1>1, <2>2, <2>3, <2>4
<1>3. IsFiniteSet(P)
  BY <1>1, PairsCount
<1> HIDE DEF a, b, n, left, right
<1>4. ASSUME NEW k \in 1 .. n, NEW bit \in Bits
      PROVE  <<k, bit>> \in P <=> <<a + k, bit>> \in Q
  BY <1>2, <1>4 DEF PairsAgreeing, AgreeingAt
<1>5. ASSUME NEW p \in P PROVE p \in (1 .. n) \X Bits /\ p = <<p[1], p[2]>> /\ g[p] \in Q
  <2>1. p \in (1 .. n) \X Bits
    BY DEF PairsAgreeing
  <2>2. p[1] \in 1 .. n /\ p[2] \in Bits /\ p = <<p[1], p[2]>>
    BY <2>1
  <2> QED
    BY <1>4, <2>1, <2>2
<1>6. ASSUME NEW q \in Q PROVE \E p \in P : g[p] = q
  <2>1. q \in Overlap(f, s, o) \X Bits
    BY DEF AgreeingAt
  <2>2. q[1] \in a + 1 .. a + n /\ q[2] \in Bits /\ q = <<q[1], q[2]>>
    BY <1>1, <2>1
  <2> DEFINE k == q[1] - a
  <2>3. k \in 1 .. n /\ a + k = q[1]
    BY <1>1, <2>2
  <2> HIDE DEF k
  <2>4. <<k, q[2]>> \in P
    BY <1>4, <2>2, <2>3
  <2>5. g[<<k, q[2]>>] = <<a + k, q[2]>>
    BY <2>4
  <2> QED
    BY <2>2, <2>3, <2>4, <2>5
<1>7. ASSUME NEW x \in P, NEW y \in P, g[x] = g[y] PROVE x = y
  <2>1. x \in (1 .. n) \X Bits /\ y \in (1 .. n) \X Bits
    BY <1>5
  <2>2. a + x[1] = a + y[1] /\ x[2] = y[2]
    BY <1>7
  <2>3. x[1] \in Nat /\ y[1] \in Nat /\ x = <<x[1], x[2]>> /\ y = <<y[1], y[2]>>
    BY <1>1, <2>1
  <2> QED
    BY <1>1, <2>2, <2>3
<1>8. g \in [P -> Q]
  BY <1>5
<1> HIDE DEF g, P, Q
<1>9. IsFiniteSet(Q) /\ Cardinality(Q) = Cardinality(P)
  BY <1>3, <1>6, <1>7, <1>8, SameCount
<1> QED
  BY <1>9 DEF P, Q, left, right, a, b, n

\* The code's comparison is what it means, pair by pair and bit by bit.
LEMMA ComparisonIsAgreement ==
  ASSUME NEW f \in Seq(Hash), NEW s \in Seq(Hash), NEW o \in Int
  PROVE  ComparisonAt(f, s, o) = Agreement(f, s, o)
<1> DEFINE a == FirstStart(o)
           b == SecondStart(o)
           n == Count(f, s, o)
           left == Dropped(f, a)
           right == Dropped(s, b)
<1>1. /\ a \in Nat /\ b \in Nat /\ n \in Nat
      /\ n > 0 => a + n <= Len(f) /\ b + n <= Len(s)
  BY OverlapIs
<1>2. ASSUME NEW k \in 1 .. n PROVE left[k] \in Hash /\ right[k] \in Hash
  <2>1. /\ k \in Nat /\ 1 <= k /\ k <= n /\ Len(f) \in Nat /\ Len(s) \in Nat
        /\ a + n <= Len(f) /\ b + n <= Len(s)
    BY <1>1
  <2> HIDE DEF a, b, n
  <2>2. a + k \in 1 .. Len(f) /\ b + k \in 1 .. Len(s)
    BY <1>1, <2>1
  <2>3. SubSeq(f, a + 1, Len(f)) = [i \in 1 .. Len(f) - a |-> f[a + i]]
    BY <1>1, <2>1, Slice
  <2>4. SubSeq(s, b + 1, Len(s)) = [i \in 1 .. Len(s) - b |-> s[b + i]]
    BY <1>1, <2>1, Slice
  <2>5. k \in 1 .. Len(f) - a /\ k \in 1 .. Len(s) - b
    BY <1>1, <2>1
  <2>6. left[k] = f[a + k] /\ right[k] = s[b + k]
    BY <2>3, <2>4, <2>5 DEF Dropped
  <2>7. f[a + k] \in Hash /\ s[b + k] \in Hash
    <3> HIDE DEF Hash
    <3> QED
      BY <2>2
  <2> QED
    BY <2>6, <2>7
<1>3. MatchingBits(left, right, n) = Cardinality(PairsAgreeing(left, right, n))
  <2> HIDE DEF a, b, n, left, right
  <2> QED
    BY <1>1, <1>2, MatchingBitsCount
<1>4. ComparisonAt(f, s, o) = Comparison(o, n, MatchingBits(left, right, n))
  BY DEF ComparisonAt, FirstStart, SecondStart, Count
<1>5. Agreement(f, s, o)
         = Comparison(o, Cardinality(Overlap(f, s, o)), Cardinality(AgreeingAt(f, s, o)))
  BY DEF Agreement, AgreeingAt
<1> QED
  BY <1>3, <1>4, <1>5, OverlapCount, AgreementPairs

\* The number of hashes compared at an alignment, and of bits that agree
LEMMA AgreementType ==
  ASSUME NEW f \in Seq(Hash), NEW s \in Seq(Hash), NEW o \in Int
  PROVE  LET c == Agreement(f, s, o)
         IN  /\ c.best_offset = o
             /\ c.compared_hashes = Cardinality(Overlap(f, s, o))
             /\ c.compared_hashes \in Nat
             /\ c.matching_bits = Cardinality(AgreeingAt(f, s, o))
             /\ c.matching_bits \in 0 .. c.compared_hashes * WORD_BITS
             /\ c.score = Score(c.matching_bits, c.compared_hashes)
<1> DEFINE n == Count(f, s, o)
           m == Cardinality(AgreeingAt(f, s, o))
<1>1. n \in Nat /\ Cardinality(Overlap(f, s, o)) = n
  BY OverlapIs, OverlapCount
<1>2. m \in 0 .. n * WORD_BITS
  BY <1>1, AgreementPairs, PairsCount
<1>3. Agreement(f, s, o) = Comparison(o, n, m)
  BY <1>1 DEF Agreement, AgreeingAt
<1> HIDE DEF n, m
<1> QED
  BY <1>1, <1>2, <1>3 DEF Comparison, n, m

-----------------------------------------------------------------------------
\* A score is the nearest f32, and rounding keeps the order of fractions.

LEMMA Cancel ==
  ASSUME NEW a \in Nat, NEW b \in Nat, NEW d \in Nat \ {0}, a * d <= b * d
  PROVE  a <= b
<1> SUFFICES ASSUME b + 1 <= a PROVE FALSE
  OBVIOUS
<1>1. (b + 1) * d <= a * d /\ (b + 1) * d = b * d + d
  BY ProductMonotone
<1>2. a * d \in Nat /\ b * d \in Nat
  OBVIOUS
<1> QED
  BY <1>1, <1>2

\* The result is at most half from the quotient, and even when it is just half.
LEMMA Nearest ==
  ASSUME NEW x \in Nat, NEW y \in Nat \ {0}
  PROVE  /\ RoundHalfEven(x, y) \in Nat
         /\ 2 * (RoundHalfEven(x, y) * y) <= 2 * x + y
         /\ 2 * x <= 2 * (RoundHalfEven(x, y) * y) + y
         /\ 2 * (RoundHalfEven(x, y) * y) = 2 * x + y => RoundHalfEven(x, y) % 2 = 0
         /\ 2 * x = 2 * (RoundHalfEven(x, y) * y) + y => RoundHalfEven(x, y) % 2 = 0
<1> DEFINE q == x \div y
           r == x % y
           p == q * y
           h == RoundHalfEven(x, y)
<1>1. q \in Nat /\ p \in Nat /\ r \in Nat /\ r < y /\ x = p + r
  <2>1. q \in Nat
    BY DivBounds
  <2>2. x = (x \div y) * y + (x % y) /\ x % y \in 0 .. y - 1
    OBVIOUS
  <2> QED
    BY <2>1, <2>2
<1>2. h = IF 2 * r > y \/ (2 * r = y /\ q % 2 = 1) THEN q + 1 ELSE q
  BY DEF RoundHalfEven
<1> HIDE DEF h
<1>3. (q + 1) * y = p + y
  BY <1>1
<1>4. CASE 2 * r > y \/ (2 * r = y /\ q % 2 = 1)
  <2>1. h = q + 1 /\ h * y = p + y
    BY <1>2, <1>3, <1>4
  <2>2. h \in Nat /\ 2 * (h * y) <= 2 * x + y /\ 2 * x < 2 * (h * y) + y
    <3> HIDE DEF p, q, r
    <3> QED
      BY <1>1, <1>4, <2>1
  <2>3. 2 * (h * y) = 2 * x + y => q % 2 = 1
    <3> DEFINE odd == q % 2 = 1
    <3>1. 2 * r > y \/ (2 * r = y /\ odd)
      BY <1>4
    <3> HIDE DEF p, q, r, odd
    <3>2. 2 * (h * y) = 2 * x + y => odd
      BY <1>1, <2>1, <3>1
    <3> QED
      BY <3>2 DEF odd
  <2>4. q % 2 = 1 => h % 2 = 0
    <3> HIDE DEF q
    <3> QED
      BY <1>1, <2>1
  <2>5. ~(2 * x = 2 * (h * y) + y)
    <3> HIDE DEF p, q, r
    <3> QED
      BY <1>1, <2>1, <2>2
  <2> QED
    BY <2>2, <2>3, <2>4, <2>5 DEF h
<1>5. CASE ~(2 * r > y \/ (2 * r = y /\ q % 2 = 1))
  <2>1. h = q /\ h * y = p
    BY <1>2, <1>5
  <2>2. h \in Nat /\ 2 * (h * y) <= 2 * x + y /\ 2 * x <= 2 * (h * y) + y
    <3> HIDE DEF p, q, r
    <3> QED
      BY <1>1, <1>5, <2>1
  <2>3. 2 * x = 2 * (h * y) + y => 2 * r = y
    <3> HIDE DEF p, q, r
    <3> QED
      BY <1>1, <2>1
  <2>4. 2 * r = y => h % 2 = 0
    <3> HIDE DEF p, r
    <3>1. q % 2 \in {0, 1}
      BY <1>1
    <3> QED
      BY <1>5, <2>1, <3>1
  <2>5. ~(2 * (h * y) = 2 * x + y)
    <3> HIDE DEF p, q, r
    <3> QED
      BY <1>1, <2>1
  <2> QED
    BY <2>2, <2>3, <2>4, <2>5 DEF h
<1> QED
  BY <1>4, <1>5

\* A greater fraction is not rounded to a smaller number.
LEMMA NearestMonotone ==
  ASSUME NEW a \in Nat, NEW b \in Nat \ {0}, NEW c \in Nat, NEW d \in Nat \ {0},
         c * b <= a * d
  PROVE  RoundHalfEven(c, d) <= RoundHalfEven(a, b)
<1> DEFINE p == RoundHalfEven(a, b)
           q == RoundHalfEven(c, d)
           B == b * d
           A == a * d
           C == c * b
<1>1. /\ p \in Nat /\ 2 * a <= 2 * (p * b) + b
      /\ 2 * a = 2 * (p * b) + b => p % 2 = 0
  BY Nearest
<1>2. /\ q \in Nat /\ 2 * (q * d) <= 2 * c + d
      /\ 2 * (q * d) = 2 * c + d => q % 2 = 0
  BY Nearest
<1> SUFFICES ASSUME p + 1 <= q PROVE FALSE
  BY <1>1, <1>2
<1> HIDE DEF p, q
<1>3. 2 * A <= (2 * p + 1) * B
  <2> DEFINE u == 2 * a
             v == 2 * (p * b) + b
  <2>1. u \in Nat /\ v \in Nat /\ u <= v
    BY <1>1
  <2>2. u * d = 2 * A /\ v * d = (2 * p + 1) * B
    BY <1>1
  <2> HIDE DEF u, v, A, B
  <2> QED
    BY <2>1, <2>2, ProductMonotone
<1>4. (2 * q - 1) * B <= 2 * C
  <2> DEFINE u == 2 * (q * d)
             v == 2 * c + d
  <2>1. u \in Nat /\ v \in Nat /\ u <= v
    BY <1>2
  <2>2. u * b = 2 * (q * B) /\ v * b = 2 * C + B /\ (2 * q - 1) * B = 2 * (q * B) - B
    BY <1>2
  <2>3. B \in Nat /\ C \in Nat /\ q * B \in Nat
    BY <1>2
  <2> HIDE DEF u, v, C, B
  <2>4. u * b <= v * b
    BY <2>1, ProductMonotone
  <2> QED
    BY <2>2, <2>3, <2>4
<1>5. A \in Nat /\ B \in Nat /\ C \in Nat /\ C <= A /\ B > 0
  OBVIOUS
<1> HIDE DEF A, B, C
<1>6. (2 * p + 1) * B <= (2 * q - 1) * B
  <2>1. 2 * p + 1 \in Nat /\ 2 * q - 1 \in Nat /\ 2 * p + 1 <= 2 * q - 1
    BY <1>1, <1>2
  <2> QED
    BY <1>5, <2>1, ProductMonotone
<1>7. (2 * p + 1) * B \in Nat /\ (2 * q - 1) * B \in Nat
  BY <1>1, <1>2, <1>5
<1>8. 2 * A = (2 * p + 1) * B /\ (2 * q - 1) * B = 2 * C /\ (2 * q - 1) * B = (2 * p + 1) * B
  BY <1>3, <1>4, <1>5, <1>6, <1>7
<1>9. q = p + 1
  <2> DEFINE u == 2 * q - 1
             v == 2 * p + 1
  <2>1. u \in Nat /\ v \in Nat /\ u * B <= v * B /\ B \in Nat \ {0}
    BY <1>1, <1>2, <1>5, <1>7, <1>8
  <2> HIDE DEF u, v
  <2>2. u <= v
    BY <2>1, Cancel
  <2> QED
    BY <1>1, <1>2, <2>2 DEF u, v
<1>10. 2 * a = 2 * (p * b) + b
  <2> DEFINE u == 2 * a
             v == 2 * (p * b) + b
  <2>1. u \in Nat /\ v \in Nat /\ u <= v
    BY <1>1
  <2>2. u * d = v * d
    BY <1>1, <1>8 DEF A, B
  <2> HIDE DEF u, v
  <2>3. v <= u
    BY <2>1, <2>2, Cancel
  <2> QED
    BY <2>1, <2>3 DEF u, v
<1>11. 2 * (q * d) = 2 * c + d
  <2> DEFINE u == 2 * (q * d)
             v == 2 * c + d
  <2>1. u \in Nat /\ v \in Nat /\ u <= v
    BY <1>2
  <2>2. u * b = v * b
    <3>1. u * b = 2 * (q * B) /\ v * b = 2 * C + B /\ (2 * q - 1) * B = 2 * (q * B) - B
      BY <1>2 DEF B, C
    <3>2. q * B \in Nat
      BY <1>2, <1>5
    <3> HIDE DEF u, v
    <3> QED
      BY <1>5, <1>8, <3>1, <3>2
  <2> HIDE DEF u, v
  <2>3. v <= u
    BY <2>1, <2>2, Cancel
  <2> QED
    BY <2>1, <2>3 DEF u, v
<1>12. p % 2 = 0 /\ q % 2 = 0
  BY <1>1, <1>2, <1>10, <1>11
<1> QED
  BY <1>1, <1>9, <1>12

LEMMA NearestExact ==
  ASSUME NEW k \in Nat, NEW y \in Nat \ {0}
  PROVE  RoundHalfEven(k * y, y) = k
<1> DEFINE q == RoundHalfEven(k * y, y)
           u == k * y
<1>1. u \in Nat
  OBVIOUS
<1>2. q \in Nat /\ 2 * (q * y) <= 2 * u + y /\ 2 * u <= 2 * (q * y) + y
  <2> HIDE DEF u
  <2> QED
    BY <1>1, Nearest DEF u
<1> HIDE DEF q
<1>3. CASE q >= k + 1
  <2>1. (k + 1) * y <= q * y /\ (k + 1) * y = u + y /\ q * y \in Nat
    BY <1>2, <1>3, ProductMonotone
  <2> HIDE DEF u
  <2> QED
    BY <1>1, <1>2, <2>1
<1>4. CASE k >= q + 1
  <2>1. (q + 1) * y <= u /\ (q + 1) * y = q * y + y /\ q * y \in Nat
    BY <1>2, <1>4, ProductMonotone
  <2> HIDE DEF u
  <2> QED
    BY <1>1, <1>2, <2>1
<1> QED
  BY <1>2, <1>3, <1>4 DEF q

LEMMA NearestBounds ==
  ASSUME NEW x \in Nat, NEW y \in Nat \ {0}, NEW k \in Nat
  PROVE  /\ k * y <= x => k <= RoundHalfEven(x, y)
         /\ x <= k * y => RoundHalfEven(x, y) <= k
<1> DEFINE u == k * y
<1>1. u \in Nat /\ RoundHalfEven(u, y) = k
  BY NearestExact
<1> HIDE DEF u
<1>2. ASSUME u <= x PROVE k <= RoundHalfEven(x, y)
  <2>1. u * y <= x * y
    BY <1>1, <1>2, ProductMonotone
  <2> QED
    BY <1>1, <2>1, NearestMonotone
<1>3. ASSUME x <= u PROVE RoundHalfEven(x, y) <= k
  <2>1. x * y <= u * y
    BY <1>1, <1>3, ProductMonotone
  <2> QED
    BY <1>1, <2>1, NearestMonotone
<1> QED
  BY <1>2, <1>3 DEF u

-----------------------------------------------------------------------------
\* Scores in order

Digits == Pow(F32_DIGITS)
HalfDigits == Pow(F32_DIGITS - 1)

LEMMA DigitsType ==
  /\ F32_DIGITS \in Nat /\ F32_DIGITS >= 1 /\ F32_DIGITS - 1 \in Nat
  /\ HalfDigits \in Nat /\ HalfDigits > 0 /\ Digits = 2 * HalfDigits
<1>1. F32_DIGITS \in Nat /\ F32_DIGITS >= 1 /\ F32_DIGITS - 1 \in Nat
  BY HashComparisonAssumption
<1>2. Pow((F32_DIGITS - 1) + 1) = 2 * HalfDigits /\ HalfDigits \in Nat /\ HalfDigits > 0
  BY <1>1, PowFacts DEF HalfDigits
<1>3. (F32_DIGITS - 1) + 1 = F32_DIGITS
  BY <1>1
<1> QED
  BY <1>1, <1>2, <1>3 DEF Digits

Scores == [mantissa : Nat, exponent : Nat]
NoScore == [mantissa |-> 0, exponent |-> 0]

\* A score in the form in which f32 has it
Normal(s) ==
  /\ s \in Scores
  /\ s = NoScore \/ (HalfDigits <= s.mantissa /\ s.mantissa < Digits)

LEMMA HigherIs ==
  ASSUME NEW a, NEW b
  PROVE  Higher(a, b) <=> a.mantissa * Pow(b.exponent) > b.mantissa * Pow(a.exponent)
  BY DEF Higher, Pow

LEMMA HigherOrder ==
  ASSUME NEW a \in Scores, NEW b \in Scores, NEW c \in Scores
  PROVE  /\ ~Higher(a, a)
         /\ Higher(a, b) => ~Higher(b, a)
         /\ ~Higher(a, b) /\ ~Higher(b, c) => ~Higher(a, c)
<1> DEFINE ma == a.mantissa
           mb == b.mantissa
           mc == c.mantissa
           A == Pow(a.exponent)
           B == Pow(b.exponent)
           C == Pow(c.exponent)
<1>1. /\ ma \in Nat /\ mb \in Nat /\ mc \in Nat
      /\ A \in Nat \ {0} /\ B \in Nat \ {0} /\ C \in Nat \ {0}
  <2>1. /\ a.exponent \in Nat /\ b.exponent \in Nat /\ c.exponent \in Nat
        /\ ma \in Nat /\ mb \in Nat /\ mc \in Nat
    BY DEF Scores
  <2> QED
    BY <2>1, PowFacts
<1>2. /\ Higher(a, a) <=> ma * A > ma * A
      /\ Higher(a, b) <=> ma * B > mb * A
      /\ Higher(b, a) <=> mb * A > ma * B
      /\ Higher(b, c) <=> mb * C > mc * B
      /\ Higher(a, c) <=> ma * C > mc * A
  BY HigherIs
<1> HIDE DEF ma, mb, mc, A, B, C
<1>3. /\ ma * A \in Nat /\ ma * B \in Nat /\ mb * A \in Nat
      /\ mb * C \in Nat /\ mc * B \in Nat /\ ma * C \in Nat /\ mc * A \in Nat
  BY <1>1
<1>4. ASSUME ma * B <= mb * A, mb * C <= mc * B PROVE ma * C <= mc * A
  <2>1. (ma * B) * C <= (mb * A) * C
    BY <1>1, <1>3, <1>4, ProductMonotone
  <2>2. (mb * C) * A <= (mc * B) * A
    BY <1>1, <1>3, <1>4, ProductMonotone
  <2>3. /\ (ma * B) * C = (ma * C) * B /\ (mb * A) * C = (mb * C) * A
        /\ (mc * B) * A = (mc * A) * B
    BY <1>1
  <2>4. (ma * C) * B \in Nat /\ (mb * C) * A \in Nat /\ (mc * A) * B \in Nat
    BY <1>1, <1>3
  <2>5. (ma * C) * B <= (mc * A) * B
    BY <2>1, <2>2, <2>3, <2>4
  <2> QED
    BY <1>1, <1>3, <2>5, Cancel
<1> QED
  BY <1>2, <1>3, <1>4

\* No two numbers of that form are the same f32.
LEMMA SameScore ==
  ASSUME NEW a, NEW b, Normal(a), Normal(b), ~Higher(a, b), ~Higher(b, a)
  PROVE  a = b
<1> DEFINE ma == a.mantissa
           mb == b.mantissa
           ea == a.exponent
           eb == b.exponent
<1>1. /\ ma \in Nat /\ mb \in Nat /\ ea \in Nat /\ eb \in Nat
      /\ a = [mantissa |-> ma, exponent |-> ea] /\ b = [mantissa |-> mb, exponent |-> eb]
      /\ (ma = 0 /\ ea = 0) \/ (HalfDigits <= ma /\ ma < Digits)
      /\ (mb = 0 /\ eb = 0) \/ (HalfDigits <= mb /\ mb < Digits)
  BY DEF Normal, Scores, NoScore
<1>2. ma * Pow(eb) = mb * Pow(ea)
  <2>1. ~(ma * Pow(eb) > mb * Pow(ea)) /\ ~(mb * Pow(ea) > ma * Pow(eb))
    BY HigherIs
  <2>2. Pow(ea) \in Nat /\ Pow(eb) \in Nat
    BY <1>1, PowFacts
  <2>3. ma * Pow(eb) \in Nat /\ mb * Pow(ea) \in Nat
    BY <1>1, <2>2
  <2> QED
    BY <2>1, <2>3
<1>3. Pow(ea) \in Nat \ {0} /\ Pow(eb) \in Nat \ {0}
  BY <1>1, PowFacts
<1> HIDE DEF ma, mb, ea, eb
<1>4. ASSUME NEW m \in Nat, NEW n \in Nat, NEW e \in Nat, NEW d \in Nat, e < d,
             HalfDigits <= m, n < Digits
      PROVE  m * Pow(d) > n * Pow(e)
  <2>1. Pow(e) \in Nat \ {0} /\ Pow(d) \in Nat /\ Pow(e + 1) = 2 * Pow(e) /\ e + 1 \in Nat
    BY PowFacts
  <2>2. 2 * Pow(e) <= Pow(d)
    BY <1>4, <2>1, PowMonotone
  <2>3. (2 * Pow(e)) * m <= Pow(d) * m
    BY <2>1, <2>2, ProductMonotone
  <2>4. HalfDigits * (2 * Pow(e)) <= m * (2 * Pow(e))
    BY <1>4, <2>1, DigitsType, ProductMonotone
  <2>5. HalfDigits * (2 * Pow(e)) = Digits * Pow(e) /\ Digits \in Nat
    BY <2>1, DigitsType
  <2>6. (n + 1) * Pow(e) <= Digits * Pow(e) /\ (n + 1) * Pow(e) = n * Pow(e) + Pow(e)
    BY <1>4, <2>1, <2>5, ProductMonotone
  <2>7. /\ (2 * Pow(e)) * m = m * (2 * Pow(e)) /\ Pow(d) * m = m * Pow(d)
        /\ n * Pow(e) \in Nat /\ m * Pow(d) \in Nat /\ m * (2 * Pow(e)) \in Nat
        /\ Digits * Pow(e) \in Nat
    BY <2>1, <2>5
  <2> QED
    BY <2>1, <2>3, <2>4, <2>5, <2>6, <2>7
<1>5. CASE ma = 0
  <2>1. mb * Pow(ea) = 0
    BY <1>2, <1>3, <1>5
  <2>2. mb = 0
    BY <1>1, <1>3, <2>1
  <2>3. ea = 0 /\ eb = 0
    BY <1>1, <1>5, <2>2, DigitsType
  <2> QED
    BY <1>1, <1>5, <2>2, <2>3
<1>6. CASE mb = 0
  <2>1. ma * Pow(eb) = 0
    BY <1>2, <1>3, <1>6
  <2>2. ma = 0
    BY <1>1, <1>3, <2>1
  <2> QED
    BY <1>5, <2>2
<1>7. CASE ma # 0 /\ mb # 0
  <2>1. HalfDigits <= ma /\ ma < Digits /\ HalfDigits <= mb /\ mb < Digits
    BY <1>1, <1>7
  <2>2. ~(ea < eb)
    <3> SUFFICES ASSUME ea < eb PROVE FALSE
      OBVIOUS
    <3>1. ma * Pow(eb) > mb * Pow(ea)
      BY <1>1, <1>4, <2>1
    <3>2. ma * Pow(eb) \in Nat
      BY <1>1, <1>3
    <3> QED
      BY <1>2, <3>1, <3>2
  <2>3. ~(eb < ea)
    <3> SUFFICES ASSUME eb < ea PROVE FALSE
      OBVIOUS
    <3>1. mb * Pow(ea) > ma * Pow(eb)
      BY <1>1, <1>4, <2>1
    <3>2. ma * Pow(eb) \in Nat
      BY <1>1, <1>3
    <3> QED
      BY <1>2, <3>1, <3>2
  <2>4. ea = eb
    BY <1>1, <2>2, <2>3
  <2>5. ma <= mb /\ mb <= ma
    <3>1. ma * Pow(ea) = mb * Pow(ea) /\ ma * Pow(ea) \in Nat
      BY <1>1, <1>2, <1>3, <2>4
    <3> QED
      BY <1>1, <1>3, <3>1, Cancel
  <2> QED
    BY <1>1, <2>4, <2>5
<1> QED
  BY <1>5, <1>6, <1>7

\* The power of two that brings x / y to one half or above
Leading(x, y) == CHOOSE e \in 0 .. y : x * 2^e >= y /\ \A d \in 0 .. e - 1 : x * 2^d < y

LEMMA LeadingIs ==
  ASSUME NEW x \in Nat \ {0}, NEW y \in Nat \ {0}
  PROVE  /\ Leading(x, y) \in Nat /\ x * Pow(Leading(x, y)) >= y
         /\ \A d \in Nat : d < Leading(x, y) => x * Pow(d) < y
<1> DEFINE T == {e \in Nat : x * Pow(e) >= y}
<1>1. y \in T
  <2>1. y < Pow(y) /\ Pow(y) \in Nat
    BY PowExceeds, PowFacts
  <2>2. 1 * Pow(y) <= x * Pow(y) /\ x * Pow(y) \in Nat
    BY <2>1, ProductMonotone
  <2> QED
    BY <2>1, <2>2
<1>2. PICK e \in T : \A d \in T : e <= d
  <2>1. T \subseteq Nat /\ T # {}
    BY <1>1
  <2> HIDE DEF T
  <2> QED
    BY <2>1, LeastElement
<1>3. e \in 0 .. y /\ x * Pow(e) >= y
  BY <1>1, <1>2
<1>4. \A d \in 0 .. e - 1 : x * Pow(d) < y
  <2> SUFFICES ASSUME NEW d \in 0 .. e - 1 PROVE x * Pow(d) < y
    OBVIOUS
  <2>1. d \in Nat /\ d \notin T
    BY <1>2, <1>3
  <2>2. Pow(d) \in Nat
    BY <2>1, PowFacts
  <2>3. x * Pow(d) \in Nat /\ ~(x * Pow(d) >= y)
    BY <2>1, <2>2
  <2> QED
    BY <2>3
<1>5. \E i \in 0 .. y : x * 2^i >= y /\ \A d \in 0 .. i - 1 : x * 2^d < y
  BY <1>3, <1>4 DEF Pow
<1>6. /\ Leading(x, y) \in 0 .. y /\ x * 2^Leading(x, y) >= y
      /\ \A d \in 0 .. Leading(x, y) - 1 : x * 2^d < y
  <2> DEFINE P(i) == x * 2^i >= y /\ \A d \in 0 .. i - 1 : x * 2^d < y
  <2>1. \E i \in 0 .. y : P(i)
    BY <1>5
  <2>2. Leading(x, y) = CHOOSE i \in 0 .. y : P(i)
    BY DEF Leading
  <2> HIDE DEF P
  <2>3. Leading(x, y) \in 0 .. y /\ P(Leading(x, y))
    BY <2>1, <2>2
  <2> QED
    BY <2>3 DEF P
<1>7. ASSUME NEW d \in Nat, d < Leading(x, y) PROVE x * Pow(d) < y
  <2>1. d \in 0 .. Leading(x, y) - 1
    BY <1>6, <1>7
  <2> QED
    BY <1>6, <2>1 DEF Pow
<1> QED
  BY <1>6, <1>7 DEF Pow

\* The quotient before it is brought to that form again
Exponent(x, y) == Leading(x, y) + F32_DIGITS - 1
Rounded(x, y) == [mantissa |-> RoundHalfEven(x * Pow(Exponent(x, y)), y),
                  exponent |-> Exponent(x, y)]

LEMMA RoundedIs ==
  ASSUME NEW x \in Nat \ {0}, NEW y \in Nat \ {0}, x <= y
  PROVE  /\ Exponent(x, y) \in Nat /\ Rounded(x, y) \in Scores
         /\ HalfDigits <= Rounded(x, y).mantissa /\ Rounded(x, y).mantissa <= Digits
         /\ Rounded(x, y).mantissa = Digits => Leading(x, y) >= 1
<1> DEFINE l == Leading(x, y)
           e == Exponent(x, y)
           n == x * Pow(e)
           m == RoundHalfEven(n, y)
<1>1. /\ l \in Nat /\ x * Pow(l) >= y
      /\ \A d \in Nat : d < l => x * Pow(d) < y
  BY LeadingIs
<1>2. e = l + (F32_DIGITS - 1)
  BY <1>1, DigitsType DEF Exponent
<1> HIDE DEF l, e
<1>3. e \in Nat
  BY <1>1, <1>2, DigitsType
<1>4. Pow(e) = Pow(l) * HalfDigits /\ Pow(l) \in Nat /\ Pow(e) \in Nat
  BY <1>1, <1>2, <1>3, DigitsType, PowSum, PowFacts DEF HalfDigits
<1>5. n \in Nat
  BY <1>4
<1>6. m \in Nat
  <2> HIDE DEF n
  <2> QED
    BY <1>5, Nearest
<1>7. HalfDigits <= m
  <2>1. n = (x * Pow(l)) * HalfDigits /\ x * Pow(l) \in Nat
    BY <1>4, DigitsType
  <2>2. y * HalfDigits <= (x * Pow(l)) * HalfDigits /\ y * HalfDigits = HalfDigits * y
    BY <1>1, <2>1, DigitsType, ProductMonotone
  <2> HIDE DEF n
  <2> QED
    BY <1>5, <2>1, <2>2, DigitsType, NearestBounds
<1>8. CASE l = 0
  <2>1. n = x * HalfDigits
    BY <1>2, <1>8, DigitsType DEF HalfDigits
  <2>2. x * HalfDigits <= y * HalfDigits /\ y * HalfDigits = HalfDigits * y
    BY DigitsType, ProductMonotone
  <2>3. m <= HalfDigits
    <3> HIDE DEF n
    <3> QED
      BY <1>5, <2>1, <2>2, DigitsType, NearestBounds
  <2> HIDE DEF m
  <2>4. m <= Digits /\ m # Digits
    BY <1>6, <2>3, DigitsType
  <2> QED
    BY <1>3, <1>6, <1>7, <2>4 DEF Rounded, Scores, m, n, e, l
<1>9. CASE l # 0
  <2>1. l - 1 \in Nat /\ l - 1 < l /\ l >= 1
    BY <1>1, <1>9
  <2>2. x * Pow(l - 1) < y /\ Pow(l - 1) \in Nat
    BY <1>1, <2>1, PowFacts
  <2>3. Pow(e) = Pow(l - 1) * Digits
    <3>1. e = (l - 1) + F32_DIGITS
      BY <1>1, <1>2, DigitsType
    <3> QED
      BY <2>1, <3>1, DigitsType, PowSum DEF Digits
  <2>4. n = (x * Pow(l - 1)) * Digits /\ x * Pow(l - 1) \in Nat /\ Digits \in Nat
    BY <2>2, <2>3, DigitsType
  <2>5. (x * Pow(l - 1)) * Digits <= y * Digits /\ y * Digits = Digits * y
    BY <2>2, <2>4, ProductMonotone
  <2>6. m <= Digits
    <3> HIDE DEF n
    <3> QED
      BY <1>5, <2>4, <2>5, NearestBounds
  <2> HIDE DEF m
  <2> QED
    BY <1>3, <1>6, <1>7, <2>1, <2>6 DEF Rounded, Scores, m, n, e, l
<1> QED
  BY <1>8, <1>9

LEMMA F32Is ==
  ASSUME NEW x \in Nat \ {0}, NEW y \in Nat \ {0}, x <= y
  PROVE  /\ Normal(F32(x, y))
         /\ ~Higher(F32(x, y), Rounded(x, y)) /\ ~Higher(Rounded(x, y), F32(x, y))
<1> DEFINE m == Rounded(x, y).mantissa
           e == Exponent(x, y)
           s == F32(x, y)
<1>1. /\ e \in Nat /\ m \in Nat /\ Rounded(x, y) \in Scores
      /\ Rounded(x, y) = [mantissa |-> m, exponent |-> e]
      /\ HalfDigits <= m /\ m <= Digits
      /\ m = Digits => Leading(x, y) >= 1
  BY RoundedIs DEF Rounded, Scores
<1>2. s = IF m = Digits THEN [mantissa |-> m \div 2,
                              exponent |-> Leading(x, y) + F32_DIGITS - 2]
          ELSE [mantissa |-> m, exponent |-> e]
  BY DEF F32, Leading, Rounded, Exponent, Pow, Digits
<1> HIDE DEF m, s
<1>3. CASE m # Digits
  <2>1. s = Rounded(x, y)
    BY <1>1, <1>2, <1>3
  <2>2. Normal(s)
    <3>1. m < Digits /\ s.mantissa = m
      BY <1>1, <1>3, <2>1, DigitsType
    <3> QED
      BY <1>1, <2>1, <3>1 DEF Normal
  <2> QED
    BY <1>1, <2>1, <2>2, HigherOrder DEF s
<1>4. CASE m = Digits
  <2>1. m \div 2 = HalfDigits /\ m = 2 * HalfDigits
    BY <1>4, DigitsType
  <2>2. Leading(x, y) \in Nat /\ Leading(x, y) >= 1
    BY <1>1, <1>4, LeadingIs
  <2> DEFINE d == e - 1
  <2>3. d \in Nat /\ e = d + 1 /\ Leading(x, y) + F32_DIGITS - 2 = d
    BY <2>2, DigitsType DEF Exponent
  <2> HIDE DEF d, e
  <2>4. s = [mantissa |-> HalfDigits, exponent |-> d]
    BY <1>2, <1>4, <2>1, <2>3
  <2>5. Normal(s)
    BY <2>3, <2>4, DigitsType DEF Normal, Scores
  <2>6. Pow(e) = 2 * Pow(d) /\ Pow(d) \in Nat
    BY <2>3, PowFacts
  <2>7. HalfDigits * Pow(e) = m * Pow(d) /\ HalfDigits * Pow(e) \in Nat
    BY <2>1, <2>6, DigitsType
  <2>8. ~Higher(s, Rounded(x, y)) /\ ~Higher(Rounded(x, y), s)
    BY <1>1, <2>4, <2>7, HigherIs
  <2> QED
    BY <2>5, <2>8 DEF s
<1> QED
  BY <1>3, <1>4

\* A greater fraction has no lower score.
LEMMA RoundedMonotone ==
  ASSUME NEW x \in Nat \ {0}, NEW y \in Nat \ {0}, x <= y,
         NEW u \in Nat \ {0}, NEW v \in Nat \ {0}, u <= v,
         u * y <= x * v
  PROVE  ~Higher(Rounded(u, v), Rounded(x, y))
<1> DEFINE l == Leading(x, y)
           k == Leading(u, v)
           d == Exponent(x, y)
           e == Exponent(u, v)
           m == Rounded(x, y).mantissa
           n == Rounded(u, v).mantissa
<1>1. /\ l \in Nat /\ x * Pow(l) >= y /\ \A i \in Nat : i < l => x * Pow(i) < y
      /\ k \in Nat /\ u * Pow(k) >= v
  BY LeadingIs
<1>2. /\ d \in Nat /\ e \in Nat /\ m \in Nat /\ n \in Nat
      /\ HalfDigits <= m /\ n <= Digits
      /\ d = l + (F32_DIGITS - 1) /\ e = k + (F32_DIGITS - 1)
  BY <1>1, RoundedIs, DigitsType DEF Exponent, Scores
<1>3. Rounded(x, y).exponent = d /\ Rounded(u, v).exponent = e
  BY DEF Rounded
<1>4. Pow(d) \in Nat \ {0} /\ Pow(e) \in Nat \ {0} /\ Pow(k) \in Nat \ {0}
  BY <1>1, <1>2, PowFacts
<1>5. SUFFICES n * Pow(d) <= m * Pow(e)
  <2>1. n * Pow(d) \in Nat /\ m * Pow(e) \in Nat
    BY <1>2, <1>4
  <2>2. Higher(Rounded(u, v), Rounded(x, y)) <=> n * Pow(d) > m * Pow(e)
    BY <1>3, HigherIs
  <2> QED
    BY <2>1, <2>2
<1>6. l <= k
  <2> SUFFICES ASSUME k < l PROVE FALSE
    BY <1>1
  <2> HIDE DEF l, k
  <2>1. x * Pow(k) < y /\ x * Pow(k) \in Nat
    BY <1>1, <1>4
  <2>2. v * y <= (u * Pow(k)) * y /\ u * Pow(k) \in Nat
    BY <1>1, <1>4, ProductMonotone
  <2>3. (u * y) * Pow(k) <= (x * v) * Pow(k)
    <3>1. u * y \in Nat /\ x * v \in Nat
      OBVIOUS
    <3> QED
      BY <1>4, <3>1, ProductMonotone
  <2>4. /\ (u * Pow(k)) * y = (u * y) * Pow(k) /\ (x * v) * Pow(k) = (x * Pow(k)) * v
        /\ v * y = y * v
    BY <1>4
  <2>5. v * y \in Nat /\ (u * y) * Pow(k) \in Nat /\ (x * Pow(k)) * v \in Nat
    BY <1>4
  <2>6. y * v <= (x * Pow(k)) * v
    BY <2>2, <2>3, <2>4, <2>5
  <2>7. y <= x * Pow(k)
    BY <2>1, <2>6, Cancel
  <2> QED
    BY <2>1, <2>7
<1>7. CASE l = k
  <2>1. d = e
    BY <1>2, <1>7
  <2> DEFINE P == Pow(d)
             p == x * P
             q == u * P
  <2>2. p \in Nat /\ q \in Nat
    BY <1>4
  <2>3. q * y <= p * v
    <3>1. u * y \in Nat /\ x * v \in Nat
      OBVIOUS
    <3>2. (u * y) * P <= (x * v) * P
      BY <1>4, <3>1, ProductMonotone
    <3>3. (u * y) * P = q * y /\ (x * v) * P = p * v
      BY <1>4
    <3> QED
      BY <3>2, <3>3
  <2>4. m = RoundHalfEven(p, y) /\ n = RoundHalfEven(q, v)
    BY <2>1 DEF Rounded
  <2> HIDE DEF p, q, P, m, n
  <2>5. n <= m
    BY <2>2, <2>3, <2>4, NearestMonotone
  <2> QED
    BY <1>2, <1>4, <2>1, <2>5, ProductMonotone
<1>8. CASE l < k
  <2> HIDE DEF l, k, d, e, m, n
  <2>1. d + 1 <= e /\ d + 1 \in Nat /\ Pow(d + 1) = 2 * Pow(d)
    BY <1>1, <1>2, <1>8, DigitsType, PowFacts
  <2>2. 2 * Pow(d) <= Pow(e)
    BY <1>2, <2>1, PowMonotone
  <2>3. n * Pow(d) <= Digits * Pow(d) /\ Digits \in Nat
    BY <1>2, <1>4, DigitsType, ProductMonotone
  <2>4. Digits * Pow(d) = HalfDigits * (2 * Pow(d))
    BY <1>4, DigitsType
  <2>5. HalfDigits * (2 * Pow(d)) <= m * (2 * Pow(d))
    BY <1>2, <1>4, DigitsType, ProductMonotone
  <2>6. (2 * Pow(d)) * m <= Pow(e) * m
    BY <1>2, <1>4, <2>2, ProductMonotone
  <2>7. /\ m * (2 * Pow(d)) = (2 * Pow(d)) * m /\ Pow(e) * m = m * Pow(e)
        /\ n * Pow(d) \in Nat /\ Digits * Pow(d) \in Nat /\ m * (2 * Pow(d)) \in Nat
        /\ m * Pow(e) \in Nat
    BY <1>2, <1>4, <2>3
  <2> QED
    BY <2>3, <2>4, <2>5, <2>6, <2>7
<1> QED
  BY <1>1, <1>6, <1>7, <1>8

\* A score is an f32, and a greater fraction never scores lower.
LEMMA ScoreNormal ==
  ASSUME NEW n \in Nat, NEW m \in 0 .. n * WORD_BITS
  PROVE  Normal(Score(m, n)) /\ Score(m, n) \in Scores
<1>1. Normal(NoScore)
  BY DEF Normal, Scores, NoScore
<1>2. WORD_BITS \in Nat \ {0}
  BY HashComparisonAssumption
<1> DEFINE y == n * WORD_BITS
<1>3. CASE n = 0 \/ m = 0
  <2>1. Score(m, n) = NoScore
    BY <1>3 DEF Score, F32, NoScore
  <2> QED
    BY <1>1, <2>1 DEF Normal
<1>4. CASE n # 0 /\ m # 0
  <2>1. y \in Nat \ {0}
    BY <1>2, <1>4
  <2>2. m \in Nat \ {0} /\ m <= y
    BY <1>4, <2>1
  <2>3. Score(m, n) = F32(m, y)
    BY <1>4 DEF Score
  <2> HIDE DEF y
  <2>4. Normal(F32(m, y))
    BY <2>1, <2>2, F32Is
  <2> QED
    BY <2>3, <2>4 DEF Normal
<1> QED
  BY <1>3, <1>4

LEMMA ScoreMonotone ==
  ASSUME NEW n \in Nat \ {0}, NEW m \in 0 .. n * WORD_BITS,
         NEW k \in Nat \ {0}, NEW j \in 0 .. k * WORD_BITS,
         j * n <= m * k
  PROVE  ~Higher(Score(j, k), Score(m, n))
<1>1. WORD_BITS \in Nat \ {0}
  BY HashComparisonAssumption
<1> DEFINE y == n * WORD_BITS
           v == k * WORD_BITS
<1>2. y \in Nat \ {0} /\ v \in Nat \ {0}
  BY <1>1
<1>3. m \in Nat /\ j \in Nat /\ m <= y /\ j <= v
  BY <1>2
<1>4. CASE j = 0
  <2>1. Score(j, k) = NoScore
    BY <1>4 DEF Score, F32, NoScore
  <2> DEFINE s == Score(m, n)
  <2>2. s \in Scores
    BY ScoreNormal
  <2> HIDE DEF s
  <2>3. s.mantissa \in Nat /\ s.exponent \in Nat
    BY <2>2 DEF Scores
  <2>4. Pow(s.exponent) \in Nat /\ s.mantissa * Pow(0) \in Nat
    BY <2>3, PowFacts
  <2>5. ~(0 * Pow(s.exponent) > s.mantissa * Pow(0))
    BY <2>4
  <2>6. ~Higher(NoScore, s)
    BY <2>5, HigherIs DEF NoScore
  <2> QED
    BY <2>1, <2>6 DEF s
<1>5. CASE j # 0
  <2>1. j * n > 0 /\ j * n \in Nat
    BY <1>3, <1>5
  <2>2. m # 0
    BY <2>1
  <2>3. j * y <= m * v
    <3>1. (j * n) * WORD_BITS <= (m * k) * WORD_BITS
      BY <1>1, <1>3, <2>1, ProductMonotone
    <3>2. j * y = (j * n) * WORD_BITS /\ m * v = (m * k) * WORD_BITS
      BY <1>1, <1>3
    <3> QED
      BY <3>1, <3>2
  <2>4. Score(j, k) = F32(j, v) /\ Score(m, n) = F32(m, y)
    BY DEF Score
  <2> HIDE DEF y, v
  <2>5. j \in Nat \ {0} /\ m \in Nat \ {0}
    BY <1>3, <1>5, <2>2
  <2>6. ~Higher(Rounded(j, v), Rounded(m, y)) /\ Rounded(j, v) \in Scores /\ Rounded(m, y) \in Scores
    BY <1>2, <1>3, <2>3, <2>5, RoundedMonotone, RoundedIs
  <2>7. /\ F32(j, v) \in Scores /\ ~Higher(F32(j, v), Rounded(j, v))
        /\ F32(m, y) \in Scores /\ ~Higher(Rounded(m, y), F32(m, y))
    BY <1>2, <1>3, <2>5, F32Is DEF Normal
  <2> DEFINE a == F32(j, v)
             b == F32(m, y)
             p == Rounded(j, v)
             q == Rounded(m, y)
  <2> HIDE DEF a, b, p, q
  <2>8. ~Higher(a, q)
    BY <2>6, <2>7, HigherOrder DEF a, b, p, q
  <2>9. ~Higher(a, b)
    BY <2>6, <2>7, <2>8, HigherOrder DEF a, b, p, q
  <2> QED
    BY <2>4, <2>9 DEF a, b
<1> QED
  BY <1>4, <1>5

-----------------------------------------------------------------------------
\* The best alignment

\* o is the best of the alignments in T.
BestIn(f, s, T, o) ==
  /\ o \in T
  /\ \A p \in T : /\ ~ScoresHigher(Agreement(f, s, p), Agreement(f, s, o))
                  /\ ~ScoresHigher(Agreement(f, s, o), Agreement(f, s, p)) =>
                        p = o \/ Preferred(o, p)

LEMMA ScoresHigherOrder ==
  ASSUME NEW f \in Seq(Hash), NEW s \in Seq(Hash), NEW o \in Int, NEW p \in Int, NEW q \in Int
  PROVE  LET A(i) == Agreement(f, s, i)
         IN  /\ ~ScoresHigher(A(o), A(o))
             /\ ScoresHigher(A(o), A(p)) => ~ScoresHigher(A(p), A(o))
             /\ ~ScoresHigher(A(o), A(p)) /\ ~ScoresHigher(A(p), A(q)) => ~ScoresHigher(A(o), A(q))
<1>1. ASSUME NEW i \in Int PROVE Agreement(f, s, i).score \in Scores
  <2> DEFINE c == Agreement(f, s, i)
  <2>1. /\ c.compared_hashes \in Nat /\ c.matching_bits \in 0 .. c.compared_hashes * WORD_BITS
        /\ c.score = Score(c.matching_bits, c.compared_hashes)
    BY AgreementType
  <2> HIDE DEF c
  <2> QED
    BY <2>1, ScoreNormal DEF c
<1> QED
  BY <1>1, HigherOrder DEF ScoresHigher

LEMMA PreferredIs ==
  ASSUME NEW a \in Int, NEW b \in Int
  PROVE  /\ Preferred(a, b) => ~Preferred(b, a)
         /\ \A n \in Nat : -n < a /\ a < n => Preferred(a, n) /\ Preferred(a, -n)
         /\ \A n \in Nat \ {0} : Preferred(n, -n)
  BY DEF Preferred

LEMMA BestIsUnique ==
  ASSUME NEW f, NEW s, NEW T, T \subseteq Int, NEW o, NEW p,
         BestIn(f, s, T, o), BestIn(f, s, T, p)
  PROVE  o = p
<1>1. o \in Int /\ p \in Int /\ o \in T /\ p \in T
  BY DEF BestIn
<1>2. o = p \/ (Preferred(o, p) /\ Preferred(p, o))
  BY <1>1 DEF BestIn
<1> QED
  BY <1>1, <1>2, PreferredIs

\* One more alignment is tried, which all of those before it are preferred to.
LEMMA BestExtends ==
  ASSUME NEW f \in Seq(Hash), NEW s \in Seq(Hash), NEW T, T \subseteq Int, NEW b,
         BestIn(f, s, T, b), NEW o \in Int, \A t \in T : Preferred(t, o)
  PROVE  BestIn(f, s, T \cup {o}, IF ScoresHigher(Agreement(f, s, o), Agreement(f, s, b))
                                 THEN o ELSE b)
<1>1. b \in Int /\ b \in T
  BY DEF BestIn
<1>2. CASE ScoresHigher(Agreement(f, s, o), Agreement(f, s, b))
  <2>1. ASSUME NEW p \in T
        PROVE  /\ ~ScoresHigher(Agreement(f, s, p), Agreement(f, s, o))
               /\ ScoresHigher(Agreement(f, s, o), Agreement(f, s, p))
    <3>1. p \in Int /\ ~ScoresHigher(Agreement(f, s, p), Agreement(f, s, b))
      BY DEF BestIn
    <3>2. ~ScoresHigher(Agreement(f, s, b), Agreement(f, s, o))
      BY <1>1, <1>2, ScoresHigherOrder
    <3>3. ~ScoresHigher(Agreement(f, s, p), Agreement(f, s, o))
      BY <1>1, <3>1, <3>2, ScoresHigherOrder
    <3>4. ScoresHigher(Agreement(f, s, o), Agreement(f, s, p))
      BY <1>1, <1>2, <3>1, ScoresHigherOrder
    <3> QED
      BY <3>3, <3>4
  <2>2. ~ScoresHigher(Agreement(f, s, o), Agreement(f, s, o))
    BY ScoresHigherOrder
  <2>3. BestIn(f, s, T \cup {o}, o)
    BY <2>1, <2>2 DEF BestIn
  <2> QED
    BY <1>2, <2>3
<1>3. CASE ~ScoresHigher(Agreement(f, s, o), Agreement(f, s, b))
  <2>1. BestIn(f, s, T \cup {o}, b)
    BY <1>1, <1>3 DEF BestIn
  <2> QED
    BY <1>3, <2>1
<1> QED
  BY <1>2, <1>3

LEMMA BestOfNone ==
  ASSUME NEW f \in Seq(Hash), NEW s \in Seq(Hash)
  PROVE  BestIn(f, s, {0}, 0)
  BY ScoresHigherOrder DEF BestIn

LEMMA BestExists ==
  ASSUME NEW f \in Seq(Hash), NEW s \in Seq(Hash), NEW limit \in Nat
  PROVE  \E o \in -limit .. limit : BestIn(f, s, -limit .. limit, o)
<1> DEFINE S == {n \in Nat : \E o : BestIn(f, s, -n .. n, o)}
<1>1. 0 \in S
  <2>1. -0 .. 0 = {0}
    OBVIOUS
  <2> QED
    BY <2>1, BestOfNone
<1>2. ASSUME NEW n \in Nat, n \in S PROVE n + 1 \in S
  <2> DEFINE T == -n .. n
             U == T \cup {n + 1}
             m == n + 1
  <2>1. PICK o : BestIn(f, s, T, o)
    BY <1>2
  <2>2. \A t \in T : Preferred(t, m)
    BY PreferredIs
  <2>3. PICK p : BestIn(f, s, U, p)
    <3>1. T \subseteq Int /\ m \in Int
      OBVIOUS
    <3> HIDE DEF T
    <3> QED
      BY <2>1, <2>2, <3>1, BestExtends
  <2>4. \A t \in U : Preferred(t, -m)
    <3>1. \A t \in T : Preferred(t, -m)
      <4>1. m \in Nat /\ \A t \in T : t \in Int /\ -m < t /\ t < m
        OBVIOUS
      <4> HIDE DEF T, m
      <4> QED
        BY <4>1, PreferredIs
    <3>2. m \in Nat \ {0}
      OBVIOUS
    <3> HIDE DEF T, m
    <3>3. Preferred(m, -m)
      BY <3>2, PreferredIs
    <3> QED
      BY <3>1, <3>3 DEF m
  <2>5. PICK q : BestIn(f, s, U \cup {-m}, q)
    <3>1. U \subseteq Int /\ -m \in Int
      OBVIOUS
    <3> HIDE DEF T, U
    <3> QED
      BY <2>3, <2>4, <3>1, BestExtends
  <2>6. U \cup {-m} = -m .. m /\ m \in Nat
    OBVIOUS
  <2> HIDE DEF U, m
  <2>7. m \in S
    BY <2>5, <2>6
  <2> QED
    BY <2>7 DEF m
<1> HIDE DEF S
<1>3. limit \in S
  BY <1>1, <1>2, NatInd
<1> QED
  BY <1>3 DEF S, BestIn

LEMMA BestAlignmentIs ==
  ASSUME NEW f \in Seq(Hash), NEW s \in Seq(Hash), NEW limit \in Nat, NEW o,
         BestIn(f, s, -limit .. limit, o)
  PROVE  BestAlignment(f, s, limit) = Agreement(f, s, o)
<1> DEFINE T == -limit .. limit
           C == {Agreement(f, s, p) : p \in T}
           P(c) == \A p \in T : LET other == Agreement(f, s, p)
                                IN  /\ ~ScoresHigher(other, c)
                                    /\ ~ScoresHigher(c, other) =>
                                          p = c.best_offset \/ Preferred(c.best_offset, p)
<1>1. BestAlignment(f, s, limit) = CHOOSE c \in C : P(c)
  BY DEF BestAlignment
<1>2. ASSUME NEW p \in T PROVE P(Agreement(f, s, p)) <=> BestIn(f, s, T, p)
  <2>1. Agreement(f, s, p).best_offset = p
    BY AgreementType
  <2> QED
    BY <2>1 DEF BestIn
<1>3. o \in T /\ BestIn(f, s, T, o) /\ T \subseteq Int
  BY DEF BestIn
<1> DEFINE a == Agreement(f, s, o)
           c == CHOOSE x \in C : P(x)
<1>4. a \in C /\ P(a)
  BY <1>2, <1>3
<1> HIDE DEF P, a
<1>5. c \in C /\ P(c)
  BY <1>4
<1>6. PICK p \in T : c = Agreement(f, s, p)
  BY <1>5
<1> HIDE DEF c
<1>7. p = o
  BY <1>2, <1>3, <1>5, <1>6, BestIsUnique
<1> QED
  BY <1>1, <1>6, <1>7 DEF c

-----------------------------------------------------------------------------
\* The drift search

\* The alignments tried before o
TriedBefore(o) == IF o > 0 THEN -(o - 1) .. o - 1 ELSE o + 1 .. -o

\* The best comparison so far is that of the best of the alignments tried, and
\* the search ends with the last of them.
SearchInv ==
  /\ first \in FirstSequences /\ second \in SecondSequences /\ search_drift \in SearchDrifts
  /\ offset \in Int /\ offset # 0 /\ -drift_limit <= offset /\ offset <= drift_limit + 1
  /\ \E o \in TriedBefore(offset) : /\ best = Agreement(first, second, o)
                                    /\ BestIn(first, second, TriedBefore(offset), o)
  /\ pc \in {"search", "done"}
  /\ pc = "done" => offset = drift_limit + 1

LEMMA LimitType ==
  ASSUME first \in Seq(Hash), second \in Seq(Hash), search_drift \in Nat
  PROVE  /\ drift_limit \in Nat /\ drift_limit <= search_drift
         /\ drift_limit <= Len(first) /\ drift_limit <= Len(second)
  BY DEF drift_limit, LesserOf

LEMMA ArgumentTypes ==
  /\ FirstSequences \subseteq Seq(Hash) /\ SecondSequences \subseteq Seq(Hash)
  /\ SearchDrifts \subseteq Nat
  BY DriftSearchAssumption DEF DriftSearchAssumption

LEMMA OneTried == TriedBefore(1) = {0}
  BY DEF TriedBefore

\* An iteration tries one more alignment, which comes after those before it.
LEMMA TriedNext ==
  ASSUME NEW o \in Int, o # 0
  PROVE  /\ OffsetAfter(o) \in Int /\ OffsetAfter(o) # 0
         /\ TriedBefore(o) \subseteq Int /\ 0 \in TriedBefore(o)
         /\ TriedBefore(OffsetAfter(o)) = TriedBefore(o) \cup {o}
         /\ \A t \in TriedBefore(o) : Preferred(t, o)
<1>1. CASE o > 0
  <2>1. /\ OffsetAfter(o) = -o /\ TriedBefore(o) = -(o - 1) .. o - 1
        /\ TriedBefore(-o) = -o + 1 .. o
    BY <1>1 DEF OffsetAfter, TriedBefore
  <2>2. \A t \in -(o - 1) .. o - 1 : t \in Int /\ -o < t /\ t < o /\ o \in Nat
    BY <1>1
  <2>3. \A t \in TriedBefore(o) : Preferred(t, o)
    BY <2>1, <2>2, PreferredIs
  <2> QED
    BY <1>1, <2>1, <2>3
<1>2. CASE o < 0
  <2> DEFINE n == -o
  <2>1. /\ OffsetAfter(o) = n + 1 /\ TriedBefore(o) = -n + 1 .. n /\ n \in Nat \ {0} /\ o = -n
        /\ TriedBefore(n + 1) = -n .. n
    BY <1>2 DEF OffsetAfter, TriedBefore
  <2> HIDE DEF n
  <2>2. ASSUME NEW t \in TriedBefore(o) PROVE Preferred(t, o)
    <3>1. t \in Int /\ -n < t /\ (t < n \/ t = n)
      BY <2>1
    <3> QED
      BY <2>1, <3>1, PreferredIs
  <2> QED
    BY <2>1, <2>2
<1> QED
  BY <1>1, <1>2

LEMMA SearchBegins == SearchInit => SearchInv
<1> SUFFICES ASSUME SearchInit PROVE SearchInv
  OBVIOUS
<1>1. /\ first \in Seq(Hash) /\ second \in Seq(Hash) /\ search_drift \in Nat /\ offset = 1
      /\ first \in FirstSequences /\ second \in SecondSequences /\ search_drift \in SearchDrifts
  BY ArgumentTypes DEF SearchInit
<1>2. drift_limit \in Nat /\ drift_limit <= Len(first) /\ drift_limit <= Len(second)
  BY <1>1, LimitType
<1>3. BestIn(first, second, TriedBefore(1), 0) /\ 0 \in TriedBefore(1)
  BY <1>1, OneTried, BestOfNone
<1>4. CASE first = <<>> \/ second = <<>>
  <2>1. best = Comparison(0, 0, 0) /\ pc = "done"
    BY <1>4 DEF SearchInit, Nothing
  <2>2. drift_limit = 0
    BY <1>2, <1>4
  <2>3. Overlap(first, second, 0) = {}
    BY <1>4 DEF Overlap
  <2>4. AgreeingAt(first, second, 0) = {}
    BY <2>3 DEF AgreeingAt
  <2>5. Agreement(first, second, 0) = Comparison(0, 0, 0)
    BY <2>3, <2>4, FS_EmptySet DEF Agreement, AgreeingAt
  <2> QED
    BY <1>1, <1>3, <2>1, <2>2, <2>5 DEF SearchInv
<1>5. CASE first # <<>> /\ second # <<>>
  <2>1. best = Agreement(first, second, 0) /\ pc = "search"
    BY <1>1, <1>5, ComparisonIsAgreement DEF SearchInit
  <2> QED
    BY <1>1, <1>2, <1>3, <2>1 DEF SearchInv
<1> QED
  BY <1>4, <1>5

LEMMA SearchStep == SearchInv /\ [SearchNext]_search_vars => SearchInv'
<1> SUFFICES ASSUME SearchInv, [SearchNext]_search_vars PROVE SearchInv'
  OBVIOUS
<1>1. first \in Seq(Hash) /\ second \in Seq(Hash) /\ search_drift \in Nat /\ offset \in Int
  BY ArgumentTypes DEF SearchInv
<1>2. drift_limit \in Nat
  BY <1>1, LimitType
<1>3. CASE Try
  <2>1. /\ pc = "search" /\ offset <= drift_limit /\ pc' = pc /\ offset' = OffsetAfter(offset)
        /\ first' = first /\ second' = second /\ search_drift' = search_drift
    BY <1>2, <1>3 DEF Try, arguments
  <2>2. drift_limit' = drift_limit
    BY <2>1 DEF drift_limit
  <2>3. PICK o \in TriedBefore(offset) :
               best = Agreement(first, second, o) /\ BestIn(first, second, TriedBefore(offset), o)
    BY DEF SearchInv
  <2> DEFINE c == Agreement(first, second, offset)
             p == IF ScoresHigher(c, Agreement(first, second, o)) THEN offset ELSE o
  <2>4. best' = IF ScoresHigher(c, best) THEN c ELSE best
    BY <1>1, <1>3, ComparisonIsAgreement DEF Try, Better
  <2>5. best' = Agreement(first, second, p)
    BY <2>3, <2>4
  <2>6. BestIn(first, second, TriedBefore(offset) \cup {offset}, p)
    BY <1>1, <2>3, BestExtends, TriedNext DEF SearchInv
  <2>7. /\ offset' \in Int /\ offset' # 0
        /\ TriedBefore(offset') = TriedBefore(offset) \cup {offset}
    BY <1>1, <2>1, TriedNext DEF SearchInv
  <2> HIDE DEF p
  <2>8. p \in TriedBefore(offset')
    BY <2>6, <2>7 DEF BestIn
  <2>9. -drift_limit <= offset' /\ offset' <= drift_limit + 1
    BY <1>1, <1>2, <2>1 DEF SearchInv, OffsetAfter
  <2>10. BestIn(first', second', TriedBefore(offset'), p)
    BY <2>1, <2>6, <2>7
  <2> QED
    BY <1>1, <2>1, <2>2, <2>5, <2>7, <2>8, <2>9, <2>10 DEF SearchInv
<1>4. CASE Finish
  <2>1. /\ offset > drift_limit /\ pc' = "done" /\ offset' = offset /\ best' = best
        /\ first' = first /\ second' = second /\ search_drift' = search_drift
    BY <1>2, <1>4 DEF Finish, arguments
  <2>2. drift_limit' = drift_limit
    BY <2>1 DEF drift_limit
  <2>3. offset = drift_limit + 1
    BY <1>2, <2>1 DEF SearchInv
  <2> QED
    BY <2>1, <2>2, <2>3 DEF SearchInv
<1>5. CASE UNCHANGED search_vars
  <2>1. UNCHANGED <<first, second, search_drift, offset, best, pc>>
    BY <1>5 DEF search_vars, arguments
  <2> QED
    BY <2>1 DEF SearchInv, drift_limit
<1> QED
  BY <1>3, <1>4, <1>5 DEF SearchNext

\* The search always holds the best of the alignments it has tried.
THEOREM SearchInvariance == SearchSpec => []SearchInv
  BY SearchBegins, SearchStep, PTL DEF SearchSpec

\* A search ends with the best alignment within its limit.
LEMMA SearchEnds ==
  ASSUME SearchInv, pc = "done"
  PROVE  /\ drift_limit \in Nat
         /\ \E o \in -drift_limit .. drift_limit : /\ best = Agreement(first, second, o)
                                       /\ BestIn(first, second, -drift_limit .. drift_limit, o)
<1>1. drift_limit \in Nat /\ offset = drift_limit + 1
  BY ArgumentTypes, LimitType DEF SearchInv
<1>2. TriedBefore(offset) = -drift_limit .. drift_limit
  BY <1>1 DEF TriedBefore
<1> QED
  BY <1>1, <1>2 DEF SearchInv

\* The evidence a search holds is that of the alignment it reports, within the
\* limit the caller gave.
THEOREM SearchTypeCorrect == SearchSpec => []SearchTypeOK
<1>1. SearchInv => SearchTypeOK
  <2> SUFFICES ASSUME SearchInv PROVE SearchTypeOK
    OBVIOUS
  <2>1. /\ first \in Seq(Hash) /\ second \in Seq(Hash) /\ search_drift \in Nat
        /\ offset \in Int /\ pc \in {"search", "done"}
        /\ drift_limit \in Nat /\ drift_limit <= search_drift
    BY ArgumentTypes, LimitType DEF SearchInv
  <2>2. PICK o \in TriedBefore(offset) : best = Agreement(first, second, o)
    BY DEF SearchInv
  <2>3. o \in -search_drift .. search_drift
    <3>1. offset # 0 /\ -drift_limit <= offset /\ offset <= drift_limit + 1
      BY DEF SearchInv
    <3> QED
      BY <2>1, <2>2, <3>1 DEF TriedBefore
  <2>4. o \in Int
    BY <2>1, <2>3
  <2>5. /\ best.best_offset = o
        /\ best.compared_hashes = Cardinality(Overlap(first, second, o))
        /\ best.matching_bits \in 0 .. best.compared_hashes * WORD_BITS
        /\ best.score = Score(best.matching_bits, best.compared_hashes)
    BY <2>1, <2>2, <2>4, AgreementType
  <2> QED
    BY <2>1, <2>3, <2>5 DEF SearchTypeOK, SearchInv
<1> QED
  BY <1>1, SearchInvariance, PTL

\* A greater part of agreeing bits is passed over only where the scores are one f32.
LEMMA GreaterFraction ==
  ASSUME NEW f \in Seq(Hash), NEW s \in Seq(Hash), NEW o \in Int, NEW p \in Int,
         ~ScoresHigher(Agreement(f, s, p), Agreement(f, s, o)),
         Agreement(f, s, p).matching_bits * Agreement(f, s, o).compared_hashes
             > Agreement(f, s, o).matching_bits * Agreement(f, s, p).compared_hashes
  PROVE  Agreement(f, s, p).score = Agreement(f, s, o).score
<1> DEFINE a == Agreement(f, s, o)
           b == Agreement(f, s, p)
           m == a.matching_bits
           n == a.compared_hashes
           j == b.matching_bits
           k == b.compared_hashes
<1>1. /\ n \in Nat /\ m \in 0 .. n * WORD_BITS /\ a.score = Score(m, n)
      /\ k \in Nat /\ j \in 0 .. k * WORD_BITS /\ b.score = Score(j, k)
      /\ j * n > m * k /\ ~Higher(b.score, a.score)
  BY AgreementType DEF ScoresHigher
<1> HIDE DEF m, n, j, k, a, b
<1>2. n * WORD_BITS \in Nat /\ k * WORD_BITS \in Nat /\ 0 * WORD_BITS = 0
  BY <1>1, HashComparisonAssumption
<1>3. m \in Nat /\ j \in Nat
  BY <1>1, <1>2
<1>4. m * k \in Nat
  BY <1>1, <1>3
<1>5. n # 0
  <2> SUFFICES ASSUME n = 0 PROVE FALSE
    OBVIOUS
  <2>1. j * n = 0
    BY <1>3
  <2> QED
    BY <1>1, <1>4, <2>1
<1>6. k # 0
  <2> SUFFICES ASSUME k = 0 PROVE FALSE
    OBVIOUS
  <2>1. j = 0
    BY <1>1, <1>2
  <2>2. j * n = 0
    BY <1>1, <2>1
  <2> QED
    BY <1>1, <1>4, <2>2
<1>7. m * k <= j * n /\ n \in Nat \ {0} /\ k \in Nat \ {0}
  BY <1>1, <1>3, <1>4, <1>5, <1>6
<1>8. ~Higher(Score(m, n), Score(j, k))
  BY <1>1, <1>7, ScoreMonotone
<1>9. Normal(a.score) /\ Normal(b.score)
  BY <1>1, ScoreNormal
<1> QED
  BY <1>1, <1>8, <1>9, SameScore DEF a, b

\* A search returns the best alignment within its limit: the highest score, of
\* equal ones the smallest shift, and none with a greater part of agreeing bits
\* unless its score is the same f32.
THEOREM SearchFindsBest == SearchSpec => []FindsBestAlignment
<1>1. SearchInv => FindsBestAlignment
  <2> SUFFICES ASSUME SearchInv, pc = "done"
               PROVE  /\ best = BestAlignment(first, second, drift_limit)
                      /\ \A o \in -drift_limit .. drift_limit :
                            LET other == Agreement(first, second, o)
                            IN  other.matching_bits * best.compared_hashes
                                    > best.matching_bits * other.compared_hashes
                                    => other.score = best.score
    BY DEF FindsBestAlignment
  <2>1. first \in Seq(Hash) /\ second \in Seq(Hash) /\ search_drift \in Nat
    BY ArgumentTypes DEF SearchInv
  <2>2. drift_limit \in Nat
    BY <2>1, LimitType
  <2>3. PICK o \in -drift_limit .. drift_limit : /\ best = Agreement(first, second, o)
                                     /\ BestIn(first, second, -drift_limit .. drift_limit, o)
    BY SearchEnds
  <2>4. best = BestAlignment(first, second, drift_limit)
    BY <2>1, <2>2, <2>3, BestAlignmentIs
  <2>5. ASSUME NEW p \in -drift_limit .. drift_limit,
               Agreement(first, second, p).matching_bits * best.compared_hashes
                   > best.matching_bits * Agreement(first, second, p).compared_hashes
        PROVE  Agreement(first, second, p).score = best.score
    <3>1. p \in -drift_limit .. drift_limit /\ p \in Int /\ o \in Int
      BY <2>2, <2>3
    <3>2. ~ScoresHigher(Agreement(first, second, p), Agreement(first, second, o))
      BY <2>3, <3>1 DEF BestIn
    <3> QED
      BY <2>1, <2>3, <2>5, <3>1, <3>2, GreaterFraction
  <2> QED
    BY <2>4, <2>5
<1> QED
  BY <1>1, SearchInvariance, PTL

\* An alignment seen from the other sequence
LEMMA Mirror ==
  ASSUME NEW f \in Seq(Hash), NEW s \in Seq(Hash), NEW o \in Int
  PROVE  Agreement(s, f, -o).score = Agreement(f, s, o).score
<1> DEFINE P == AgreeingAt(f, s, o)
           Q == AgreeingAt(s, f, -o)
           g == [ib \in P |-> <<ib[1] - o, ib[2]>>]
<1>1. \A i \in Int : i \in Overlap(f, s, o) <=> i - o \in Overlap(s, f, -o)
  <2> SUFFICES ASSUME NEW i \in Int
               PROVE  i \in Overlap(f, s, o) <=> i - o \in Overlap(s, f, -o)
    OBVIOUS
  <2>1. (i - o) - (-o) = i /\ Len(f) \in Nat /\ Len(s) \in Nat
    OBVIOUS
  <2> QED
    BY <2>1 DEF Overlap
<1>2. Overlap(f, s, o) \subseteq Int /\ Overlap(s, f, -o) \subseteq Int /\ -o \in Int
  BY DEF Overlap
<1>3. ASSUME NEW i \in Int, NEW bit \in Bits
      PROVE  <<i, bit>> \in P <=> <<i - o, bit>> \in Q
  <2>1. (i - o) - (-o) = i
    OBVIOUS
  <2>2. <<i, bit>> \in P <=> i \in Overlap(f, s, o) /\ (bit \in f[i] <=> bit \in s[i - o])
    BY DEF AgreeingAt
  <2>3. <<i - o, bit>> \in Q
           <=> i - o \in Overlap(s, f, -o) /\ (bit \in s[i - o] <=> bit \in f[(i - o) - (-o)])
    BY DEF AgreeingAt
  <2> QED
    BY <1>1, <2>1, <2>2, <2>3
<1>4. /\ \A p \in P : p[1] \in Int /\ p[2] \in Bits /\ p = <<p[1], p[2]>>
      /\ \A q \in Q : q[1] \in Int /\ q[2] \in Bits /\ q = <<q[1], q[2]>>
  <2>1. P \subseteq Overlap(f, s, o) \X Bits /\ Q \subseteq Overlap(s, f, -o) \X Bits
    BY DEF AgreeingAt
  <2> HIDE DEF P, Q
  <2> QED
    BY <1>2, <2>1
<1>5. IsFiniteSet(P) /\ Cardinality(Overlap(f, s, o)) = Count(f, s, o)
      /\ Cardinality(Overlap(s, f, -o)) = Count(s, f, -o)
  BY <1>2, AgreementPairs, OverlapCount
<1>6. Count(s, f, -o) = Count(f, s, o)
  <2>1. FirstStart(-o) = SecondStart(o) /\ SecondStart(-o) = FirstStart(o)
    BY DEF FirstStart, SecondStart
  <2>2. FirstStart(o) \in Nat /\ SecondStart(o) \in Nat
    BY OverlapIs
  <2>3. Len(f) \in Nat /\ Len(s) \in Nat
    OBVIOUS
  <2> QED
    BY <2>1, <2>2, <2>3 DEF Count, LesserOf
<1>7. Cardinality(Q) = Cardinality(P)
  <2> HIDE DEF P, Q
  <2>1. g \in [P -> Q]
    BY <1>3, <1>4
  <2>2. \A x, y \in P : g[x] = g[y] => x = y
    <3> SUFFICES ASSUME NEW x \in P, NEW y \in P, g[x] = g[y] PROVE x = y
      OBVIOUS
    <3>1. x[1] - o = y[1] - o /\ x[2] = y[2]
      OBVIOUS
    <3>2. x[1] \in Int /\ y[1] \in Int
      BY <1>4
    <3>3. x[1] = y[1]
      BY <3>1, <3>2
    <3> QED
      BY <1>4, <3>1, <3>3
  <2>3. \A q \in Q : \E p \in P : g[p] = q
    <3> SUFFICES ASSUME NEW q \in Q PROVE \E p \in P : g[p] = q
      OBVIOUS
    <3>1. q[1] \in Int /\ q[2] \in Bits /\ q = <<q[1], q[2]>>
      BY <1>4
    <3> DEFINE i == q[1] + o
    <3>2. i \in Int /\ i - o = q[1]
      BY <3>1
    <3> HIDE DEF i
    <3>3. <<i, q[2]>> \in P
      BY <1>3, <3>1, <3>2
    <3>4. g[<<i, q[2]>>] = q
      BY <3>1, <3>2, <3>3
    <3> QED
      BY <3>3, <3>4
  <2> HIDE DEF g
  <2> QED
    BY <1>5, <2>1, <2>2, <2>3, SameCount
<1>8. /\ Agreement(f, s, o) = Comparison(o, Count(f, s, o), Cardinality(P))
      /\ Agreement(s, f, -o) = Comparison(-o, Count(f, s, o), Cardinality(P))
  BY <1>5, <1>6, <1>7 DEF Agreement, AgreeingAt
<1> HIDE DEF P, Q
<1> QED
  BY <1>8 DEF Comparison

\* The score of a search does not depend on which sequence is called the first.
THEOREM SearchSymmetric == SearchSpec => []ScoreSymmetric
<1>1. SearchInv => ScoreSymmetric
  <2> SUFFICES ASSUME SearchInv, pc = "done"
               PROVE  LET swapped == BestAlignment(second, first, drift_limit)
                      IN  ~ScoresHigher(swapped, best) /\ ~ScoresHigher(best, swapped)
    BY DEF ScoreSymmetric
  <2>1. first \in Seq(Hash) /\ second \in Seq(Hash) /\ search_drift \in Nat
    BY ArgumentTypes DEF SearchInv
  <2>2. drift_limit \in Nat
    BY <2>1, LimitType
  <2> DEFINE T == -drift_limit .. drift_limit
             A(o) == Agreement(first, second, o)
             B(o) == Agreement(second, first, o)
  <2>3. PICK o \in T : best = A(o) /\ BestIn(first, second, T, o)
    BY SearchEnds
  <2>4. PICK p \in T : BestIn(second, first, T, p)
    BY <2>1, <2>2, BestExists
  <2>5. BestAlignment(second, first, drift_limit) = B(p)
    BY <2>1, <2>2, <2>4, BestAlignmentIs
  <2>6. o \in Int /\ p \in Int /\ -p \in T /\ -o \in T /\ -(-p) = p
    BY <2>2
  <2> HIDE DEF T
  <2>7. ~Higher(A(-p).score, A(o).score) /\ ~Higher(B(-o).score, B(p).score)
    BY <2>3, <2>4, <2>6 DEF BestIn, ScoresHigher
  <2>8. B(-o).score = A(o).score
    BY <2>1, <2>6, Mirror
  <2>9. B(p).score = A(-p).score
    <3>1. -p \in Int
      BY <2>6
    <3>2. Agreement(second, first, -(-p)).score = Agreement(first, second, -p).score
      BY <2>1, <3>1, Mirror
    <3> QED
      BY <2>6, <3>2
  <2> QED
    BY <2>3, <2>5, <2>7, <2>8, <2>9 DEF ScoresHigher
<1> QED
  BY <1>1, SearchInvariance, PTL

-----------------------------------------------------------------------------
\* Ranking

Checkpoint == [timestamp : Timestamps, hashes : StoredSequences, duration : Durations]
Entry == [index : Nat, timestamp : Timestamps, score : Scores]

\* What a result reports
Ranked == {v \in [timestamp : Timestamps, score : Scores] : Normal(v.score)}

LEMMA ConstantTypes ==
  /\ Timestamps \subseteq Int /\ Drifts \subseteq Nat /\ MAX_CHECKPOINTS \in Nat
  /\ StoredSequences \subseteq Seq(Hash) /\ Queries \subseteq Seq(Hash) /\ Durations \subseteq Nat
  /\ WORD_BITS <= 32
  /\ \A hashes \in StoredSequences : FitsU32(Len(hashes))
  /\ \A duration \in Durations : FitsU32(duration)
  BY CheckpointMatcherAssumption DEF CheckpointMatcherAssumption

\* The comparator is a strict total order of the checkpoints of a store.
LEMMA PrecedesOrder ==
  ASSUME NEW x \in Entry, NEW y \in Entry, NEW z \in Entry
  PROVE  /\ ~Precedes(x, x)
         /\ Precedes(x, y) => ~Precedes(y, x)
         /\ Precedes(x, y) /\ Precedes(y, z) => Precedes(x, z)
         /\ x.index # y.index => Precedes(x, y) \/ Precedes(y, x)
<1> DEFINE H(a, b) == Higher(a.score, b.score)
<1>1. /\ x.score \in Scores /\ y.score \in Scores /\ z.score \in Scores
      /\ x.timestamp \in Int /\ y.timestamp \in Int /\ z.timestamp \in Int
      /\ x.index \in Nat /\ y.index \in Nat /\ z.index \in Nat
  BY ConstantTypes DEF Entry
<1>2. /\ ~H(x, x) /\ (H(x, y) => ~H(y, x))
      /\ (~H(x, z) /\ ~H(z, y) => ~H(x, y)) /\ (~H(z, y) /\ ~H(y, x) => ~H(z, x))
      /\ (~H(y, x) /\ ~H(x, z) => ~H(y, z)) /\ (H(x, z) => ~H(z, x)) /\ (H(y, z) => ~H(z, y))
      /\ (~H(z, x) /\ ~H(x, y) => ~H(z, y)) /\ (~H(y, z) /\ ~H(z, x) => ~H(y, x))
  BY <1>1, HigherOrder
<1>3. \A a, b : Precedes(a, b) <=> \/ H(a, b)
                                   \/ /\ ~H(b, a)
                                      /\ \/ a.timestamp < b.timestamp
                                         \/ a.timestamp = b.timestamp /\ a.index < b.index
  BY DEF Precedes
<1> HIDE DEF H
<1> QED
  BY <1>1, <1>2, <1>3

\* Ranks leave open only the order of checkpoints that report the same.
LEMMA RanksBelowOrder ==
  ASSUME NEW u \in Ranked, NEW v \in Ranked, NEW w \in Ranked
  PROVE  /\ ~RanksBelow(u, u)
         /\ ~RanksBelow(u, v) /\ ~RanksBelow(v, w) => ~RanksBelow(u, w)
         /\ ~RanksBelow(u, v) /\ ~RanksBelow(v, u) => u = v
<1> DEFINE H(a, b) == Higher(a.score, b.score)
<1>1. /\ u.score \in Scores /\ v.score \in Scores /\ w.score \in Scores
      /\ Normal(u.score) /\ Normal(v.score)
      /\ u.timestamp \in Int /\ v.timestamp \in Int /\ w.timestamp \in Int
      /\ u = [timestamp |-> u.timestamp, score |-> u.score]
      /\ v = [timestamp |-> v.timestamp, score |-> v.score]
  BY ConstantTypes DEF Ranked
<1>2. /\ ~H(u, u) /\ (H(u, v) => ~H(v, u)) /\ (H(v, w) => ~H(w, v)) /\ (H(u, w) => ~H(w, u))
      /\ (~H(u, v) /\ ~H(v, w) => ~H(u, w)) /\ (~H(w, v) /\ ~H(v, u) => ~H(w, u))
      /\ (~H(v, u) /\ ~H(u, w) => ~H(v, w)) /\ (~H(w, u) /\ ~H(u, v) => ~H(w, v))
      /\ (~H(u, w) /\ ~H(w, v) => ~H(u, v)) /\ (~H(v, w) /\ ~H(w, u) => ~H(v, u))
  BY <1>1, HigherOrder
<1>3. \A a, b : RanksBelow(a, b) <=> H(b, a) \/ (~H(a, b) /\ a.timestamp > b.timestamp)
  BY DEF RanksBelow
<1>4. ~H(u, v) /\ ~H(v, u) => u.score = v.score
  BY <1>1, SameScore
<1> HIDE DEF H
<1> QED
  BY <1>1, <1>2, <1>3, <1>4

LEMMA BestScoreNormal ==
  ASSUME NEW q \in Seq(Hash), NEW hashes \in Seq(Hash), max_drift \in Nat
  PROVE  BestScore(q, hashes) \in Scores /\ Normal(BestScore(q, hashes))
<1> DEFINE limit == LesserOf(max_drift, LesserOf(Len(q), Len(hashes)))
<1>1. limit \in Nat
  <2>1. Len(q) \in Nat /\ Len(hashes) \in Nat
    OBVIOUS
  <2> QED
    BY <2>1 DEF LesserOf
<1> HIDE DEF limit
<1>2. PICK o \in -limit .. limit : BestIn(q, hashes, -limit .. limit, o)
  BY <1>1, BestExists
<1>3. BestAlignment(q, hashes, limit) = Agreement(q, hashes, o) /\ o \in Int
  BY <1>1, <1>2, BestAlignmentIs
<1> DEFINE c == Agreement(q, hashes, o)
<1>4. /\ c.compared_hashes \in Nat /\ c.matching_bits \in 0 .. c.compared_hashes * WORD_BITS
      /\ c.score = Score(c.matching_bits, c.compared_hashes)
  BY <1>3, AgreementType
<1> HIDE DEF c
<1>5. c.score \in Scores /\ Normal(c.score)
  BY <1>4, ScoreNormal
<1> QED
  BY <1>3, <1>5 DEF BestScore, limit, c

\* What the checkpoint in place i of a store reports
ValueAt(store, q, i) ==
  [timestamp |-> store[i].timestamp, score |-> BestScore(q, store[i].hashes)]

Places(store) == 1 .. Len(store)

LEMMA ScoredIs ==
  ASSUME NEW store \in Seq(Checkpoint), NEW q \in Seq(Hash), max_drift \in Nat
  PROVE  /\ Len(store) \in Nat /\ Len(Scored(store, q)) = Len(store)
         /\ DOMAIN Scored(store, q) = Places(store)
         /\ \A i \in Places(store) :
               LET e == Scored(store, q)[i]
               IN  /\ e \in Entry /\ e.index = i
                   /\ e.timestamp = ValueAt(store, q, i).timestamp
                   /\ e.score = ValueAt(store, q, i).score
                   /\ ValueAt(store, q, i) \in Ranked
<1> DEFINE n == Len(store)
           e(i) == [index |-> i, timestamp |-> store[i].timestamp,
                    score |-> BestScore(q, store[i].hashes)]
<1>1. n \in Nat
  OBVIOUS
<1>2. ASSUME NEW i \in 1 .. n
      PROVE  store[i].timestamp \in Timestamps /\ Normal(BestScore(q, store[i].hashes))
             /\ BestScore(q, store[i].hashes) \in Scores
  <2>1. store[i] \in Checkpoint
    <3> HIDE DEF Checkpoint
    <3> QED
      OBVIOUS
  <2>2. store[i].timestamp \in Timestamps /\ store[i].hashes \in StoredSequences
    BY <2>1 DEF Checkpoint
  <2>3. store[i].hashes \in Seq(Hash)
    BY <2>2, ConstantTypes
  <2> QED
    BY <2>2, <2>3, BestScoreNormal
<1>3. Scored(store, q) = [i \in 1 .. n |-> e(i)]
  BY DEF Scored
<1>4. ASSUME NEW i \in 1 .. n
      PROVE  e(i) \in Entry /\ ValueAt(store, q, i) \in Ranked
  BY <1>1, <1>2 DEF Entry, ValueAt, Ranked
<1>5. Scored(store, q) \in Seq(Entry) /\ Len(Scored(store, q)) = n
  <2> HIDE DEF e, Entry, n
  <2> QED
    BY <1>1, <1>3, <1>4
<1> QED
  BY <1>1, <1>3, <1>4, <1>5 DEF Places, ValueAt

Above(store, q, v) == {i \in Places(store) : RanksBelow(v, ValueAt(store, q, i))}
NotBelow(store, q, v) == {i \in Places(store) : ~RanksBelow(ValueAt(store, q, i), v)}

\* v is what place p of a ranking of the store reports: fewer than p checkpoints
\* rank above it, and at least p rank no lower.
AtPlace(store, q, p, v) ==
  Cardinality(Above(store, q, v)) < p /\ p <= Cardinality(NotBelow(store, q, v))

LEMMA PlacesFinite ==
  ASSUME NEW store, Len(store) \in Nat
  PROVE  /\ IsFiniteSet(Places(store)) /\ Cardinality(Places(store)) = Len(store)
         /\ \A T \in SUBSET Places(store) : IsFiniteSet(T) /\ Cardinality(T) \in Nat
<1> DEFINE n == Len(store)
<1>1. 1 \in Int /\ n \in Int
  OBVIOUS
<1> HIDE DEF n
<1>2. IsFiniteSet(1 .. n) /\ Cardinality(1 .. n) = IF 1 > n THEN 0 ELSE n - 1 + 1
  BY <1>1, FS_Interval
<1>3. Cardinality(1 .. n) = n
  BY <1>2 DEF n
<1>4. IsFiniteSet(Places(store)) /\ Cardinality(Places(store)) = n
  BY <1>2, <1>3 DEF Places, n
<1> QED
  BY <1>4, FS_Subset, FS_CardinalityType DEF n

\* What a later place reports does not rank above an earlier one.
LEMMA PlaceOrder ==
  ASSUME NEW store \in Seq(Checkpoint), NEW q \in Seq(Hash), max_drift \in Nat,
         NEW p \in Nat, NEW r \in Nat, p <= r, NEW v \in Ranked, NEW w \in Ranked,
         AtPlace(store, q, p, v), AtPlace(store, q, r, w)
  PROVE  ~RanksBelow(v, w)
<1> SUFFICES ASSUME RanksBelow(v, w) PROVE FALSE
  OBVIOUS
<1>1. Len(store) \in Nat /\ \A i \in Places(store) : ValueAt(store, q, i) \in Ranked
  BY ScoredIs
<1>2. NotBelow(store, q, w) \subseteq Above(store, q, v)
  <2> SUFFICES ASSUME NEW i \in NotBelow(store, q, w) PROVE i \in Above(store, q, v)
    OBVIOUS
  <2>1. i \in Places(store) /\ ~RanksBelow(ValueAt(store, q, i), w)
    BY DEF NotBelow
  <2>2. RanksBelow(v, ValueAt(store, q, i))
    BY <1>1, <2>1, RanksBelowOrder
  <2> QED
    BY <2>1, <2>2 DEF Above
<1>3. /\ IsFiniteSet(Above(store, q, v)) /\ Cardinality(Above(store, q, v)) \in Nat
      /\ Cardinality(NotBelow(store, q, w)) \in Nat
  BY <1>1, PlacesFinite DEF Above, NotBelow
<1>4. Cardinality(NotBelow(store, q, w)) <= Cardinality(Above(store, q, v))
  BY <1>2, <1>3, FS_Subset
<1> QED
  BY <1>3, <1>4 DEF AtPlace

\* A place of a ranking reports one thing.
LEMMA PlaceIsUnique ==
  ASSUME NEW store \in Seq(Checkpoint), NEW q \in Seq(Hash), max_drift \in Nat,
         NEW p \in Nat, NEW v \in Ranked, NEW w \in Ranked,
         AtPlace(store, q, p, v), AtPlace(store, q, p, w)
  PROVE  v = w
<1>1. ~RanksBelow(v, w) /\ ~RanksBelow(w, v)
  BY PlaceOrder
<1> QED
  BY <1>1, RanksBelowOrder

\* What a selection sorted reports in place p is what a ranking has there.
LEMMA AnswerPlaces ==
  ASSUME NEW store \in Seq(Checkpoint), NEW q \in Seq(Hash), max_drift \in Nat,
         NEW k \in Nat, NEW kept \in Selections(Scored(store, q), k), NEW s \in Sortings(kept),
         NEW p \in 1 .. k
  PROVE  LET v == [timestamp |-> s[p].timestamp, score |-> s[p].score]
         IN  v \in Ranked /\ AtPlace(store, q, p, v)
<1> DEFINE sc == Scored(store, q)
           N == Places(store)
           v == [timestamp |-> s[p].timestamp, score |-> s[p].score]
           V(i) == ValueAt(store, q, i)
<1>1. /\ DOMAIN sc = N /\ Len(store) \in Nat
      /\ \A i \in N : /\ sc[i] \in Entry /\ sc[i].index = i
                      /\ sc[i].timestamp = V(i).timestamp /\ sc[i].score = V(i).score
                      /\ V(i) \in Ranked
  BY ScoredIs
<1>2. /\ kept \in SUBSET ToSet(sc) /\ Cardinality(kept) = k
      /\ \A left \in kept, right \in ToSet(sc) \ kept : ~Precedes(right, left)
  BY DEF Selections, kSubset
<1> HIDE DEF sc, N, V
<1>3. /\ s \in [1 .. k -> kept] /\ ToSet(s) = kept /\ DOMAIN s = 1 .. k
      /\ \A i, j \in 1 .. k : i < j => ~Precedes(s[j], s[i])
  BY <1>2 DEF Sortings
<1>4. ASSUME NEW j \in 1 .. k
      PROVE  /\ s[j] \in Entry /\ s[j].index \in N /\ sc[s[j].index] = s[j]
             /\ V(s[j].index) = [timestamp |-> s[j].timestamp, score |-> s[j].score]
  <2>1. s[j] \in ToSet(sc)
    BY <1>2, <1>3
  <2>2. PICK i \in N : s[j] = sc[i]
    BY <1>1, <2>1 DEF ToSet
  <2>3. V(i) = [timestamp |-> V(i).timestamp, score |-> V(i).score]
    BY DEF V, ValueAt
  <2> QED
    BY <1>1, <2>2, <2>3
<1>5. v \in Ranked
  BY <1>1, <1>4
<1>6. \A i \in N : /\ RanksBelow(v, V(i)) => Precedes(sc[i], s[p])
                   /\ \A j \in 1 .. k : sc[i] = s[j] /\ RanksBelow(V(i), v) => Precedes(s[p], s[j])
  BY <1>1, <1>4 DEF RanksBelow, Precedes
<1>7. Cardinality(Above(store, q, v)) <= p - 1
  <2> DEFINE A == Above(store, q, v)
             g == [i \in A |-> CHOOSE j \in 1 .. p - 1 : s[j] = sc[i]]
  <2>1. \A i \in A : i \in N /\ RanksBelow(v, V(i))
    BY DEF Above, N, V
  <2> HIDE DEF A
  <2>2. ASSUME NEW i \in A PROVE \E j \in 1 .. p - 1 : s[j] = sc[i]
    <3>1. Precedes(sc[i], s[p]) /\ i \in N
      BY <1>6, <2>1
    <3>2. sc[i] \in ToSet(sc)
      BY <1>1, <3>1 DEF ToSet
    <3>3. s[p] \in kept
      BY <1>3
    <3>4. sc[i] \in kept
      BY <1>2, <3>1, <3>2, <3>3
    <3>5. PICK j \in 1 .. k : s[j] = sc[i]
      BY <1>3, <3>4 DEF ToSet
    <3>6. j # p
      BY <1>4, <3>1, <3>5, PrecedesOrder
    <3>7. ~(p < j)
      BY <1>3, <3>1, <3>5
    <3>8. j \in 1 .. p - 1
      BY <3>6, <3>7
    <3> QED
      BY <3>5, <3>8
  <2>3. g \in [A -> 1 .. p - 1] /\ \A i \in A : s[g[i]] = sc[i]
    BY <2>2
  <2> HIDE DEF g
  <2>4. \A x, y \in A : g[x] = g[y] => x = y
    BY <1>1, <2>1, <2>3
  <2>5. IsFiniteSet(1 .. p - 1) /\ Cardinality(1 .. p - 1) = p - 1
    <3>1. 1 \in Int /\ p - 1 \in Int
      OBVIOUS
    <3>2. IsFiniteSet(1 .. p - 1)
          /\ Cardinality(1 .. p - 1) = IF 1 > p - 1 THEN 0 ELSE (p - 1) - 1 + 1
      BY <3>1, FS_Interval
    <3> QED
      BY <3>2
  <2>6. Cardinality(A) <= p - 1
    BY <2>3, <2>4, <2>5, NoMore
  <2> QED
    BY <2>6 DEF A
<1>8. p <= Cardinality(NotBelow(store, q, v))
  <2> DEFINE B == NotBelow(store, q, v)
             h == [j \in 1 .. p |-> s[j].index]
  <2>1. IsFiniteSet(B)
    BY <1>1, PlacesFinite DEF NotBelow
  <2>2. ASSUME NEW j \in 1 .. p PROVE j \in 1 .. k /\ s[j].index \in B
    <3>1. j \in 1 .. k
      OBVIOUS
    <3>2. ~Precedes(s[p], s[j])
      <4>1. CASE j = p
        BY <1>4, <4>1, PrecedesOrder
      <4>2. CASE j # p
        BY <1>3, <3>1, <4>2
      <4> QED
        BY <4>1, <4>2
    <3>3. ~RanksBelow(V(s[j].index), v)
      BY <1>4, <1>6, <3>1, <3>2
    <3> QED
      BY <1>4, <3>1, <3>3 DEF NotBelow, N, V
  <2>3. \A x, y \in 1 .. k : s[x] = s[y] => x = y
    <3>1. s \in Surjection(1 .. k, kept)
      BY <1>3 DEF Surjection, ToSet
    <3>2. IsFiniteSet(1 .. k) /\ Cardinality(1 .. k) = k
      <4>1. 1 \in Int /\ k \in Int
        OBVIOUS
      <4>2. IsFiniteSet(1 .. k) /\ Cardinality(1 .. k) = IF 1 > k THEN 0 ELSE k - 1 + 1
        BY <4>1, FS_Interval
      <4> QED
        BY <4>2
    <3>3. s \in Injection(1 .. k, kept)
      BY <1>2, <3>1, <3>2, FS_Surjection
    <3> QED
      BY <3>3 DEF Injection, IsInjective
  <2>4. \A x, y \in 1 .. p : h[x] = h[y] => x = y
    <3> SUFFICES ASSUME NEW x \in 1 .. p, NEW y \in 1 .. p, h[x] = h[y] PROVE x = y
      OBVIOUS
    <3>1. s[x].index = s[y].index /\ x \in 1 .. k /\ y \in 1 .. k
      BY <2>2
    <3>2. s[x] = s[y]
      BY <1>4, <3>1
    <3> QED
      BY <2>3, <3>1, <3>2
  <2>5. h \in [1 .. p -> B]
    BY <2>2
  <2> HIDE DEF B, h
  <2>6. Cardinality(1 .. p) <= Cardinality(B)
    BY <2>1, <2>4, <2>5, NoMore
  <2>7. Cardinality(1 .. p) = p
    <3>1. 1 \in Int /\ p \in Int /\ ~(1 > p)
      OBVIOUS
    <3>2. Cardinality(1 .. p) = p - 1 + 1
      BY <3>1, FS_Interval
    <3> QED
      BY <3>1, <3>2
  <2> QED
    BY <2>6, <2>7 DEF B
<1>9. Cardinality(Above(store, q, v)) < p
  <2>1. Cardinality(Above(store, q, v)) \in Nat
    BY <1>1, PlacesFinite DEF Above
  <2> QED
    BY <1>7, <2>1
<1> QED
  BY <1>5, <1>8, <1>9 DEF AtPlace

\* A selection exists, and a way to sort it: those of the first k places of the
\* one order the comparator leaves.
LEMMA AnswerExists ==
  ASSUME NEW store \in Seq(Checkpoint), NEW q \in Seq(Hash), max_drift \in Nat,
         NEW k \in 0 .. Len(store)
  PROVE  \E kept \in Selections(Scored(store, q), k) : Sortings(kept) # {}
<1> DEFINE sc == Scored(store, q)
           N == Places(store)
           n == Len(store)
           Before(i) == {j \in N : Precedes(sc[j], sc[i])}
           r == [i \in N |-> Cardinality(Before(i))]
<1>1. /\ DOMAIN sc = N /\ n \in Nat /\ N = 1 .. n
      /\ \A i \in N : sc[i] \in Entry /\ sc[i].index = i
  BY ScoredIs DEF Places
<1>2. /\ IsFiniteSet(N) /\ Cardinality(N) = n
      /\ \A T \in SUBSET N : IsFiniteSet(T) /\ Cardinality(T) \in Nat
  BY <1>1, PlacesFinite
<1>3. k \in Nat /\ k <= n
  BY <1>1
<1> HIDE DEF sc, N, n
<1>4. ASSUME NEW i \in N, NEW j \in N
      PROVE  /\ ~Precedes(sc[i], sc[i])
             /\ i # j => Precedes(sc[i], sc[j]) \/ Precedes(sc[j], sc[i])
             /\ Precedes(sc[i], sc[j]) => Before(i) \cup {i} \subseteq Before(j) /\ i \notin Before(i)
  BY <1>1, PrecedesOrder
<1>5. \A i \in N : Before(i) \subseteq N
  OBVIOUS
<1> HIDE DEF Before
<1>6. ASSUME NEW i \in N, NEW j \in N, Precedes(sc[i], sc[j]) PROVE r[i] < r[j]
  <2>1. /\ Cardinality(Before(i) \cup {i}) = Cardinality(Before(i)) + 1
        /\ Cardinality(Before(i)) \in Nat /\ Cardinality(Before(j)) \in Nat
    BY <1>2, <1>4, <1>5, <1>6, FS_AddElement
  <2>2. Cardinality(Before(i) \cup {i}) <= Cardinality(Before(j))
    BY <1>2, <1>4, <1>5, <1>6, FS_Subset
  <2> QED
    BY <2>1, <2>2
<1>7. ASSUME NEW i \in N PROVE r[i] \in 0 .. n - 1
  <2>1. i \notin Before(i)
    BY <1>4 DEF Before
  <2>2. Before(i) \subseteq N \ {i} /\ IsFiniteSet(N \ {i}) /\ Cardinality(N \ {i}) = n - 1
    BY <1>2, <1>5, <2>1, FS_RemoveElement
  <2>3. Cardinality(Before(i)) <= n - 1 /\ Cardinality(Before(i)) \in Nat
    BY <1>2, <1>5, <2>2, FS_Subset
  <2> QED
    BY <1>1, <2>3
<1> HIDE DEF r
<1>8. ASSUME NEW i \in N, NEW j \in N, r[i] = r[j] PROVE i = j
  <2>1. r[i] \in Int /\ r[j] \in Int /\ ~(r[i] < r[j]) /\ ~(r[j] < r[i])
    BY <1>7, <1>8
  <2> QED
    BY <1>4, <1>6, <2>1
<1>9. \A p \in 0 .. n - 1 : \E i \in N : r[i] = p
  <2>1. r \in Injection(N, 0 .. n - 1)
    <3>1. r = [i \in N |-> Cardinality(Before(i))]
      BY DEF r
    <3> QED
      BY <1>7, <1>8, <3>1 DEF Injection, IsInjective
  <2>2. IsFiniteSet(0 .. n - 1) /\ Cardinality(0 .. n - 1) = n
    <3>1. 0 \in Int /\ n - 1 \in Int
      BY <1>1
    <3>2. IsFiniteSet(0 .. n - 1)
          /\ Cardinality(0 .. n - 1) = IF 0 > n - 1 THEN 0 ELSE (n - 1) - 0 + 1
      BY <3>1, FS_Interval
    <3> QED
      BY <1>1, <3>2
  <2>3. r \in Surjection(N, 0 .. n - 1)
    BY <1>2, <2>1, <2>2, FS_Injection
  <2> QED
    BY <2>3 DEF Surjection
<1> DEFINE at == [p \in 1 .. k |-> CHOOSE i \in N : r[i] = p - 1]
           s == [p \in 1 .. k |-> sc[at[p]]]
           kept == {sc[i] : i \in {j \in N : r[j] < k}}
<1>10. ASSUME NEW p \in 1 .. k PROVE at[p] \in N /\ r[at[p]] = p - 1
  <2>1. p - 1 \in 0 .. n - 1
    BY <1>1, <1>3
  <2>2. \E i \in N : r[i] = p - 1
    BY <1>9, <2>1
  <2> QED
    BY <2>2
<1> HIDE DEF at
<1>11. s \in [1 .. k -> kept] /\ \A x, y \in 1 .. k : s[x] = s[y] => x = y
  <2>1. ASSUME NEW p \in 1 .. k PROVE s[p] \in kept
    <3>1. r[at[p]] < k /\ at[p] \in N
      BY <1>3, <1>10
    <3> QED
      BY <3>1
  <2>2. ASSUME NEW x \in 1 .. k, NEW y \in 1 .. k, s[x] = s[y] PROVE x = y
    <3>1. at[x] = at[y]
      BY <1>1, <1>10, <2>2
    <3>2. x - 1 = y - 1
      BY <1>10, <3>1
    <3> QED
      BY <3>2
  <2> HIDE DEF kept
  <2> QED
    BY <2>1, <2>2
<1>12. ASSUME NEW x \in kept PROVE \E p \in 1 .. k : s[p] = x
  <2>1. PICK i \in N : x = sc[i] /\ r[i] < k
    OBVIOUS
  <2>2. r[i] + 1 \in 1 .. k /\ (r[i] + 1) - 1 = r[i]
    BY <1>1, <1>3, <1>7, <2>1
  <2>3. at[r[i] + 1] = i
    BY <1>8, <1>10, <2>2
  <2> QED
    BY <2>1, <2>2, <2>3
<1>13. Cardinality(kept) = k
  <2> HIDE DEF s, kept
  <2>1. IsFiniteSet(1 .. k) /\ Cardinality(1 .. k) = IF 1 > k THEN 0 ELSE k - 1 + 1
    <3>1. 1 \in Int /\ k \in Int
      BY <1>3
    <3> QED
      BY <3>1, FS_Interval
  <2>2. Cardinality(kept) = Cardinality(1 .. k)
    BY <1>11, <1>12, <2>1, SameCount
  <2> QED
    BY <1>3, <2>1, <2>2
<1>14. kept \in Selections(sc, k)
  <2>1. kept \in SUBSET ToSet(sc)
    BY <1>1 DEF ToSet
  <2>2. ASSUME NEW left \in kept, NEW right \in ToSet(sc) \ kept PROVE ~Precedes(right, left)
    <3>1. PICK i \in N : left = sc[i] /\ r[i] < k
      OBVIOUS
    <3>2. PICK j \in N : right = sc[j]
      BY <1>1 DEF ToSet
    <3>3. ~(r[j] < k)
      BY <2>2, <3>2
    <3>4. ~(r[j] < r[i])
      BY <1>3, <1>7, <3>1, <3>3
    <3> QED
      BY <1>6, <3>1, <3>2, <3>4
  <2> HIDE DEF kept
  <2> QED
    BY <1>13, <2>1, <2>2 DEF Selections, kSubset
<1>15. s \in Sortings(kept)
  <2>1. DOMAIN s = 1 .. k
    OBVIOUS
  <2>2. ASSUME NEW i \in 1 .. k, NEW j \in 1 .. k, i < j PROVE ~Precedes(s[j], s[i])
    <3>1. ~(j - 1 < i - 1)
      BY <2>2
    <3> QED
      BY <1>6, <1>10, <3>1
  <2> HIDE DEF s, kept
  <2>3. ToSet(s) = kept
    BY <1>11, <1>12, <2>1 DEF ToSet
  <2> QED
    BY <1>11, <1>13, <2>1, <2>2, <2>3 DEF Sortings
<1> QED
  BY <1>14, <1>15 DEF sc

\* Every answer of a query has what a ranking has, place by place, ...
LEMMA TopMatchesPlaces ==
  ASSUME NEW store \in Seq(Checkpoint), NEW q \in Seq(Hash), max_drift \in Nat,
         NEW m \in Nat, NEW t \in TopMatches(store, q, m)
  PROVE  /\ LesserOf(m, Len(store)) \in 0 .. Len(store) /\ Len(store) \in Nat
         /\ t \in Seq(Ranked) /\ Len(t) = LesserOf(m, Len(store))
         /\ \A p \in 1 .. Len(t) : AtPlace(store, q, p, t[p])
<1> DEFINE sc == Scored(store, q)
           k == LesserOf(m, Len(store))
           Reported(s) == [i \in 1 .. Len(s) |-> [timestamp |-> s[i].timestamp,
                                                  score |-> s[i].score]]
<1>1. Len(store) \in Nat /\ Len(sc) = Len(store)
  BY ScoredIs
<1>2. k \in Nat /\ k <= Len(store)
  BY <1>1 DEF LesserOf
<1>3. PICK kept \in Selections(sc, k) : \E s \in Sortings(kept) : t = Reported(s)
  BY <1>1 DEF TopMatches
<1>4. PICK s \in Sortings(kept) : t = Reported(s)
  BY <1>3
<1> HIDE DEF k
<1>5. s \in [1 .. k -> kept]
  BY <1>3 DEF Selections, kSubset, Sortings
<1>6. Len(s) = k
  <2>1. s \in Seq(kept)
    BY <1>2, <1>5
  <2> QED
    BY <1>2, <1>5, <2>1
<1>7. ASSUME NEW p \in 1 .. k
      PROVE  [timestamp |-> s[p].timestamp, score |-> s[p].score] \in Ranked
             /\ AtPlace(store, q, p, [timestamp |-> s[p].timestamp, score |-> s[p].score])
  BY <1>2, AnswerPlaces
<1>8. t = [i \in 1 .. k |-> [timestamp |-> s[i].timestamp, score |-> s[i].score]]
  BY <1>4, <1>6
<1>9. t \in Seq(Ranked) /\ Len(t) = k
  <2>1. t \in [1 .. k -> Ranked]
    BY <1>7, <1>8
  <2> HIDE DEF Ranked
  <2> QED
    BY <1>2, <2>1
<1> QED
  BY <1>1, <1>2, <1>7, <1>8, <1>9 DEF k

\* ... and there is one.
LEMMA TopMatchesExist ==
  ASSUME NEW store \in Seq(Checkpoint), NEW q \in Seq(Hash), max_drift \in Nat, NEW m \in Nat
  PROVE  TopMatches(store, q, m) # {}
<1> DEFINE sc == Scored(store, q)
           k == LesserOf(m, Len(store))
<1>1. Len(store) \in Nat /\ Len(sc) = Len(store)
  BY ScoredIs
<1>2. k \in 0 .. Len(store)
  BY <1>1 DEF LesserOf
<1> HIDE DEF k
<1>3. PICK kept \in Selections(sc, k) : Sortings(kept) # {}
  BY <1>2, AnswerExists
<1> DEFINE Reported(s) == [i \in 1 .. Len(s) |-> [timestamp |-> s[i].timestamp,
                                                 score |-> s[i].score]]
<1>4. TopMatches(store, q, m)
         = {Reported(s) : s \in UNION {Sortings(x) : x \in Selections(sc, k)}}
  BY <1>1 DEF TopMatches, k
<1>5. PICK s \in Sortings(kept) : TRUE
  BY <1>3
<1> HIDE DEF Reported, sc
<1>6. s \in UNION {Sortings(x) : x \in Selections(sc, k)}
  BY <1>3, <1>5
<1> QED
  BY <1>4, <1>6

\* The order checkpoints were added in has no part in a ranking.
LEMMA ReversedPlaces ==
  ASSUME NEW store \in Seq(Checkpoint), NEW q, NEW p, NEW v
  PROVE  /\ Reverse(store) \in Seq(Checkpoint) /\ Len(Reverse(store)) = Len(store)
         /\ AtPlace(Reverse(store), q, p, v) <=> AtPlace(store, q, p, v)
<1> DEFINE n == Len(store)
           R == Reverse(store)
           N == Places(store)
           m == [i \in N |-> (n - i) + 1]
<1>1. n \in Nat /\ N = 1 .. n
  BY DEF Places
<1>2. \A i \in N : store[i] \in Checkpoint
  BY DEF Places
<1> HIDE DEF n, N
<1>3. \A i \in N : m[i] \in N /\ m[m[i]] = i
  BY <1>1
<1>4. R = [i \in N |-> store[m[i]]]
  BY <1>1 DEF Reverse, n
<1> HIDE DEF m, R
<1>5. R \in Seq(Checkpoint) /\ Len(R) = n
  <2>1. R \in [1 .. n -> Checkpoint]
    BY <1>1, <1>2, <1>3, <1>4
  <2> HIDE DEF Checkpoint
  <2> QED
    BY <1>1, <2>1
<1>6. Places(R) = N
  BY <1>5 DEF Places, N, n
<1>7. \A i \in N : ValueAt(R, q, m[i]) = ValueAt(store, q, i)
  BY <1>3, <1>4 DEF ValueAt
<1>8. \A T \in SUBSET N : IsFiniteSet(T)
  BY <1>1, PlacesFinite DEF N, n
<1>9. ASSUME NEW T \in SUBSET N, NEW U \in SUBSET N, \A i \in N : i \in T <=> m[i] \in U
      PROVE  Cardinality(U) = Cardinality(T)
  <2> DEFINE g == [i \in T |-> m[i]]
  <2>1. g \in [T -> U]
    BY <1>9
  <2>2. \A x, y \in T : g[x] = g[y] => x = y
    BY <1>3
  <2>3. \A u \in U : \E x \in T : g[x] = u
    <3> SUFFICES ASSUME NEW u \in U PROVE \E x \in T : g[x] = u
      OBVIOUS
    <3>1. m[u] \in N /\ m[m[u]] = u
      BY <1>3
    <3>2. m[u] \in T
      BY <1>9, <3>1
    <3> QED
      BY <3>1, <3>2
  <2> HIDE DEF g
  <2> QED
    BY <1>8, <2>1, <2>2, <2>3, SameCount
<1>10. Cardinality(Above(R, q, v)) = Cardinality(Above(store, q, v))
  <2>1. \A i \in N : i \in Above(store, q, v) <=> m[i] \in Above(R, q, v)
    BY <1>3, <1>6, <1>7 DEF Above, N
  <2>2. Above(store, q, v) \in SUBSET N /\ Above(R, q, v) \in SUBSET N
    BY <1>6 DEF Above, N
  <2> QED
    BY <1>9, <2>1, <2>2
<1>11. Cardinality(NotBelow(R, q, v)) = Cardinality(NotBelow(store, q, v))
  <2>1. \A i \in N : i \in NotBelow(store, q, v) <=> m[i] \in NotBelow(R, q, v)
    BY <1>3, <1>6, <1>7 DEF NotBelow, N
  <2>2. NotBelow(store, q, v) \in SUBSET N /\ NotBelow(R, q, v) \in SUBSET N
    BY <1>6 DEF NotBelow, N
  <2> QED
    BY <1>9, <2>1, <2>2
<1> QED
  BY <1>5, <1>10, <1>11 DEF AtPlace, R, n

-----------------------------------------------------------------------------
\* The matcher

\* What is kept of a query is an answer to it from the checkpoints stored.
MatcherInv ==
  /\ checkpoints \in Seq(Checkpoint) /\ Len(checkpoints) <= MAX_CHECKPOINTS
  /\ max_drift \in Drifts
  /\ asked.query \in Seq(Hash) /\ asked.max_results \in Nat
  /\ results \in TopMatches(checkpoints, asked.query, asked.max_results)

\* A query that asks for nothing has one answer, whatever is stored.
Forgotten ==
  /\ checkpoints \in Seq(Checkpoint) /\ Len(checkpoints) <= MAX_CHECKPOINTS
  /\ max_drift \in Drifts
  /\ results = <<>> /\ asked = NoQuestion

LEMMA NothingAsked == Forgotten => MatcherInv
<1> SUFFICES ASSUME Forgotten PROVE MatcherInv
  OBVIOUS
<1> DEFINE q == asked.query
           m == asked.max_results
<1>1. /\ q \in Seq(Hash) /\ max_drift \in Nat /\ checkpoints \in Seq(Checkpoint) /\ m = 0 /\ m \in Nat
  BY ConstantTypes DEF Forgotten, NoQuestion
<1> HIDE DEF q, m
<1>2. PICK t \in TopMatches(checkpoints, q, m) : TRUE
  BY <1>1, TopMatchesExist
<1>3. t \in Seq(Ranked) /\ Len(t) = LesserOf(m, Len(checkpoints)) /\ Len(checkpoints) \in Nat
  BY <1>1, <1>2, TopMatchesPlaces
<1>4. Len(t) = 0
  BY <1>1, <1>3 DEF LesserOf
<1>5. t = <<>>
  <2> HIDE DEF Ranked
  <2> QED
    BY <1>3, <1>4
<1>6. results \in TopMatches(checkpoints, asked.query, asked.max_results)
  BY <1>2, <1>5 DEF Forgotten, q, m
<1> QED
  BY <1>1, <1>6 DEF MatcherInv, Forgotten, q, m

LEMMA NothingAskedNext == Forgotten' => MatcherInv'
  BY NothingAsked, PTL

LEMMA MatcherInit == Init => MatcherInv
<1> SUFFICES ASSUME Init PROVE MatcherInv
  OBVIOUS
<1>1. <<>> \in Seq(Checkpoint) /\ Len(<<>>) = 0
  <2> HIDE DEF Checkpoint
  <2> QED
    OBVIOUS
<1>2. Forgotten
  BY <1>1, ConstantTypes DEF Init, Forgotten
<1> QED
  BY <1>2, NothingAsked

LEMMA MatcherStep == MatcherInv /\ [Next]_vars => MatcherInv'
<1> SUFFICES ASSUME MatcherInv, [Next]_vars PROVE MatcherInv'
  OBVIOUS
<1>1. /\ checkpoints \in Seq(Checkpoint) /\ Len(checkpoints) <= MAX_CHECKPOINTS
      /\ max_drift \in Drifts /\ MAX_CHECKPOINTS \in Nat
  BY ConstantTypes DEF MatcherInv
<1>2. CASE AddCheckpoint
  <2>1. PICK c \in Checkpoint : checkpoints' = Append(checkpoints, c)
    BY <1>2 DEF AddCheckpoint, Checkpoint
  <2>2. checkpoints' \in Seq(Checkpoint) /\ Len(checkpoints') <= MAX_CHECKPOINTS
    <3>1. Len(checkpoints) < MAX_CHECKPOINTS /\ Len(checkpoints) \in Nat
      BY <1>1, <1>2 DEF AddCheckpoint
    <3> HIDE DEF Checkpoint
    <3>2. checkpoints' \in Seq(Checkpoint) /\ Len(checkpoints') = Len(checkpoints) + 1
      BY <1>1, <2>1
    <3> QED
      BY <1>1, <3>1, <3>2
  <2>3. Forgotten'
    BY <1>1, <1>2, <2>2 DEF AddCheckpoint, Forget, Forgotten, NoQuestion
  <2> QED
    BY <2>3, NothingAskedNext
<1>3. CASE ClearCheckpoints
  <2>1. checkpoints' \in Seq(Checkpoint) /\ Len(checkpoints') <= MAX_CHECKPOINTS
    <3> HIDE DEF Checkpoint
    <3> QED
      BY <1>1, <1>3 DEF ClearCheckpoints
  <2>2. Forgotten'
    BY <1>1, <1>3, <2>1 DEF ClearCheckpoints, Forget, Forgotten, NoQuestion
  <2> QED
    BY <2>2, NothingAskedNext
<1>4. CASE SetDrift
  <2>1. Forgotten'
    BY <1>1, <1>4 DEF SetDrift, Forget, Forgotten, NoQuestion
  <2> QED
    BY <2>1, NothingAskedNext
<1>5. CASE FindTopMatches
  <2>1. PICK query \in Queries, m \in 0 .. MAX_CHECKPOINTS + 1 :
               /\ results' \in TopMatches(checkpoints, query, m)
               /\ asked' = [query |-> query, max_results |-> m]
               /\ UNCHANGED <<checkpoints, max_drift>>
    BY <1>5 DEF FindTopMatches
  <2>2. query \in Seq(Hash) /\ m \in Nat
    BY <1>1, ConstantTypes
  <2>3. asked'.query = query /\ asked'.max_results = m /\ checkpoints' = checkpoints
        /\ max_drift' = max_drift
    BY <2>1
  <2>4. TopMatches(checkpoints, asked.query, asked.max_results)' = TopMatches(checkpoints, query, m)
    BY <2>3 DEF TopMatches, Scored, BestScore
  <2> QED
    BY <1>1, <2>1, <2>2, <2>3, <2>4 DEF MatcherInv
<1>6. CASE UNCHANGED vars
  <2>1. /\ checkpoints' = checkpoints /\ max_drift' = max_drift /\ results' = results
        /\ asked' = asked
    BY <1>6 DEF vars
  <2>2. TopMatches(checkpoints, asked.query, asked.max_results)'
           = TopMatches(checkpoints, asked.query, asked.max_results)
    BY <2>1 DEF TopMatches, Scored, BestScore
  <2> QED
    BY <2>1, <2>2 DEF MatcherInv
<1> QED
  BY <1>2, <1>3, <1>4, <1>5, <1>6 DEF Next

\* The matcher's result is always an answer to what was asked of it last.
THEOREM MatcherInvariance == Spec => []MatcherInv
  BY MatcherInit, MatcherStep, PTL DEF Spec

LEMMA MatcherFacts ==
  ASSUME MatcherInv
  PROVE  /\ checkpoints \in Seq(Checkpoint) /\ Len(checkpoints) \in Nat /\ max_drift \in Nat
         /\ asked.query \in Seq(Hash) /\ asked.max_results \in Nat
         /\ results \in Seq(Ranked) /\ Len(results) = LesserOf(asked.max_results, Len(checkpoints))
         /\ \A p \in 1 .. Len(results) : AtPlace(checkpoints, asked.query, p, results[p])
<1>1. /\ checkpoints \in Seq(Checkpoint) /\ max_drift \in Nat
      /\ asked.query \in Seq(Hash) /\ asked.max_results \in Nat
      /\ results \in TopMatches(checkpoints, asked.query, asked.max_results)
  BY ConstantTypes DEF MatcherInv
<1> QED
  BY <1>1, TopMatchesPlaces

\* A query returns as many results as were asked for and as there are checkpoints.
THEOREM MatcherTypeCorrect == Spec => []TypeOK
<1>1. MatcherInv => TypeOK
  <2> SUFFICES ASSUME MatcherInv PROVE TypeOK
    OBVIOUS
  <2>1. Ranked \subseteq Match
    BY DEF Ranked, Match, Scores
  <2>2. results \in Seq(Match) /\ Len(results) = LesserOf(asked.max_results, Len(checkpoints))
    <3> HIDE DEF Ranked, Match
    <3>1. results \in Seq(Ranked)
      BY MatcherFacts
    <3>2. results \in Seq(Match)
      BY <2>1, <3>1
    <3> QED
      BY <3>2, MatcherFacts
  <2> QED
    BY <2>2 DEF TypeOK, MatcherInv, Checkpoint
<1> QED
  BY <1>1, MatcherInvariance, PTL

\* The results are in rank order, and no checkpoint that is left out ranks above
\* one of them, for any store, query and number of results.
THEOREM MatcherReturnsBest == Spec => []ResultsAreTheBest
<1>1. MatcherInv => ResultsAreTheBest
  <2> SUFFICES ASSUME MatcherInv PROVE ResultsAreTheBest
    OBVIOUS
  <2> DEFINE q == asked.query
             n == Len(results)
  <2>1. /\ checkpoints \in Seq(Checkpoint) /\ max_drift \in Nat /\ q \in Seq(Hash)
        /\ results \in Seq(Ranked)
        /\ \A p \in 1 .. n : AtPlace(checkpoints, q, p, results[p])
    BY MatcherFacts
  <2>2. n \in Nat /\ DOMAIN results = 1 .. n /\ \A p \in 1 .. n : results[p] \in Ranked
    <3> HIDE DEF Ranked
    <3> QED
      BY <2>1
  <2> HIDE DEF q, n
  <2>3. ASSUME NEW i \in DOMAIN results, NEW j \in DOMAIN results, i < j
        PROVE  ~RanksBelow(results[i], results[j])
    <3>1. i \in 1 .. n /\ j \in 1 .. n /\ i \in Nat /\ j \in Nat /\ i <= j
      BY <2>2, <2>3
    <3> QED
      BY <2>1, <2>2, <3>1, PlaceOrder
  <2>4. ASSUME results # <<>>
        PROVE  Cardinality({i \in DOMAIN checkpoints :
                   RanksBelow(results[n], [timestamp |-> checkpoints[i].timestamp,
                                           score |-> BestScore(q, checkpoints[i].hashes)])}) < n
    <3>1. n \in 1 .. n
      <4>1. n # 0
        <5> HIDE DEF Ranked
        <5> QED
          BY <2>1, <2>4 DEF n
      <4> QED
        BY <2>2, <4>1
    <3>2. DOMAIN checkpoints = Places(checkpoints)
      <4> HIDE DEF Checkpoint
      <4> QED
        BY <2>1 DEF Places
    <3>3. Cardinality(Above(checkpoints, q, results[n])) < n
      BY <2>1, <3>1 DEF AtPlace
    <3> QED
      BY <3>2, <3>3 DEF Above, ValueAt
  <2> QED
    BY <2>3, <2>4 DEF ResultsAreTheBest, q, n
<1> QED
  BY <1>1, MatcherInvariance, PTL

\* Any selection of the best, in any arrangement and of checkpoints added in the
\* opposite order, gives the same results, and fewer of them their beginning.
THEOREM MatcherAnswerDetermined == Spec => []AnswerIsDetermined
<1>1. MatcherInv => AnswerIsDetermined
  <2> SUFFICES ASSUME MatcherInv,
                      NEW store \in {checkpoints, Reverse(checkpoints)},
                      NEW n \in 0 .. asked.max_results
               PROVE  TopMatches(store, asked.query, n)
                         = {SubSeq(results, 1, LesserOf(n, Len(results)))}
    BY DEF AnswerIsDetermined
  <2> DEFINE q == asked.query
             m == asked.max_results
             N == Len(checkpoints)
             k == LesserOf(n, Len(results))
  <2>1. /\ checkpoints \in Seq(Checkpoint) /\ N \in Nat /\ max_drift \in Nat
        /\ q \in Seq(Hash) /\ m \in Nat
        /\ results \in Seq(Ranked) /\ Len(results) = LesserOf(m, N)
        /\ \A p \in 1 .. Len(results) : AtPlace(checkpoints, q, p, results[p])
    BY MatcherFacts
  <2>2. /\ store \in Seq(Checkpoint) /\ Len(store) = N
        /\ \A p, v : AtPlace(store, q, p, v) <=> AtPlace(checkpoints, q, p, v)
    <3>1. /\ Reverse(checkpoints) \in Seq(Checkpoint) /\ Len(Reverse(checkpoints)) = N
          /\ \A p, v : AtPlace(Reverse(checkpoints), q, p, v) <=> AtPlace(checkpoints, q, p, v)
      BY <2>1, ReversedPlaces
    <3> QED
      BY <2>1, <3>1
  <2>3. n \in Nat /\ n <= m
    BY <2>1
  <2>4. k = LesserOf(n, N) /\ k \in Nat /\ k <= Len(results)
    BY <2>1, <2>3 DEF LesserOf
  <2>5. /\ \A p \in 1 .. k : results[p] \in Ranked /\ p \in 1 .. Len(results)
        /\ SubSeq(results, 1, k) = [p \in 1 .. k |-> results[p]]
    <3> HIDE DEF Ranked, k
    <3>1. \A p \in 1 .. k : p \in 1 .. Len(results)
      BY <2>1, <2>4
    <3> QED
      BY <2>1, <2>4, <3>1
  <2> HIDE DEF q, k
  <2>6. ASSUME NEW t \in TopMatches(store, q, n)
        PROVE  t = SubSeq(results, 1, k)
    <3>1. t \in Seq(Ranked) /\ Len(t) = k /\ \A p \in 1 .. Len(t) : AtPlace(store, q, p, t[p])
      BY <2>1, <2>2, <2>3, <2>4, TopMatchesPlaces
    <3>2. ASSUME NEW p \in 1 .. k PROVE t[p] = results[p]
      <4>1. t[p] \in Ranked
        <5> HIDE DEF Ranked
        <5> QED
          BY <3>1
      <4>2. AtPlace(checkpoints, q, p, t[p]) /\ AtPlace(checkpoints, q, p, results[p]) /\ p \in Nat
        BY <2>1, <2>2, <2>4, <2>5, <3>1
      <4> QED
        BY <2>1, <2>5, <4>1, <4>2, PlaceIsUnique
    <3>3. t = [p \in 1 .. k |-> t[p]]
      <4> HIDE DEF Ranked
      <4> QED
        BY <3>1
    <3> QED
      BY <2>5, <3>2, <3>3
  <2>7. TopMatches(store, q, n) # {}
    BY <2>1, <2>2, <2>3, TopMatchesExist
  <2> QED
    BY <2>6, <2>7 DEF q, k
<1> QED
  BY <1>1, MatcherInvariance, PTL

-----------------------------------------------------------------------------
\* What a checkpoint is stored as

\* A number of 32 bits, as CheckpointMatcherAssumption says it
LEMMA U32Is ==
  ASSUME NEW x \in Nat, FitsU32(x)
  PROVE  x \in U32
<1>1. x < (x \div 65536) * 65536 + 65536 /\ x \div 65536 \in Nat
  BY DivBounds, SMT
<1> DEFINE d == x \div 65536
<1> HIDE DEF d
<1>2. d <= 65535 /\ d \in Nat /\ x < d * 65536 + 65536
  BY <1>1, SMT DEF d, FitsU32
<1> QED
  BY <1>2, SMT DEF U32

LEMMA PowOf32 == Pow(32) = 4294967296
<1>1. Pow(1) = 2
  <2>1. 0 + 1 = 1
    BY SMT
  <2> QED
    BY <2>1, PowFacts, SMT
<1>2. Pow(2) = 4
  <2>1. 1 + 1 = 2
    BY SMT
  <2> QED
    BY <1>1, <2>1, PowSum, SMT
<1>3. Pow(4) = 16
  <2>1. 2 + 2 = 4
    BY SMT
  <2> QED
    BY <1>2, <2>1, PowSum, SMT
<1>4. Pow(8) = 256
  <2>1. 4 + 4 = 8
    BY SMT
  <2> QED
    BY <1>3, <2>1, PowSum, SMT
<1>5. Pow(16) = 65536
  <2>1. 8 + 8 = 16
    BY SMT
  <2> QED
    BY <1>4, <2>1, PowSum, SMT
<1>6. 16 + 16 = 32
  BY SMT
<1> QED
  BY <1>5, <1>6, PowSum, SMT

LEMMA WordIsU32 ==
  ASSUME NEW hash
  PROVE  Word(hash) \in U32
<1> DEFINE bit == [k \in 1 .. WORD_BITS |-> IF k - 1 \in hash THEN 2^(k - 1) ELSE 0]
<1>1. WORD_BITS \in Nat /\ WORD_BITS <= 32
  BY HashComparisonAssumption, ConstantTypes
<1>2. Word(hash) = SumTo(bit, WORD_BITS)
  BY DEF Word, SMT
<1>3. \A k \in 1 .. WORD_BITS : bit[k] = (IF k - 1 \in hash THEN Pow(k - 1) ELSE 0)
  BY DEF Pow, SMT
<1> HIDE DEF bit
<1>4. PICK g : /\ g[0] = 0 /\ SumTo(bit, WORD_BITS) = g[WORD_BITS]
               /\ \A k \in 1 .. WORD_BITS : g[k] = g[k - 1] + bit[k]
  BY <1>1, SumIs, SMT
<1> DEFINE S == {n \in Nat : n <= WORD_BITS => g[n] \in Nat /\ g[n] < Pow(n)}
<1>5. 0 \in S
  BY <1>4, PowFacts, SMT
<1>6. ASSUME NEW n \in Nat, n \in S PROVE n + 1 \in S
  <2> SUFFICES ASSUME n + 1 <= WORD_BITS PROVE g[n + 1] \in Nat /\ g[n + 1] < Pow(n + 1)
    BY SMT
  <2>1. n <= WORD_BITS /\ n + 1 \in 1 .. WORD_BITS /\ (n + 1) - 1 = n
    BY <1>1, SMT
  <2>2. g[n] \in Nat /\ g[n] < Pow(n)
    BY <1>6, <2>1, SMT
  <2>3. bit[n + 1] = IF n \in hash THEN Pow(n) ELSE 0
    BY <1>3, <2>1, SMT
  <2>4. g[n + 1] = g[n] + bit[n + 1]
    BY <1>4, <2>1, SMT
  <2>5. Pow(n) \in Nat /\ Pow(n + 1) = 2 * Pow(n)
    BY PowFacts, SMT
  <2> QED
    BY <2>2, <2>3, <2>4, <2>5, SMT
<1> HIDE DEF S
<1>7. WORD_BITS \in S
  BY <1>1, <1>5, <1>6, NatInd, SMT
<1>8. g[WORD_BITS] \in Nat /\ g[WORD_BITS] < Pow(WORD_BITS)
  BY <1>1, <1>7, SMT DEF S
<1>9. Pow(WORD_BITS) <= 4294967296 /\ Pow(WORD_BITS) \in Nat
  <2>1. Pow(WORD_BITS) <= Pow(32)
    BY <1>1, PowMonotone, SMT
  <2>2. Pow(WORD_BITS) \in Nat
    BY <1>1, PowFacts
  <2> QED
    BY <2>1, <2>2, PowOf32, SMT
<1> QED
  BY <1>2, <1>4, <1>8, <1>9, SMT DEF U32

\* A fingerprint of a checkpoint's hashes that is stored is loaded as it was,
\* whatever follows it, and one that lost its end is refused.
THEOREM MatcherLoadedAsSaved == Spec => []LoadedAsSaved
<1>1. MatcherInv => LoadedAsSaved
  <2> SUFFICES ASSUME MatcherInv, NEW k \in DOMAIN checkpoints
               PROVE  LET hashes == [i \in DOMAIN checkpoints[k].hashes |->
                                        Word(checkpoints[k].hashes[i])]
                          duration == checkpoints[k].duration
                          saved == ToBytes(hashes, duration)
                      IN  /\ \A trailing \in {<<>>, << 255 >>, SubSeq(saved, 1, 8)} :
                                FromBytes(saved \o trailing)
                                    = <<[hashes |-> hashes, duration_ms |-> duration]>>
                          /\ \A length \in 0 .. Len(saved) - 1 :
                                FromBytes(SubSeq(saved, 1, length)) = <<>>
    BY DEF LoadedAsSaved
  <2> DEFINE stored == checkpoints[k].hashes
             hashes == [i \in DOMAIN stored |-> Word(stored[i])]
             duration == checkpoints[k].duration
             saved == ToBytes(hashes, duration)
  <2>1. checkpoints[k] \in Checkpoint
    <3> HIDE DEF Checkpoint
    <3>1. checkpoints \in Seq(Checkpoint)
      BY MatcherFacts
    <3> QED
      BY <3>1
  <2>2. stored \in StoredSequences /\ duration \in Durations
    BY <2>1 DEF Checkpoint
  <2>3. stored \in Seq(Hash) /\ FitsU32(Len(stored)) /\ duration \in Nat /\ FitsU32(duration)
    BY <2>2, ConstantTypes
  <2> HIDE DEF stored, duration
  <2>4. DOMAIN stored = 1 .. Len(stored) /\ Len(stored) \in Nat
    BY <2>3, SMT
  <2>5. Len(stored) \in U32 /\ duration \in U32
    BY <2>3, <2>4, U32Is, SMT
  <2>6. hashes \in Seq(U32) /\ Len(hashes) = Len(stored)
    <3>1. hashes \in [1 .. Len(stored) -> U32]
      BY <2>4, WordIsU32
    <3> HIDE DEF U32, hashes
    <3> QED
      BY <2>4, <3>1
  <2> HIDE DEF hashes
  <2>7. saved \in Seq(Byte) /\ Len(saved) = 8 + 4 * Len(hashes)
    BY <2>5, <2>6, BytesType DEF saved
  <2>8. ASSUME NEW trailing \in {<<>>, << 255 >>, SubSeq(saved, 1, 8)}
        PROVE  FromBytes(saved \o trailing) = <<[hashes |-> hashes, duration_ms |-> duration]>>
    <3>1. trailing \in Seq(Byte)
      <4>1. 255 \in Byte
        BY DEF Byte
      <4> HIDE DEF Byte, saved
      <4>2. SubSeq(saved, 1, 8) \in Seq(Byte)
        <5>1. Len(hashes) \in Nat
          BY <2>4, <2>6
        <5> QED
          BY <2>7, <5>1
      <4>3. <<>> \in Seq(Byte) /\ << 255 >> \in Seq(Byte)
        BY <4>1, SMT
      <4>4. trailing = <<>> \/ trailing = << 255 >> \/ trailing = SubSeq(saved, 1, 8)
        OBVIOUS
      <4>5. CASE trailing = <<>>
        BY <4>3, <4>5, SMT
      <4>6. CASE trailing = << 255 >>
        BY <4>3, <4>6, SMT
      <4>7. CASE trailing = SubSeq(saved, 1, 8)
        BY <4>2, <4>7, SMT
      <4> QED
        BY <4>4, <4>5, <4>6, <4>7, SMT
    <3> QED
      BY <2>5, <2>6, <3>1, RoundTrip
  <2>9. ASSUME NEW length \in 0 .. Len(saved) - 1
        PROVE  FromBytes(SubSeq(saved, 1, length)) = <<>>
    <3>1. length \in 0 .. 7 + 4 * Len(hashes)
      BY <2>4, <2>6, <2>7
    <3> QED
      BY <2>5, <2>6, <3>1, CutIsRefused
  <2> QED
    BY <2>8, <2>9 DEF saved, hashes, duration, stored
<1> QED
  BY <1>1, MatcherInvariance, PTL
=============================================================================

-------------------------- MODULE StreamResamplerProofs --------------------------
(***************************************************************************)
(* Streaming through the resampler agrees with resampling in one shot, for  *)
(* every rate, every kernel width, every chunking, any number of flushes,   *)
(* and whichever of its f64 results fall short.                             *)
(***************************************************************************)
EXTENDS StreamResampler, TLAPS

-----------------------------------------------------------------------------
\* Arithmetic

LEMMA QuotientBounds ==
  ASSUME NEW a \in Nat, NEW d \in Nat \ {0}
  PROVE  /\ a \div d \in Nat
         /\ (a \div d) * d <= a
         /\ a < (a \div d) * d + d
  OBVIOUS

LEMMA ProductMonotone ==
  ASSUME NEW a \in Int, NEW b \in Int, NEW d \in Nat, a <= b
  PROVE  a * d <= b * d
<1>1. PICK m \in Nat : b = a + m
  OBVIOUS
<1>2. b * d = a * d + m * d /\ m * d \in Nat
  BY <1>1
<1> QED
  BY <1>2

LEMMA FactorLess ==
  ASSUME NEW a \in Int, NEW b \in Int, NEW d \in Nat \ {0}, a * d < b * d
  PROVE  a < b
<1> SUFFICES ASSUME b <= a PROVE FALSE
  OBVIOUS
<1>1. b * d <= a * d
  BY ProductMonotone
<1>2. a * d \in Int /\ b * d \in Int
  OBVIOUS
<1> QED
  BY <1>1, <1>2

\* A quotient floored in f64 is at most the exact one, and short of it by no more
\* than one.
LEMMA FloorBounds ==
  ASSUME NEW x \in Nat, NEW y \in Nat \ {0}, NEW short \in BOOLEAN
  PROVE  /\ FloorF64(x, y, short) \in Nat
         /\ FloorF64(x, y, short) * y <= x
         /\ x <= FloorF64(x, y, short) * y + y
<1> DEFINE q == x \div y
<1>1. q \in Nat /\ q * y <= x /\ x < q * y + y /\ q * y \in Nat
  BY QuotientBounds
<1>2. FloorF64(x, y, short) = q \/ (FloorF64(x, y, short) = q - 1 /\ x % y = 0 /\ x > 0)
  BY DEF FloorF64
<1> HIDE DEF q
<1>3. CASE FloorF64(x, y, short) = q
  BY <1>1, <1>3
<1>4. CASE FloorF64(x, y, short) = q - 1 /\ x % y = 0 /\ x > 0
  <2>1. q # 0
    <3> SUFFICES ASSUME q = 0 PROVE FALSE
      OBVIOUS
    <3>1. x < y
      BY <1>1
    <3>2. x % y = x
      BY <3>1
    <3> QED
      BY <1>4, <3>2
  <2>2. (q - 1) * y = q * y - y /\ x = q * y
    <3>1. x = (x \div y) * y + (x % y)
      OBVIOUS
    <3> QED
      BY <1>1, <1>4, <3>1 DEF q
  <2>3. (q - 1) * y <= x /\ x <= (q - 1) * y + y
    BY <1>1, <2>2
  <2>4. q - 1 \in Nat
    BY <1>1, <2>1
  <2> QED
    BY <1>4, <2>3, <2>4
<1> QED
  BY <1>2, <1>3, <1>4

\* Nothing strictly under the exact quotient is lost.
LEMMA FloorReaches ==
  ASSUME NEW x \in Nat, NEW y \in Nat \ {0}, NEW short \in BOOLEAN, NEW j \in Int,
         j * y < x
  PROVE  j <= FloorF64(x, y, short)
<1> DEFINE f == FloorF64(x, y, short)
<1>1. f \in Nat /\ x <= f * y + y
  BY FloorBounds
<1> HIDE DEF f
<1>2. j * y < (f + 1) * y
  BY <1>1
<1>3. j < f + 1
  BY <1>1, <1>2, FactorLess
<1> QED
  BY <1>1, <1>3 DEF f

LEMMA FloorMonotone ==
  ASSUME NEW x1 \in Nat, NEW x2 \in Nat, x1 < x2, NEW y \in Nat \ {0},
         NEW short1 \in BOOLEAN, NEW short2 \in BOOLEAN
  PROVE  FloorF64(x1, y, short1) <= FloorF64(x2, y, short2)
<1> DEFINE f == FloorF64(x1, y, short1)
<1>1. f \in Nat /\ f * y <= x1
  BY FloorBounds
<1> HIDE DEF f
<1>2. f * y < x2
  BY <1>1
<1>3. f <= FloorF64(x2, y, short2)
  BY <1>1, <1>2, FloorReaches
<1> QED
  BY <1>3 DEF f

-----------------------------------------------------------------------------
\* The kernel

LEMMA KernelType ==
  ASSUME kernel \in Kernels
  PROVE  /\ kernel.source_rate \in Nat \ {0} /\ kernel.target_rate \in Nat \ {0}
         /\ kernel.half_width \in Nat \ {0}
         /\ kernel.source_rate <= kernel.half_width * kernel.target_rate
  BY StreamResamplerAssumption DEF Kernel

\* Outputs are at positions in order.
LEMMA PositionStep ==
  ASSUME kernel \in Kernels, NEW n \in Nat
  PROVE  Position(n) \in Nat /\ Position(n + 1) \in Nat /\ Position(n) <= Position(n + 1)
<1> DEFINE s == kernel.source_rate
           t == kernel.target_rate
<1>1. s \in Nat \ {0} /\ t \in Nat \ {0}
  BY KernelType
<1> HIDE DEF s, t
<1>2. n * s \in Nat /\ (n + 1) * s \in Nat /\ n * s < (n + 1) * s
  BY <1>1
<1>3. (n \in kernel.short_positions) \in BOOLEAN /\ (n + 1 \in kernel.short_positions) \in BOOLEAN
  OBVIOUS
<1> QED
  BY <1>1, <1>2, <1>3, FloorBounds, FloorMonotone DEF Position, s, t

\* A longer source has no shorter one-shot output.
LEMMA LengthMonotone ==
  ASSUME kernel \in Kernels, NEW a \in Nat, NEW b \in Nat, a <= b
  PROVE  OutputLen(a) \in Nat /\ OutputLen(b) \in Nat /\ OutputLen(a) <= OutputLen(b)
<1> DEFINE s == kernel.source_rate
           t == kernel.target_rate
<1>1. s \in Nat \ {0} /\ t \in Nat \ {0}
  BY KernelType
<1> HIDE DEF s, t
<1>2. a * t \in Nat /\ b * t \in Nat
  BY <1>1
<1>3. (a \in kernel.short_lengths) \in BOOLEAN /\ (b \in kernel.short_lengths) \in BOOLEAN
  OBVIOUS
<1>4. OutputLen(a) \in Nat /\ OutputLen(b) \in Nat
  BY <1>1, <1>2, <1>3, FloorBounds DEF OutputLen, s, t
<1>5. CASE a < b
  <2>1. a * t < b * t
    <3>1. (a + 1) * t <= b * t
      BY <1>1, <1>5, ProductMonotone
    <3>2. (a + 1) * t = a * t + t
      BY <1>1
    <3> QED
      BY <1>1, <1>2, <3>1, <3>2
  <2> QED
    BY <1>1, <1>2, <1>3, <1>4, <2>1, FloorMonotone DEF OutputLen, s, t
<1>6. CASE a = b
  BY <1>4, <1>6
<1> QED
  BY <1>5, <1>6

\* An output whose last tap has arrived is one of the one-shot output.
LEMMA ArrivedIsWithin ==
  ASSUME kernel \in Kernels, NEW n \in Nat, NEW total \in Nat, LastSourceIndex(n) < total
  PROVE  n + 1 <= OutputLen(total)
<1> DEFINE s == kernel.source_rate
           t == kernel.target_rate
           w == kernel.half_width
           p == Position(n)
<1>1. s \in Nat \ {0} /\ t \in Nat \ {0} /\ w \in Nat \ {0} /\ s <= w * t
  BY KernelType
<1>2. p \in Nat /\ p + w + 2 <= total
  BY <1>1, PositionStep DEF LastSourceIndex
<1>3. n * s <= p * t + t
  <2>1. n * s \in Nat /\ (n \in kernel.short_positions) \in BOOLEAN
    BY <1>1
  <2> QED
    BY <1>1, <2>1, FloorBounds DEF Position
<1> HIDE DEF s, t, w, p
<1>4. (n + 1) * s <= (p + 1 + w) * t
  <2>1. (n + 1) * s = n * s + s /\ (p + 1 + w) * t = p * t + t + w * t
    BY <1>1, <1>2
  <2>2. n * s \in Nat /\ p * t \in Nat /\ w * t \in Nat
    BY <1>1, <1>2
  <2> QED
    BY <1>1, <1>3, <2>1, <2>2
<1>5. (p + 1 + w) * t < total * t
  <2>1. (p + 2 + w) * t <= total * t
    BY <1>1, <1>2, ProductMonotone
  <2>2. (p + 2 + w) * t = (p + 1 + w) * t + t
    BY <1>1, <1>2
  <2>3. (p + 1 + w) * t \in Nat /\ total * t \in Nat
    BY <1>1, <1>2
  <2> QED
    BY <1>1, <2>1, <2>2, <2>3
<1>6. (n + 1) * s < total * t /\ total * t \in Nat
  <2>1. (n + 1) * s \in Nat /\ (p + 1 + w) * t \in Nat /\ total * t \in Nat
    BY <1>1, <1>2
  <2> QED
    BY <1>4, <1>5, <2>1
<1>7. (total \in kernel.short_lengths) \in BOOLEAN
  OBVIOUS
<1>8. n + 1 <= FloorF64(total * t, s, total \in kernel.short_lengths)
  <2> DEFINE x == total * t
             j == n + 1
             short == total \in kernel.short_lengths
  <2>1. x \in Nat /\ j \in Int /\ short \in BOOLEAN /\ j * s < x
    BY <1>6, <1>7
  <2> HIDE DEF x, j, short
  <2>2. j <= FloorF64(x, s, short)
    BY <1>1, <2>1, FloorReaches
  <2> QED
    BY <2>2 DEF x, j, short
<1> QED
  BY <1>8 DEF OutputLen, s, t

-----------------------------------------------------------------------------
\* The inductive invariant

LastFlush == flushes[Len(flushes)]

\* Outputs are counted, and there are no more of them than the one-shot ones.
Counted ==
    /\ next_output = Len(AllReleased)
    /\ Len(AllReleased) <= OutputLen(source)

\* The history begins with the last flush or later, and no later than what the
\* next output reads.
HistoryHeld ==
    /\ \A f \in 1 .. Len(flushes) : flushes[f].at <= history_start
    /\ \/ history_start <= FirstSourceIndex(next_output)
       \/ history_start = 0
       \/ \E f \in 1 .. Len(flushes) : history_start = flushes[f].at

FlushesPast ==
    \A f \in 1 .. Len(flushes) :
        flushes[f].at <= source /\ flushes[f].upto <= Len(released)

\* An output that no flush released had all of its taps, unless a flush is just
\* releasing it.
Arrived ==
    \A k \in 1 .. Len(AllReleased) :
        \/ pc = "flush"
        \/ \E f \in 1 .. Len(flushes) : k - 1 < flushes[f].upto
        \/ LastSourceIndex(k - 1) < source

\* A flush at the end of the source released all there is.
FlushComplete ==
    pc # "flush" /\ flushes # <<>> /\ LastFlush.at = source =>
        Len(AllReleased) = OutputLen(source) /\ LastFlush.upto = Len(AllReleased)

IInv ==
    /\ TypeOK
    /\ HistoryAligned
    /\ Counted
    /\ HistoryHeld
    /\ FlushesPast
    /\ Arrived
    /\ FlushComplete
    /\ ReadsBetweenFlushes

LEMMA InitInv == Init => IInv
<1> SUFFICES ASSUME Init PROVE IInv
  OBVIOUS
<1>1. /\ kernel \in Kernels /\ history = <<>> /\ history_start = 0 /\ next_output = 0
      /\ pc = "idle" /\ output = <<>> /\ source = 0 /\ released = <<>> /\ flushes = <<>>
  BY DEF Init
<1>2. TypeOK
  BY <1>1, StreamResamplerAssumption DEF TypeOK
<1>3. HistoryAligned
  BY <1>1, KernelType DEF HistoryAligned, Total
<1>4. AllReleased = <<>> /\ Len(AllReleased) = 0
  BY <1>1 DEF AllReleased
<1>5. Counted
  BY <1>1, <1>4, LengthMonotone DEF Counted
<1>6. HistoryHeld /\ FlushesPast
  BY <1>1 DEF HistoryHeld, FlushesPast
<1>7. Arrived /\ ReadsBetweenFlushes
  BY <1>4 DEF Arrived, ReadsBetweenFlushes
<1>8. FlushComplete
  BY <1>1 DEF FlushComplete
<1> QED
  BY <1>2, <1>3, <1>5, <1>6, <1>7, <1>8 DEF IInv

\* What TypeOK gives of the outputs as a whole
LEMMA ReleasedType ==
  ASSUME TypeOK
  PROVE  /\ AllReleased \in Seq(Value)
         /\ pc # "idle" => Len(AllReleased) = Len(released) + Len(output)
         /\ pc # "idle" => \A k \in 1 .. Len(released) : AllReleased[k] = released[k]
         /\ pc = "idle" => AllReleased = released
<1> DEFINE V == Value
<1>1. released \in Seq(V) /\ output \in Seq(V)
  BY DEF TypeOK
<1> HIDE DEF V
<1> QED
  BY <1>1 DEF AllReleased, V
-----------------------------------------------------------------------------
\* What a step leaves as it was

LEMMA KernelKept ==
  ASSUME kernel' = kernel
  PROVE  /\ Taps' = Taps /\ Value' = Value
         /\ \A n : /\ LastSourceIndex(n)' = LastSourceIndex(n)
                  /\ FirstSourceIndex(n)' = FirstSourceIndex(n)
                  /\ OutputLen(n)' = OutputLen(n)
  BY DEF Taps, Value, LastSourceIndex, FirstSourceIndex, Position, OutputLen, FloorF64

\* The positions the taps of an output are at.
LEMMA TapPositions ==
  ASSUME kernel \in Kernels, NEW n \in Nat
  PROVE  /\ FirstSourceIndex(n) \in Int /\ LastSourceIndex(n) \in Nat
         /\ \A tap \in Taps : /\ FirstSourceIndex(n) + tap \in Int
                              /\ FirstSourceIndex(n) <= FirstSourceIndex(n) + tap
                              /\ FirstSourceIndex(n) + tap <= LastSourceIndex(n)
<1>1. Position(n) \in Nat /\ kernel.half_width \in Nat
  BY KernelType, PositionStep
<1> QED
  BY <1>1 DEF FirstSourceIndex, LastSourceIndex, Taps

LEMMA FlushType ==
  ASSUME flushes \in Seq([at : Nat, from : Nat, upto : Nat])
  PROVE  /\ Len(flushes) \in Nat
         /\ \A f \in 1 .. Len(flushes) : flushes[f].at \in Nat /\ flushes[f].upto \in Nat
<1> DEFINE F == [at : Nat, from : Nat, upto : Nat]
<1>1. \A r \in F : r.at \in Nat /\ r.upto \in Nat
  OBVIOUS
<1>2. flushes \in Seq(F)
  OBVIOUS
<1> HIDE DEF F
<1>3. Len(flushes) \in Nat /\ \A f \in 1 .. Len(flushes) : flushes[f] \in F
  BY <1>2
<1> QED
  BY <1>1, <1>3

\* The next output reads from the history what lies between the flushes.
LEMMA NextReads ==
  ASSUME IInv, pc # "idle"
  PROVE  LET v == SampleAt(history, next_output, history_start)
         IN  /\ v \in Value
             /\ v.index = next_output
             /\ \A tap \in Taps : v.reads[tap] = ContextOf(next_output, tap)
<1> DEFINE n == next_output
           v == SampleAt(history, n, history_start)
           first == FirstSourceIndex(n) - history_start
<1>1. /\ kernel \in Kernels /\ n \in Nat /\ history \in Seq(Nat) /\ source \in Nat
      /\ history_start \in 0 .. source /\ released \in Seq(Value) /\ output \in Seq(Value)
      /\ flushes \in Seq([at : Nat, from : Nat, upto : Nat])
  BY StreamResamplerAssumption DEF IInv, TypeOK
<1>2. /\ \A k \in 1 .. Len(history) : history[k] = history_start + k - 1
      /\ history_start + Len(history) = source
  BY DEF IInv, HistoryAligned, Total
<1>3. \A f \in 1 .. Len(flushes) : flushes[f].upto <= n
  <2>1. n = Len(released) + Len(output)
    BY ReleasedType DEF IInv, Counted
  <2>2. \A f \in 1 .. Len(flushes) : flushes[f].upto \in Nat /\ flushes[f].upto <= Len(released)
    BY <1>1, FlushType DEF IInv, FlushesPast
  <2>3. Len(released) \in Nat /\ Len(output) \in Nat
    BY <1>1
  <2> QED
    BY <2>1, <2>2, <2>3
<1>4. v.index = n /\ v.reads = [tap \in Taps |-> IF first + tap \in 0 .. Len(history) - 1
                                 THEN history[first + tap + 1] ELSE ZERO]
  BY DEF SampleAt
<1>5. v = [index |-> n, reads |-> v.reads]
  BY DEF SampleAt
<1> HIDE DEF v
<1>6. ASSUME NEW tap \in Taps
      PROVE  v.reads[tap] = ContextOf(n, tap) /\ v.reads[tap] \in Nat \cup {ZERO}
  <2> DEFINE a == FirstSourceIndex(n) + tap
  <2>1. a \in Int /\ FirstSourceIndex(n) \in Int /\ FirstSourceIndex(n) <= a
    BY <1>1, TapPositions
  <2>2. first + tap = a - history_start
    BY <1>1, <2>1, KernelType DEF Taps
  <2>3. v.reads[tap] = IF first + tap \in 0 .. Len(history) - 1
                       THEN history[first + tap + 1] ELSE ZERO
    BY <1>4
  <2>4. \A f \in 1 .. Len(flushes) : flushes[f].upto \in Nat /\ flushes[f].at \in Nat
    BY <1>1, FlushType
  <2>5. ContextOf(n, tap) = IF /\ a \in 0 .. source - 1
                               /\ \A f \in 1 .. Len(flushes) : a >= flushes[f].at
                            THEN a ELSE ZERO
    <3>1. \A f \in 1 .. Len(flushes) : ~ (n < flushes[f].upto)
      BY <1>1, <1>3, <2>4
    <3> QED
      BY <3>1 DEF ContextOf
  <2>9. \A f \in 1 .. Len(flushes) : flushes[f].at <= history_start
    BY DEF IInv, HistoryHeld
  <2>10. \/ history_start <= FirstSourceIndex(n)
         \/ history_start = 0
         \/ \E f \in 1 .. Len(flushes) : history_start = flushes[f].at
    BY DEF IInv, HistoryHeld
  <2>11. history_start \in Nat /\ Len(history) \in Nat
    BY <1>1
  <2> HIDE DEF first, a
  <2>6. CASE history_start <= a /\ a < source
    <3>1. first + tap \in 0 .. Len(history) - 1 /\ history[first + tap + 1] = a
      <4>1. first + tap = a - history_start /\ Len(history) = source - history_start
        BY <1>1, <1>2, <2>2, <2>11
      <4>2. first + tap \in 0 .. Len(history) - 1
        BY <1>1, <2>1, <2>6, <2>11, <4>1
      <4>3. history[first + tap + 1] = history_start + (first + tap + 1) - 1
        BY <1>2, <2>1, <2>11, <4>1, <4>2
      <4> QED
        BY <2>1, <2>11, <4>1, <4>2, <4>3
    <3>2. \A f \in 1 .. Len(flushes) : a >= flushes[f].at
      BY <2>1, <2>4, <2>6, <2>9, <2>11
    <3>3. a \in 0 .. source - 1 /\ a \in Nat
      BY <1>1, <2>1, <2>6
    <3> QED
      BY <2>3, <2>5, <3>1, <3>2, <3>3
  <2>7. CASE a >= source
    <3>1. ~ (first + tap \in 0 .. Len(history) - 1) /\ ~ (a \in 0 .. source - 1)
      BY <1>1, <1>2, <2>1, <2>2, <2>7
    <3> QED
      BY <2>3, <2>5, <3>1
  <2>8. CASE a < history_start
    <3>1. ~ (first + tap \in 0 .. Len(history) - 1)
      BY <1>1, <1>2, <2>1, <2>2, <2>8
    <3>2. history_start = 0 \/ \E f \in 1 .. Len(flushes) : history_start = flushes[f].at
      BY <2>1, <2>8, <2>10, <2>11
    <3>5. ContextOf(n, tap) = ZERO
      <4>1. CASE history_start = 0
        <5>1. ~ (a \in 0 .. source - 1)
          BY <2>1, <2>8, <4>1
        <5> QED
          BY <2>5, <5>1
      <4>2. CASE \E f \in 1 .. Len(flushes) : history_start = flushes[f].at
        <5>1. PICK f \in 1 .. Len(flushes) : history_start = flushes[f].at
          BY <4>2
        <5>2. ~ (a >= flushes[f].at)
          BY <2>1, <2>8, <2>11, <5>1
        <5> QED
          BY <2>5, <5>2
      <4> QED
        BY <3>2, <4>1, <4>2
    <3> QED
      BY <2>3, <3>1, <3>5
  <2> QED
    BY <1>1, <2>1, <2>6, <2>7, <2>8
<1>7. v \in Value
  <2>1. v.reads \in [Taps -> Nat \cup {ZERO}]
    BY <1>4, <1>6
  <2> QED
    BY <1>1, <1>5, <2>1 DEF Value
<1> QED
  BY <1>4, <1>6, <1>7 DEF v
LEMMA ContextKept ==
  ASSUME kernel' = kernel, source' = source, flushes' = flushes
  PROVE  \A n, tap : ContextOf(n, tap)' = ContextOf(n, tap)
  BY DEF ContextOf, FirstSourceIndex, Position, FloorF64

\* What a step that emits an output of the one-shot output preserves.
LEMMA EmitInv ==
  ASSUME IInv, Emit, pc # "idle", next_output + 1 <= OutputLen(source),
         pc = "push" => LastSourceIndex(next_output) < source
  PROVE  IInv'
<1> DEFINE n == next_output
           v == SampleAt(history, next_output, history_start)
           V == Value
           all == AllReleased
<1>1. /\ output' = Append(output, v) /\ next_output' = n + 1
      /\ UNCHANGED <<kernel, history, history_start, pc, source, released, flushes>>
  BY DEF Emit, past
<1>2. /\ v \in V /\ v.index = n
      /\ \A tap \in Taps : v.reads[tap] = ContextOf(n, tap)
  BY NextReads
<1>3. /\ kernel \in Kernels /\ n \in Nat /\ output \in Seq(V) /\ released \in Seq(V)
      /\ source \in Nat /\ OutputLen(source) \in Nat
  BY StreamResamplerAssumption, LengthMonotone DEF IInv, TypeOK
<1>4. Taps' = Taps /\ V' = V
  BY <1>1, KernelKept
<1>5. \A m : /\ LastSourceIndex(m)' = LastSourceIndex(m)
             /\ FirstSourceIndex(m)' = FirstSourceIndex(m)
             /\ OutputLen(m)' = OutputLen(m)
  BY <1>1, KernelKept
<1>6. all = released \o output /\ all' = released \o Append(output, v)
  BY <1>1 DEF AllReleased
<1>7. n = Len(all) /\ Len(all) <= OutputLen(source)
  BY DEF IInv, Counted
<1> HIDE DEF v, V
<1>8. /\ Len(all') = n + 1 /\ all'[n + 1] = v
      /\ \A k \in 1 .. n : all'[k] = all[k]
  <2>1. Len(output) \in Nat /\ Len(released) \in Nat
    BY <1>3
  <2>2. n = Len(released) + Len(output)
    BY <1>3, <1>6, <1>7
  <2>3. Len(Append(output, v)) = Len(output) + 1 /\ Append(output, v) \in Seq(V)
    BY <1>2, <1>3
  <2>4. Len(all') = n + 1
    BY <1>3, <1>6, <2>1, <2>2, <2>3
  <2>5. all'[n + 1] = v
    BY <1>2, <1>3, <1>6, <2>1, <2>2, <2>3
  <2>6. ASSUME NEW k \in 1 .. n PROVE all'[k] = all[k]
    BY <1>2, <1>3, <1>6, <2>1, <2>2, <2>3
  <2> QED
    BY <2>4, <2>5, <2>6
<1> HIDE DEF all
<1>9. TypeOK'
  <2>1. output' \in Seq(V)
    BY <1>1, <1>2, <1>3
  <2>2. next_output' \in Nat
    BY <1>1, <1>3
  <2> QED
    BY <1>1, <1>4, <2>1, <2>2 DEF IInv, TypeOK, V
<1>10. HistoryAligned'
  BY <1>1 DEF IInv, HistoryAligned, Total
<1>11. Counted'
  BY <1>1, <1>3, <1>5, <1>8 DEF Counted, all
<1>12. HistoryHeld'
  <2>1. FirstSourceIndex(n) <= FirstSourceIndex(n + 1)
    <3>1. /\ Position(n) \in Nat /\ Position(n + 1) \in Nat /\ Position(n) <= Position(n + 1)
          /\ kernel.half_width \in Nat
      BY <1>3, PositionStep, KernelType
    <3> QED
      BY <3>1 DEF FirstSourceIndex
  <2>2. FirstSourceIndex(n) \in Int /\ FirstSourceIndex(n + 1) \in Int
    BY <1>3, TapPositions
  <2>3. history_start \in Int
    BY <1>3 DEF IInv, TypeOK
  <2>4. history_start <= FirstSourceIndex(n) => history_start <= FirstSourceIndex(n + 1)
    BY <2>1, <2>2, <2>3
  <2> QED
    BY <1>1, <1>5, <2>4 DEF IInv, HistoryHeld
<1>13. FlushesPast'
  BY <1>1 DEF IInv, FlushesPast
<1>14. Arrived'
  <2> SUFFICES ASSUME NEW k \in 1 .. n + 1, pc # "flush"
               PROVE  \/ \E f \in 1 .. Len(flushes) : k - 1 < flushes[f].upto
                      \/ LastSourceIndex(k - 1) < source
    BY <1>1, <1>5, <1>8 DEF Arrived, all
  <2>1. CASE k = n + 1
    <3>1. pc = "push" /\ k - 1 = n
      BY <1>3, <2>1 DEF IInv, TypeOK
    <3> QED
      BY <3>1
  <2>2. CASE k \in 1 .. n
    BY <1>7, <2>2 DEF IInv, Arrived, all
  <2> QED
    BY <1>3, <2>1, <2>2
<1>15. FlushComplete'
  <2> SUFFICES ASSUME pc # "flush", flushes # <<>>, LastFlush.at = source PROVE FALSE
    BY <1>1 DEF FlushComplete, LastFlush
  <2>1. Len(all) = OutputLen(source)
    BY DEF IInv, FlushComplete, all
  <2> QED
    BY <1>3, <1>7, <2>1
<1>16. ReadsBetweenFlushes'
  <2>1. \A m, tap : ContextOf(m, tap)' = ContextOf(m, tap)
    BY <1>1, ContextKept
  <2> SUFFICES ASSUME NEW k \in 1 .. n + 1
               PROVE  /\ all'[k].index = k - 1
                      /\ \A tap \in Taps : all'[k].reads[tap] = ContextOf(k - 1, tap)
    BY <1>4, <1>8, <2>1 DEF ReadsBetweenFlushes, all
  <2>2. CASE k = n + 1
    <3>1. k - 1 = n /\ all'[k] = v
      BY <1>3, <1>8, <2>2
    <3> QED
      BY <1>2, <3>1
  <2>3. CASE k \in 1 .. n
    <3>1. all'[k] = all[k]
      BY <1>8, <2>3
    <3> QED
      BY <1>7, <2>3, <3>1 DEF IInv, ReadsBetweenFlushes, all
  <2> QED
    BY <1>3, <2>2, <2>3
<1> QED
  BY <1>9, <1>10, <1>11, <1>12, <1>13, <1>14, <1>15, <1>16 DEF IInv

LEMMA PushOutputInv == IInv /\ PushOutput => IInv'
<1> SUFFICES ASSUME IInv, PushOutput PROVE IInv'
  OBVIOUS
<1>1. Total = source /\ kernel \in Kernels /\ next_output \in Nat /\ source \in Nat
  BY StreamResamplerAssumption DEF IInv, HistoryAligned, TypeOK
<1>2. pc = "push" /\ LastSourceIndex(next_output) < source /\ Emit
  BY <1>1 DEF PushOutput
<1>3. next_output + 1 <= OutputLen(source)
  BY <1>1, <1>2, ArrivedIsWithin
<1> QED
  BY <1>2, <1>3, EmitInv

LEMMA FlushOutputInv == IInv /\ FlushOutput => IInv'
<1> SUFFICES ASSUME IInv, FlushOutput PROVE IInv'
  OBVIOUS
<1>1. Total = source /\ kernel \in Kernels /\ next_output \in Nat /\ source \in Nat
  BY StreamResamplerAssumption DEF IInv, HistoryAligned, TypeOK
<1>2. pc = "flush" /\ next_output < OutputLen(source) /\ Emit /\ OutputLen(source) \in Nat
  BY <1>1, LengthMonotone DEF FlushOutput
<1> QED
  BY <1>1, <1>2, EmitInv
LEMMA StutterInv == IInv /\ UNCHANGED vars => IInv'
<1> SUFFICES ASSUME IInv, UNCHANGED vars PROVE IInv'
  OBVIOUS
<1>1. UNCHANGED <<kernel, history, history_start, next_output, pc, output, source,
                  released, flushes>>
  BY DEF vars, buffer, past
<1>2. /\ Taps' = Taps /\ Value' = Value /\ AllReleased' = AllReleased
      /\ \A n : /\ LastSourceIndex(n)' = LastSourceIndex(n)
               /\ FirstSourceIndex(n)' = FirstSourceIndex(n)
               /\ OutputLen(n)' = OutputLen(n)
      /\ \A n, tap : ContextOf(n, tap)' = ContextOf(n, tap)
  BY <1>1, KernelKept, ContextKept DEF AllReleased
<1>3. TypeOK' /\ HistoryAligned'
  BY <1>1, <1>2 DEF IInv, TypeOK, HistoryAligned, Total
<1>4. Counted' /\ HistoryHeld' /\ FlushesPast'
  BY <1>1, <1>2 DEF IInv, Counted, HistoryHeld, FlushesPast
<1>5. Arrived' /\ FlushComplete'
  BY <1>1, <1>2 DEF IInv, Arrived, FlushComplete, LastFlush
<1>6. ReadsBetweenFlushes'
  BY <1>1, <1>2 DEF IInv, ReadsBetweenFlushes
<1> QED
  BY <1>3, <1>4, <1>5, <1>6 DEF IInv

LEMMA FlushInv == IInv /\ Flush => IInv'
<1> SUFFICES ASSUME IInv, Flush PROVE IInv'
  OBVIOUS
<1>1. /\ pc = "idle" /\ pc' = "flush" /\ output' = <<>>
      /\ UNCHANGED <<kernel, history, history_start, next_output, source, released, flushes>>
  BY DEF Flush, buffer, past
<1>2. AllReleased' = AllReleased
  <2> DEFINE V == Value
  <2>1. released \in Seq(V)
    BY DEF IInv, TypeOK
  <2> HIDE DEF V
  <2>2. released \o <<>> = released
    BY <2>1
  <2> QED
    BY <1>1, <2>2 DEF AllReleased
<1>3. /\ Taps' = Taps /\ Value' = Value
      /\ \A n : /\ LastSourceIndex(n)' = LastSourceIndex(n)
               /\ FirstSourceIndex(n)' = FirstSourceIndex(n)
               /\ OutputLen(n)' = OutputLen(n)
      /\ \A n, tap : ContextOf(n, tap)' = ContextOf(n, tap)
  BY <1>1, KernelKept, ContextKept
<1>4. TypeOK'
  <2>1. output' \in Seq(Value)
    BY <1>1
  <2> QED
    BY <1>1, <1>3, <2>1 DEF IInv, TypeOK
<1>5. HistoryAligned'
  BY <1>1, <1>3 DEF IInv, HistoryAligned, Total
<1>6. Counted' /\ HistoryHeld' /\ FlushesPast'
  BY <1>1, <1>2, <1>3 DEF IInv, Counted, HistoryHeld, FlushesPast
<1>7. Arrived' /\ FlushComplete'
  BY <1>1 DEF Arrived, FlushComplete
<1>8. ReadsBetweenFlushes'
  BY <1>1, <1>2, <1>3 DEF IInv, ReadsBetweenFlushes
<1> QED
  BY <1>4, <1>5, <1>6, <1>7, <1>8 DEF IInv

LEMMA ResetInv == IInv /\ Reset => IInv'
<1> SUFFICES ASSUME IInv, Reset PROVE IInv'
  OBVIOUS
<1>1. /\ kernel' = kernel /\ kernel \in Kernels /\ history' = <<>> /\ history_start' = 0
      /\ next_output' = 0 /\ pc' = "idle" /\ output' = <<>> /\ source' = 0
      /\ released' = <<>> /\ flushes' = <<>>
  BY DEF Reset, IInv, TypeOK
<1>2. TypeOK'
  BY <1>1, StreamResamplerAssumption DEF TypeOK
<1>3. HistoryAligned'
  BY <1>1, KernelType DEF HistoryAligned, Total
<1>4. AllReleased' = <<>> /\ Len(AllReleased') = 0
  BY <1>1 DEF AllReleased
<1>5. Counted'
  <2>1. OutputLen(0)' = OutputLen(0) /\ OutputLen(0) \in Nat
    BY <1>1, KernelKept, LengthMonotone
  <2> QED
    BY <1>1, <1>4, <2>1 DEF Counted
<1>6. HistoryHeld' /\ FlushesPast'
  BY <1>1 DEF HistoryHeld, FlushesPast
<1>7. Arrived' /\ ReadsBetweenFlushes'
  BY <1>4 DEF Arrived, ReadsBetweenFlushes
<1>8. FlushComplete'
  BY <1>1 DEF FlushComplete
<1> QED
  BY <1>2, <1>3, <1>5, <1>6, <1>7, <1>8 DEF IInv
LEMMA ConcatAt ==
  ASSUME NEW g \in Seq(Nat), NEW h \in Seq(Nat)
  PROVE  /\ g \o h \in Seq(Nat) /\ Len(g \o h) = Len(g) + Len(h)
         /\ Len(g) \in Nat /\ Len(h) \in Nat
         /\ \A k \in 1 .. Len(g) : (g \o h)[k] = g[k]
         /\ \A k \in 1 .. Len(h) : (g \o h)[Len(g) + k] = h[k]
  OBVIOUS

\* The source samples from start on and before end
Gapless(h, start, end) ==
    /\ h \in Seq(Nat)
    /\ start + Len(h) = end
    /\ \A k \in 1 .. Len(h) : h[k] = start + k - 1

LEMMA ChunkGapless ==
  ASSUME NEW start \in Nat, NEW n \in Nat
  PROVE  Gapless([i \in 1 .. n |-> start + i - 1], start, start + n)
<1>1. PICK chunk : chunk = [i \in 1 .. n |-> start + i - 1]
  OBVIOUS
<1>2. chunk \in Seq(Nat)
  <2>1. \A i \in 1 .. n : start + i - 1 \in Nat
    OBVIOUS
  <2> QED
    BY <1>1, <2>1
<1>3. Len(chunk) = n /\ \A i \in 1 .. n : chunk[i] = start + i - 1
  BY <1>1
<1> QED
  BY <1>1, <1>2, <1>3 DEF Gapless

\* The source samples pushed follow those held.
LEMMA GaplessConcat ==
  ASSUME NEW start \in Nat, NEW total \in Nat, NEW end \in Nat, NEW h, NEW chunk,
         Gapless(h, start, total), Gapless(chunk, total, end)
  PROVE  Gapless(h \o chunk, start, end)
<1>0. /\ h \in Seq(Nat) /\ chunk \in Seq(Nat)
      /\ start + Len(h) = total /\ total + Len(chunk) = end
      /\ \A k \in 1 .. Len(h) : h[k] = start + k - 1
      /\ \A i \in 1 .. Len(chunk) : chunk[i] = total + i - 1
  BY DEF Gapless
<1>1. PICK g : g = h \o chunk
  OBVIOUS
<1>2. /\ g \in Seq(Nat) /\ Len(g) = Len(h) + Len(chunk)
      /\ Len(h) \in Nat /\ Len(chunk) \in Nat
  BY <1>0, <1>1, ConcatAt
<1>3. \A k \in 1 .. Len(h) : g[k] = h[k]
  BY <1>0, <1>1, ConcatAt
<1>4. \A k \in 1 .. Len(chunk) : g[Len(h) + k] = chunk[k]
  BY <1>0, <1>1, ConcatAt
<1>5. PICK held \in Nat : held = Len(h)
  BY <1>2
<1>6. PICK new \in Nat : new = Len(chunk)
  BY <1>2
<1>7. start + held = total /\ Len(g) = held + new /\ total + new = end
  BY <1>0, <1>2, <1>5, <1>6
<1>8. start + Len(g) = end
  BY <1>7
<1>9. ASSUME NEW k \in 1 .. Len(g) PROVE g[k] = start + k - 1
  <2>1. k \in Nat /\ k <= held + new /\ 1 <= k
    BY <1>7
  <2>2. CASE k <= held
    <3>1. k \in 1 .. Len(h)
      BY <1>5, <2>1, <2>2
    <3> QED
      BY <1>0, <1>3, <3>1
  <2>3. CASE k > held
    <3>1. PICK i \in 1 .. Len(chunk) : k = held + i
      <4>1. k - held \in 1 .. Len(chunk) /\ k = held + (k - held)
        BY <1>6, <2>1, <2>3
      <4> QED
        BY <4>1
    <3>2. g[k] = chunk[i] /\ chunk[i] = total + i - 1
      BY <1>0, <1>4, <1>5, <3>1
    <3>3. i \in Nat
      BY <3>1
    <3>4. total + i - 1 = start + k - 1
      BY <1>7, <3>1, <3>3
    <3> QED
      BY <3>2, <3>4
  <2> QED
    BY <2>1, <2>2, <2>3
<1> QED
  BY <1>1, <1>2, <1>8, <1>9 DEF Gapless

LEMMA PushInv ==
  ASSUME IInv, NEW n \in 0 .. MAX_CHUNK, Push(n)
  PROVE  IInv'
<1>1. /\ pc = "idle" /\ pc' = "push" /\ output' = <<>> /\ source' = source + n
      /\ source + n <= MAX_SOURCE
      /\ history' = history \o [i \in 1 .. n |-> source + i - 1]
      /\ UNCHANGED <<kernel, history_start, next_output, released, flushes>>
  BY DEF Push
<1>2. /\ kernel \in Kernels /\ next_output \in Nat /\ history \in Seq(Nat) /\ source \in Nat
      /\ history_start \in 0 .. source /\ n \in Nat /\ MAX_SOURCE \in Nat
      /\ flushes \in Seq([at : Nat, from : Nat, upto : Nat])
  BY StreamResamplerAssumption DEF IInv, TypeOK
<1>3. AllReleased' = AllReleased
  <2> DEFINE V == Value
  <2>1. released \in Seq(V)
    BY DEF IInv, TypeOK
  <2> HIDE DEF V
  <2>2. released \o <<>> = released
    BY <2>1
  <2> QED
    BY <1>1, <2>2 DEF AllReleased
<1>4. /\ Taps' = Taps /\ Value' = Value
      /\ \A m : /\ LastSourceIndex(m)' = LastSourceIndex(m)
               /\ FirstSourceIndex(m)' = FirstSourceIndex(m)
               /\ OutputLen(m)' = OutputLen(m)
  BY <1>1, KernelKept
<1>5. /\ \A f \in 1 .. Len(flushes) : /\ flushes[f].at \in Nat /\ flushes[f].upto \in Nat
                                     /\ flushes[f].at <= source
      /\ Len(flushes) \in Nat
  BY <1>2, FlushType DEF IInv, FlushesPast
<1>6. /\ \A k \in 1 .. Len(history) : history[k] = history_start + k - 1
      /\ history_start + Len(history) = source /\ Len(history) \in Nat
  BY <1>2 DEF IInv, HistoryAligned, Total
<1>7. /\ history' \in Seq(Nat) /\ history_start + Len(history') = source + n
      /\ \A k \in 1 .. Len(history') : history'[k] = history_start + k - 1
  <2>1. history \in Seq(Nat) /\ history_start \in Nat /\ source \in Nat /\ n \in Nat
    BY <1>2
  <2> QED
    <3> DEFINE chunk == [i \in 1 .. n |-> source + i - 1]
               end == source + n
    <3>1. Gapless(history, history_start, source)
      BY <1>6, <2>1 DEF Gapless
    <3>2. Gapless(chunk, source, end) /\ end \in Nat
      BY <2>1, ChunkGapless
    <3>3. history' = history \o chunk
      BY <1>1
    <3> HIDE DEF chunk, end
    <3>4. Gapless(history', history_start, end)
      BY <2>1, <3>1, <3>2, <3>3, GaplessConcat
    <3> QED
      BY <3>4 DEF Gapless, end
<1>8. TypeOK'
  <2>1. output' \in Seq(Value)
    BY <1>1
  <2>2. source' \in 0 .. MAX_SOURCE /\ history_start' \in 0 .. source'
    BY <1>1, <1>2
  <2> QED
    BY <1>1, <1>4, <1>7, <2>1, <2>2 DEF IInv, TypeOK
<1>9. HistoryAligned'
  BY <1>1, <1>7 DEF HistoryAligned, Total
<1>10. Counted'
  <2>1. /\ OutputLen(source) <= OutputLen(source + n)
        /\ OutputLen(source) \in Nat /\ OutputLen(source + n) \in Nat
    <3> DEFINE later == source + n
    <3>1. later \in Nat /\ source <= later
      BY <1>2
    <3> HIDE DEF later
    <3>2. /\ OutputLen(source) <= OutputLen(later)
          /\ OutputLen(source) \in Nat /\ OutputLen(later) \in Nat
      BY <1>2, <3>1, LengthMonotone
    <3> QED
      BY <3>2 DEF later
  <2>2. next_output = Len(AllReleased) /\ Len(AllReleased) <= OutputLen(source)
    BY DEF IInv, Counted
  <2>3. OutputLen(source)' = OutputLen(source + n)
    BY <1>1, <1>4 DEF OutputLen, FloorF64
  <2> QED
    BY <1>1, <1>2, <1>3, <2>1, <2>2, <2>3 DEF Counted
<1>11. HistoryHeld'
  BY <1>1, <1>4 DEF IInv, HistoryHeld
<1>12. FlushesPast'
  <2>1. flushes' = flushes /\ Len(released') = Len(released) /\ source' = source + n
    BY <1>1
  <2>2. ASSUME NEW f \in 1 .. Len(flushes)
        PROVE  flushes[f].at <= source + n /\ flushes[f].upto <= Len(released)
    <3>1. flushes[f].at \in Nat /\ flushes[f].at <= source
      BY <1>5
    <3>2. flushes[f].upto <= Len(released)
      BY DEF IInv, FlushesPast
    <3> QED
      BY <1>2, <3>1, <3>2
  <2> QED
    BY <2>1, <2>2 DEF FlushesPast
<1>13. \A k \in 1 .. Len(AllReleased) : k - 1 \in Nat
  <2>1. Len(AllReleased) \in Nat
    BY <1>2 DEF IInv, Counted
  <2> QED
    BY <2>1
<1>14. Arrived'
  <2> SUFFICES ASSUME NEW k \in 1 .. Len(AllReleased)
               PROVE  \/ \E f \in 1 .. Len(flushes) : k - 1 < flushes[f].upto
                      \/ LastSourceIndex(k - 1) < source + n
    BY <1>1, <1>3, <1>4 DEF Arrived
  <2>1. \/ \E f \in 1 .. Len(flushes) : k - 1 < flushes[f].upto
        \/ LastSourceIndex(k - 1) < source
    BY <1>1 DEF IInv, Arrived
  <2>2. LastSourceIndex(k - 1) \in Nat
    BY <1>2, <1>13, TapPositions
  <2> QED
    BY <1>2, <2>1, <2>2
<1>15. FlushComplete'
  <2> SUFFICES ASSUME flushes # <<>>, LastFlush.at = source + n
               PROVE  /\ Len(AllReleased) = OutputLen(source)'
                      /\ LastFlush.upto = Len(AllReleased)
    BY <1>1, <1>3 DEF FlushComplete, LastFlush
  <2>1. Len(flushes) \in 1 .. Len(flushes)
    BY <1>2
  <2>2. LastFlush.at <= source /\ LastFlush.at \in Nat
    BY <1>5, <2>1 DEF LastFlush
  <2>3. n = 0 /\ source' = source /\ LastFlush.at = source
    BY <1>1, <1>2, <2>2
  <2>4. OutputLen(source)' = OutputLen(source)
    BY <1>1, <2>3 DEF OutputLen, FloorF64
  <2> QED
    BY <1>1, <2>3, <2>4 DEF IInv, FlushComplete
<1>16. ReadsBetweenFlushes'
  <2> SUFFICES ASSUME NEW k \in 1 .. Len(AllReleased), NEW tap \in Taps
               PROVE  ContextOf(k - 1, tap)' = ContextOf(k - 1, tap)
    BY <1>3, <1>4 DEF IInv, ReadsBetweenFlushes
  <2>1. PICK a : a = FirstSourceIndex(k - 1) + tap
    OBVIOUS
  <2> DEFINE Between == \A f \in 1 .. Len(flushes) :
                           IF k - 1 < flushes[f].upto THEN a < flushes[f].at
                                                      ELSE a >= flushes[f].at
  <2>2. /\ a \in Int /\ a <= LastSourceIndex(k - 1) /\ LastSourceIndex(k - 1) \in Nat
        /\ k - 1 \in Nat
    BY <1>2, <1>13, <2>1, TapPositions
  <2>3. ContextOf(k - 1, tap) = IF a \in 0 .. source - 1 /\ Between THEN a ELSE ZERO
    BY <2>1 DEF ContextOf
  <2>4. ContextOf(k - 1, tap)' = IF a \in 0 .. source' - 1 /\ Between THEN a ELSE ZERO
    <3>1. FirstSourceIndex(k - 1)' + tap = a
      BY <1>4, <2>1
    <3>2. ContextOf(k - 1, tap)' =
             IF /\ FirstSourceIndex(k - 1)' + tap \in 0 .. source' - 1
                /\ \A f \in 1 .. Len(flushes') :
                      IF k - 1 < flushes'[f].upto
                      THEN FirstSourceIndex(k - 1)' + tap < flushes'[f].at
                      ELSE FirstSourceIndex(k - 1)' + tap >= flushes'[f].at
             THEN FirstSourceIndex(k - 1)' + tap ELSE ZERO
      BY DEF ContextOf
    <3>3. flushes' = flushes
      BY <1>1
    <3> QED
      BY <3>1, <3>2, <3>3
  <2>5. ASSUME Between PROVE a < source
    <3>1. CASE LastSourceIndex(k - 1) < source
      BY <1>2, <2>2, <3>1
    <3>2. CASE \E f \in 1 .. Len(flushes) : k - 1 < flushes[f].upto
      <4>1. PICK f \in 1 .. Len(flushes) : k - 1 < flushes[f].upto
        BY <3>2
      <4>2. a < flushes[f].at
        BY <2>5, <4>1
      <4>3. flushes[f].at <= source /\ flushes[f].at \in Nat
        BY <1>5, <4>1
      <4>4. source \in Nat
        BY <1>2
      <4> QED
        BY <2>2, <4>2, <4>3, <4>4
    <3> QED
      BY <1>1, <3>1, <3>2 DEF IInv, Arrived
  <2> HIDE DEF Between
  <2>6. a \in 0 .. source' - 1 /\ Between <=> a \in 0 .. source - 1 /\ Between
    BY <1>1, <1>2, <2>2, <2>5
  <2> QED
    BY <2>3, <2>4, <2>6
<1> QED
  BY <1>8, <1>9, <1>10, <1>11, <1>12, <1>14, <1>15, <1>16 DEF IInv
\* What is held after the first c of the samples held are dropped.
LEMMA GaplessDrop ==
  ASSUME NEW start \in Nat, NEW end \in Nat, NEW h, Gapless(h, start, end),
         NEW c \in 0 .. Len(h)
  PROVE  Gapless(SubSeq(h, c + 1, Len(h)), start + c, end)
<1>1. /\ h \in Seq(Nat) /\ start + Len(h) = end /\ Len(h) \in Nat /\ c \in Nat /\ c <= Len(h)
      /\ \A k \in 1 .. Len(h) : h[k] = start + k - 1
  BY DEF Gapless
<1>2. PICK g : g = SubSeq(h, c + 1, Len(h))
  OBVIOUS
<1>3. g \in Seq(Nat) /\ Len(g) = Len(h) - c
  BY <1>1, <1>2
<1>4. \A k \in 1 .. Len(h) - c : g[k] = h[c + k]
  BY <1>1, <1>2
<1>5. ASSUME NEW k \in 1 .. Len(g) PROVE g[k] = start + c + k - 1
  <2>1. k \in 1 .. Len(h) - c /\ c + k \in 1 .. Len(h) /\ k \in Nat
    BY <1>1, <1>3
  <2>2. g[k] = h[c + k] /\ h[c + k] = start + (c + k) - 1
    BY <1>1, <1>4, <2>1
  <2> QED
    BY <1>1, <2>1, <2>2
<1>6. start + c + Len(g) = end
  <2>1. /\ start + Len(h) = end /\ Len(h) \in Nat /\ c \in Nat
        /\ Len(g) = Len(h) - c
    BY <1>1, <1>3
  <2> QED
    BY <2>1
<1> QED
  BY <1>2, <1>3, <1>5, <1>6 DEF Gapless

LEMMA KeptWidth ==
  ASSUME NEW p \in Nat, NEW w \in Nat, NEW start \in Nat, NEW held \in Nat, NEW keep \in Nat,
         p - w <= keep, start + held <= p + w + 1
  PROVE  /\ keep <= start => held <= 2 * w + 1
         /\ held - (keep - start) <= 2 * w + 1
  OBVIOUS

\* What push drops reaches neither past the history nor past the next output's
\* first tap, and leaves no more than a filter's width.
LEMMA ConsumedFits ==
  ASSUME kernel \in Kernels, history_start \in Nat, Len(history) \in Nat, next_output \in Nat,
         LastSourceIndex(next_output) >= history_start + Len(history)
  PROVE  /\ Consumed \in 0 .. Len(history)
         /\ Consumed = 0 \/ history_start + Consumed <= FirstSourceIndex(next_output)
         /\ Len(history) - Consumed <= 2 * kernel.half_width + 1
<1> DEFINE first == FirstSourceIndex(next_output)
           p == Position(next_output)
           w == kernel.half_width
           keep_from == IF first > 0 THEN first ELSE 0
           surplus == keep_from - history_start
<1>1. p \in Nat /\ w \in Nat /\ first = p - w /\ first \in Int
  <2>1. p \in Nat /\ w \in Nat
    BY KernelType, PositionStep
  <2>2. first = p - w
    BY DEF FirstSourceIndex
  <2> HIDE DEF first, p, w
  <2> QED
    BY <2>1, <2>2
<1>2. p + w + 1 >= history_start + Len(history)
  BY DEF LastSourceIndex
<1>3. Consumed = IF surplus <= 0 THEN 0
                 ELSE IF surplus < Len(history) THEN surplus ELSE Len(history)
  BY DEF Consumed
<1> HIDE DEF first, p, w
<1>4. Consumed \in 0 .. Len(history)
  BY <1>1, <1>3
<1>5. Consumed = 0 \/ history_start + Consumed <= first
  BY <1>1, <1>3
<1>6. Len(history) - Consumed <= 2 * w + 1
  <2>1. PICK held \in Nat : held = Len(history)
    OBVIOUS
  <2>2. /\ p + w + 1 >= history_start + held
        /\ Consumed = IF surplus <= 0 THEN 0 ELSE IF surplus < held THEN surplus ELSE held
    BY <1>2, <1>3, <2>1
  <2>3. keep_from \in Nat /\ first <= keep_from
    BY <1>1
  <2> HIDE DEF keep_from
  <2>4. p - w <= keep_from /\ history_start + held <= p + w + 1
    BY <1>1, <2>1, <2>2, <2>3
  <2>5. /\ keep_from <= history_start => held <= 2 * w + 1
        /\ held - (keep_from - history_start) <= 2 * w + 1
    BY <1>1, <2>1, <2>3, <2>4, KeptWidth
  <2>6. surplus \in Int /\ 0 <= 2 * w + 1
    BY <1>1, <2>3
  <2>7. held - Consumed <= 2 * w + 1
    <3>1. CASE surplus <= 0
      <4>1. Consumed = 0 /\ held <= 2 * w + 1
        BY <2>2, <2>3, <2>5, <3>1
      <4> QED
        BY <2>1, <4>1
    <3>2. CASE surplus > 0 /\ surplus < held
      <4>1. ~ (surplus <= 0)
        BY <2>6, <3>2
      <4>2. Consumed = surplus
        BY <2>2, <3>2, <4>1
      <4> QED
        BY <2>5, <4>2
    <3>3. CASE surplus > 0 /\ ~ (surplus < held)
      <4>1. ~ (surplus <= 0)
        BY <2>6, <3>3
      <4>2. Consumed = held
        BY <2>2, <3>3, <4>1
      <4> QED
        BY <2>1, <2>6, <4>2
    <3> QED
      BY <2>1, <2>6, <3>1, <3>2, <3>3
  <2> QED
    BY <2>1, <2>7
<1> QED
  BY <1>4, <1>5, <1>6 DEF first, w

LEMMA FinishPushInv == IInv /\ FinishPush => IInv'
<1> SUFFICES ASSUME IInv, FinishPush PROVE IInv'
  OBVIOUS
<1> DEFINE c == Consumed
           V == Value
<1>1. /\ pc = "push" /\ pc' = "idle" /\ released' = released \o output
      /\ LastSourceIndex(next_output) >= Total
      /\ history' = SubSeq(history, c + 1, Len(history)) /\ history_start' = history_start + c
      /\ UNCHANGED <<kernel, next_output, output, source, flushes>>
  BY DEF FinishPush
<1>2. /\ kernel \in Kernels /\ next_output \in Nat /\ history \in Seq(Nat) /\ source \in Nat
      /\ history_start \in Nat /\ released \in Seq(V) /\ output \in Seq(V)
  BY StreamResamplerAssumption DEF IInv, TypeOK
<1>3. /\ \A f \in 1 .. Len(flushes) : /\ flushes[f].at \in Nat /\ flushes[f].upto \in Nat
                                     /\ flushes[f].at <= history_start
      /\ Len(flushes) \in Nat
  BY FlushType DEF IInv, TypeOK, HistoryHeld
<1>4. AllReleased' = AllReleased
  BY <1>1 DEF AllReleased
<1>5. /\ Taps' = Taps /\ Value' = Value
      /\ \A m : /\ LastSourceIndex(m)' = LastSourceIndex(m)
               /\ FirstSourceIndex(m)' = FirstSourceIndex(m)
               /\ OutputLen(m)' = OutputLen(m)
      /\ \A m, tap : ContextOf(m, tap)' = ContextOf(m, tap)
  BY <1>1, KernelKept, ContextKept
<1>6. Gapless(history, history_start, source) /\ history_start + Len(history) = source
  BY <1>2 DEF IInv, HistoryAligned, Total, Gapless
<1>7. /\ c \in 0 .. Len(history) /\ Len(history) \in Nat
      /\ c = 0 \/ history_start + c <= FirstSourceIndex(next_output)
      /\ Len(history) - c <= 2 * kernel.half_width + 1
  BY <1>1, <1>2, ConsumedFits DEF Total
<1> HIDE DEF c, V
<1>8. Gapless(history', history_start', source)
  BY <1>1, <1>2, <1>6, <1>7, GaplessDrop
<1>9. /\ history' \in Seq(Nat) /\ history_start' + Len(history') = source
      /\ \A k \in 1 .. Len(history') : history'[k] = history_start' + k - 1
  BY <1>8 DEF Gapless
<1>10. history_start' \in Nat /\ Len(history') \in Nat
  BY <1>1, <1>2, <1>7, <1>9
<1>11. TypeOK'
  <2>1. released' \in Seq(V)
    BY <1>1, <1>2
  <2>2. history_start' \in 0 .. source
    BY <1>2, <1>9, <1>10
  <2> QED
    BY <1>1, <1>5, <1>9, <2>1, <2>2 DEF IInv, TypeOK, V
<1>12. HistoryAligned'
  <2>1. Len(history') = Len(history) - c
    BY <1>1, <1>2, <1>6, <1>7, <1>9, <1>10
  <2>2. Len(history') <= 2 * kernel.half_width + 1
    BY <1>7, <2>1
  <2>3. (history_start + Len(history))' = source'
    BY <1>1, <1>9
  <2> QED
    BY <1>1, <1>9, <2>2, <2>3 DEF HistoryAligned, Total
<1>13. Counted'
  BY <1>1, <1>4, <1>5 DEF IInv, Counted
<1>14. HistoryHeld'
  <2>1. \A f \in 1 .. Len(flushes) : flushes[f].at <= history_start'
    <3> SUFFICES ASSUME NEW f \in 1 .. Len(flushes) PROVE flushes[f].at <= history_start'
      OBVIOUS
    <3>1. flushes[f].at \in Nat /\ flushes[f].at <= history_start
      BY <1>3
    <3>2. history_start' = history_start + c /\ c \in Nat /\ history_start \in Nat
      BY <1>1, <1>2, <1>7
    <3> QED
      BY <3>1, <3>2
  <2>2. CASE c = 0
    <3>1. history_start' = history_start
      BY <1>1, <1>2, <2>2
    <3> QED
      BY <1>1, <1>5, <2>1, <3>1 DEF IInv, HistoryHeld
  <2>3. CASE history_start + c <= FirstSourceIndex(next_output)
    BY <1>1, <1>5, <2>1, <2>3 DEF HistoryHeld
  <2> QED
    BY <1>7, <2>2, <2>3
<1>15. FlushesPast'
  <2>1. Len(released) \in Nat /\ Len(output) \in Nat /\ Len(released') = Len(released) + Len(output)
    BY <1>1, <1>2
  <2> SUFFICES ASSUME NEW f \in 1 .. Len(flushes)
               PROVE  flushes[f].at <= source /\ flushes[f].upto <= Len(released')
    BY <1>1 DEF FlushesPast
  <2>2. flushes[f].at <= source /\ flushes[f].upto <= Len(released) /\ flushes[f].upto \in Nat
    BY <1>3 DEF IInv, FlushesPast
  <2> QED
    BY <2>1, <2>2
<1>16. Arrived' /\ FlushComplete'
  BY <1>1, <1>4, <1>5 DEF IInv, Arrived, FlushComplete, LastFlush
<1>17. ReadsBetweenFlushes'
  BY <1>4, <1>5 DEF IInv, ReadsBetweenFlushes
<1> QED
  BY <1>11, <1>12, <1>13, <1>14, <1>15, <1>16, <1>17 DEF IInv
LEMMA FinishFlushInv == IInv /\ FinishFlush => IInv'
<1> SUFFICES ASSUME IInv, FinishFlush PROVE IInv'
  OBVIOUS
<1> DEFINE V == Value
           last == [at |-> source, from |-> Len(released), upto |-> Len(released) + Len(output)]
           count == Len(flushes) + 1
<1>1. /\ pc = "flush" /\ pc' = "idle" /\ released' = released \o output
      /\ next_output >= OutputLen(Total) /\ history' = <<>> /\ history_start' = Total
      /\ flushes' = Append(flushes, last)
      /\ UNCHANGED <<kernel, next_output, output, source>>
  BY DEF FinishFlush
<1>2. /\ kernel \in Kernels /\ next_output \in Nat /\ source \in Nat
      /\ released \in Seq(V) /\ output \in Seq(V) /\ Total = source
  BY StreamResamplerAssumption DEF IInv, TypeOK, HistoryAligned
<1>3. AllReleased' = AllReleased /\ released' = AllReleased
  BY <1>1 DEF AllReleased
<1>4. /\ Taps' = Taps /\ Value' = Value
      /\ \A m : /\ LastSourceIndex(m)' = LastSourceIndex(m)
               /\ FirstSourceIndex(m)' = FirstSourceIndex(m)
               /\ OutputLen(m)' = OutputLen(m)
  BY <1>1, KernelKept
<1>5. /\ Len(released) \in Nat /\ Len(output) \in Nat /\ released' \in Seq(V)
      /\ Len(AllReleased) = Len(released) + Len(output)
  <2> HIDE DEF V
  <2>1. Len(released) \in Nat /\ Len(output) \in Nat /\ released' \in Seq(V)
    BY <1>1, <1>2
  <2>2. Len(released') = Len(released) + Len(output)
    BY <1>1, <1>2
  <2> QED
    BY <1>3, <2>1, <2>2
<1>6. /\ Len(flushes) \in Nat /\ flushes' \in Seq([at : Nat, from : Nat, upto : Nat])
      /\ Len(flushes') = count /\ flushes'[count] = last
      /\ \A f \in 1 .. Len(flushes) : flushes'[f] = flushes[f]
  <2> DEFINE F == [at : Nat, from : Nat, upto : Nat]
  <2>1. flushes \in Seq(F)
    BY DEF IInv, TypeOK
  <2>2. last \in F
    BY <1>2, <1>5
  <2> HIDE DEF F, last
  <2>3. Len(flushes) \in Nat /\ flushes' \in Seq(F)
    BY <1>1, <2>1, <2>2
  <2>4. /\ Len(flushes') = count /\ flushes'[count] = last
        /\ \A f \in 1 .. Len(flushes) : flushes'[f] = flushes[f]
    BY <1>1, <2>1, <2>2
  <2> QED
    BY <2>3, <2>4 DEF F
<1>7. last.at = source /\ last.upto = Len(AllReleased)
  BY <1>5
<1>8. /\ \A f \in 1 .. Len(flushes) : /\ flushes[f].at \in Nat /\ flushes[f].upto \in Nat
                                     /\ flushes[f].at <= source
                                     /\ flushes[f].upto <= Len(released)
  BY FlushType DEF IInv, TypeOK, FlushesPast
<1> HIDE DEF V, last
<1>9. \A f \in 1 .. count : f = count \/ f \in 1 .. Len(flushes)
  BY <1>6
<1>10. Len(AllReleased) = OutputLen(source)
  <2>1. OutputLen(source) \in Nat
    BY <1>2, LengthMonotone
  <2> QED
    BY <1>1, <1>2, <1>5, <2>1 DEF IInv, Counted
<1> HIDE DEF count
<1>11. TypeOK'
  <2>1. history' \in Seq(Nat)
    BY <1>1
  <2>2. history_start' \in 0 .. source
    BY <1>1, <1>2
  <2> QED
    BY <1>1, <1>4, <1>5, <1>6, <2>1, <2>2 DEF IInv, TypeOK, V
<1>12. HistoryAligned'
  <2>1. Len(history') = 0
    BY <1>1
  <2>2. 0 <= 2 * kernel.half_width + 1
    BY <1>2, KernelType
  <2>3. (history_start + Len(history))' = source'
    BY <1>1, <1>2, <2>1
  <2> QED
    BY <1>1, <2>1, <2>2, <2>3 DEF HistoryAligned, Total
<1>13. Counted'
  BY <1>1, <1>3, <1>4 DEF IInv, Counted
<1>14. HistoryHeld'
  <2>1. \A f \in 1 .. count : flushes'[f].at <= source
    <3> SUFFICES ASSUME NEW f \in 1 .. count PROVE flushes'[f].at <= source
      OBVIOUS
    <3>1. CASE f = count
      BY <1>2, <1>6, <1>7, <3>1
    <3>2. CASE f \in 1 .. Len(flushes)
      BY <1>6, <1>8, <3>2
    <3> QED
      BY <1>9, <3>1, <3>2
  <2>2. count \in 1 .. count
    BY <1>6 DEF count
  <2>3. \E f \in 1 .. count : source = flushes'[f].at
    BY <1>6, <1>7, <2>2
  <2> QED
    BY <1>1, <1>2, <1>6, <2>1, <2>3 DEF HistoryHeld
<1>15. FlushesPast'
  <2> SUFFICES ASSUME NEW f \in 1 .. count
               PROVE  flushes'[f].at <= source /\ flushes'[f].upto <= Len(AllReleased)
    BY <1>1, <1>3, <1>6 DEF FlushesPast
  <2>1. CASE f = count
    BY <1>2, <1>5, <1>6, <1>7, <2>1
  <2>2. CASE f \in 1 .. Len(flushes)
    <3>1. /\ flushes'[f] = flushes[f] /\ flushes[f].at <= source
          /\ flushes[f].upto \in Nat /\ flushes[f].upto <= Len(released)
      BY <1>6, <1>8, <2>2
    <3> QED
      BY <1>5, <3>1
  <2> QED
    BY <1>9, <2>1, <2>2
<1>16. ASSUME NEW k \in 1 .. Len(AllReleased) PROVE k - 1 < last.upto /\ k - 1 \in Nat
  BY <1>5, <1>7
<1>17. Arrived'
  <2>1. count \in 1 .. count
    BY <1>6 DEF count
  <2> QED
    BY <1>3, <1>6, <1>16, <2>1 DEF Arrived
<1>18. FlushComplete'
  <2>1. LastFlush' = last
    BY <1>6 DEF LastFlush
  <2> QED
    BY <1>1, <1>3, <1>4, <1>7, <1>10, <2>1 DEF FlushComplete
<1>19. ReadsBetweenFlushes'
  <2> SUFFICES ASSUME NEW k \in 1 .. Len(AllReleased), NEW tap \in Taps
               PROVE  ContextOf(k - 1, tap)' = ContextOf(k - 1, tap)
    BY <1>3, <1>4 DEF IInv, ReadsBetweenFlushes
  <2>1. PICK a : a = FirstSourceIndex(k - 1) + tap
    OBVIOUS
  <2> DEFINE Sees(f) == IF k - 1 < f.upto THEN a < f.at ELSE a >= f.at
             Between == \A f \in 1 .. Len(flushes) : Sees(flushes[f])
             Later == \A f \in 1 .. count : Sees(flushes'[f])
  <2>2. ContextOf(k - 1, tap) = IF a \in 0 .. source - 1 /\ Between THEN a ELSE ZERO
    BY <2>1 DEF ContextOf
  <2>3. ContextOf(k - 1, tap)' = IF a \in 0 .. source - 1 /\ Later THEN a ELSE ZERO
    <3>1. FirstSourceIndex(k - 1)' + tap = a
      BY <1>4, <2>1
    <3>2. ContextOf(k - 1, tap)' =
             IF /\ FirstSourceIndex(k - 1)' + tap \in 0 .. source' - 1
                /\ \A f \in 1 .. Len(flushes') :
                      IF k - 1 < flushes'[f].upto
                      THEN FirstSourceIndex(k - 1)' + tap < flushes'[f].at
                      ELSE FirstSourceIndex(k - 1)' + tap >= flushes'[f].at
             THEN FirstSourceIndex(k - 1)' + tap ELSE ZERO
      BY DEF ContextOf
    <3>3. source' = source /\ Len(flushes') = count
      BY <1>1, <1>6
    <3> QED
      BY <3>1, <3>2, <3>3
  <2>4. a \in 0 .. source - 1 => Sees(last)
    <3>1. k - 1 < last.upto
      BY <1>16
    <3>2. a \in 0 .. source - 1 => a < last.at
      BY <1>2, <1>7
    <3> QED
      BY <3>1, <3>2
  <2> HIDE DEF Sees
  <2>5. Later <=> Between /\ Sees(last)
    <3>1. count \in 1 .. count /\ \A f \in 1 .. Len(flushes) : f \in 1 .. count
      BY <1>6 DEF count
    <3> QED
      BY <1>6, <1>9, <3>1
  <2> HIDE DEF Between, Later
  <2> QED
    BY <2>2, <2>3, <2>4, <2>5
<1> QED
  BY <1>11, <1>12, <1>13, <1>14, <1>15, <1>17, <1>18, <1>19 DEF IInv

LEMMA StepInv == IInv /\ [Next]_vars => IInv'
<1> SUFFICES ASSUME IInv, [Next]_vars PROVE IInv'
  OBVIOUS
<1>1. CASE \E n \in 0 .. MAX_CHUNK : Push(n)
  BY <1>1, PushInv
<1>2. CASE PushOutput \/ FinishPush
  BY <1>2, PushOutputInv, FinishPushInv
<1>3. CASE Flush \/ FlushOutput \/ FinishFlush
  BY <1>3, FlushInv, FlushOutputInv, FinishFlushInv
<1>4. CASE Reset
  BY <1>4, ResetInv
<1>5. CASE UNCHANGED vars
  BY <1>5, StutterInv
<1> QED
  BY <1>1, <1>2, <1>3, <1>4, <1>5 DEF Next

\* The inductive invariant holds.
THEOREM Invariance == Spec => []IInv
  BY InitInv, StepInv, PTL DEF Spec

\* The resampler's fields keep their types, and the history starts at or before
\* the end of the source.
THEOREM TypeCorrect == Spec => []TypeOK
<1>1. IInv => TypeOK
  BY DEF IInv
<1> QED
  BY <1>1, Invariance, PTL

\* The history is the end of the source, without a gap, and between calls no longer
\* than a filter is wide, whatever was pushed.
THEOREM HistoryCorrect == Spec => []HistoryAligned
<1>1. IInv => HistoryAligned
  BY DEF IInv
<1> QED
  BY <1>1, Invariance, PTL

\* Every output reads all of its context that lies between the flushes around it.
THEOREM ContextCorrect == Spec => []ReadsBetweenFlushes
<1>1. IInv => ReadsBetweenFlushes
  BY DEF IInv
<1> QED
  BY <1>1, Invariance, PTL
\* Where no flush has intervened, an output is the one-shot one.
LEMMA OneShotValue ==
  ASSUME IInv, NEW k \in 1 .. Len(AllReleased),
         \A f \in 1 .. Len(flushes) : k - 1 < flushes[f].upto /\ flushes[f].at = source
  PROVE  AllReleased[k] = SampleAt(SourceSamples(source), k - 1, 0)
<1> DEFINE n == k - 1
           v == AllReleased[k]
           w == SampleAt(SourceSamples(source), n, 0)
           V == Value
<1>1. source \in Nat /\ kernel \in Kernels /\ AllReleased \in Seq(V)
  BY ReleasedType, StreamResamplerAssumption DEF IInv, TypeOK
<1>2. v \in V /\ n \in Nat
  <2> HIDE DEF V
  <2> QED
    BY <1>1
<1>3. v = [index |-> v.index, reads |-> v.reads] /\ v.reads \in [Taps -> Nat \cup {ZERO}]
  BY <1>2 DEF Value
<1>4. v.index = n /\ \A tap \in Taps : v.reads[tap] = ContextOf(n, tap)
  BY DEF IInv, ReadsBetweenFlushes
<1> HIDE DEF v, V
<1>5. ASSUME NEW tap \in Taps PROVE w.reads[tap] = ContextOf(n, tap)
  <2>1. PICK a \in Int : a = FirstSourceIndex(n) + tap
    BY <1>1, <1>2, TapPositions
  <2>2. FirstSourceIndex(n) - 0 + tap = a
    BY <1>1, <1>2, <2>1, TapPositions
  <2>3. Len(SourceSamples(source)) = source
    BY <1>1 DEF SourceSamples
  <2>4. w.reads[tap] = IF a \in 0 .. source - 1 THEN SourceSamples(source)[a + 1] ELSE ZERO
    BY <2>2, <2>3 DEF SampleAt
  <2>5. a \in 0 .. source - 1 => SourceSamples(source)[a + 1] = a
    BY <1>1 DEF SourceSamples
  <2>6. ContextOf(n, tap) = IF /\ a \in 0 .. source - 1
                               /\ \A f \in 1 .. Len(flushes) : a < flushes[f].at
                            THEN a ELSE ZERO
    BY <2>1 DEF ContextOf
  <2>7. a \in 0 .. source - 1 => \A f \in 1 .. Len(flushes) : a < flushes[f].at
    BY <1>1, <2>1
  <2> HIDE DEF w
  <2> QED
    BY <2>4, <2>5, <2>6, <2>7
<1>6. w = [index |-> n, reads |-> w.reads] /\ w.reads = [tap \in Taps |-> w.reads[tap]]
  BY DEF SampleAt
<1> HIDE DEF w, n
<1>7. v.reads = w.reads
  BY <1>3, <1>4, <1>5, <1>6
<1>8. v = w
  BY <1>3, <1>4, <1>6, <1>7
<1> QED
  BY <1>8 DEF v, w, n

\* A signal streamed in any chunks resamples as in one shot, once flushed.
THEOREM OneShotAgreement == Spec => []StreamMatchesOneShot
<1>1. IInv => StreamMatchesOneShot
  <2> SUFFICES ASSUME IInv PROVE StreamMatchesOneShot
    OBVIOUS
  <2>1. /\ Len(AllReleased) <= OutputLen(source) /\ Len(AllReleased) \in Nat
        /\ OutputLen(source) \in Nat
    BY LengthMonotone, StreamResamplerAssumption DEF IInv, Counted, TypeOK
  <2>2. \A k \in 1 .. OutputLen(source) :
           ResampleToMono(source)[k] = SampleAt(SourceSamples(source), k - 1, 0)
    BY DEF ResampleToMono
  <2>3. ASSUME flushes = <<>>, NEW k \in 1 .. Len(AllReleased)
        PROVE  AllReleased[k] = ResampleToMono(source)[k]
    <3>1. k \in 1 .. OutputLen(source)
      BY <2>1
    <3>2. \A f \in 1 .. Len(flushes) : k - 1 < flushes[f].upto /\ flushes[f].at = source
      BY <2>3
    <3> QED
      BY <2>2, <3>1, <3>2, OneShotValue
  <2>4. ASSUME pc = "idle", flushes # <<>>, LastFlush.at = source
        PROVE  Len(released) = OutputLen(source) /\ LastFlush.upto = Len(released)
               /\ AllReleased = released
    BY <2>4, ReleasedType DEF IInv, FlushComplete
  <2>5. ASSUME pc = "idle", flushes # <<>>, LastFlush.at = source, Len(flushes) = 1
        PROVE  released = ResampleToMono(source)
    <3> DEFINE len == OutputLen(source)
    <3>1. /\ Len(released) = len /\ AllReleased = released /\ len \in Nat
          /\ flushes[1].at = source /\ flushes[1].upto = len
      BY <2>1, <2>4, <2>5 DEF LastFlush
    <3>2. ASSUME NEW k \in 1 .. len PROVE released[k] = ResampleToMono(source)[k]
      <4>1. k - 1 < len
        BY <3>1
      <4>2. \A f \in 1 .. Len(flushes) : k - 1 < flushes[f].upto /\ flushes[f].at = source
        BY <2>5, <3>1, <4>1
      <4> QED
        BY <2>2, <3>1, <4>2, OneShotValue
    <3>3. released = [k \in 1 .. len |-> released[k]]
      <4> DEFINE V == Value
      <4>1. released \in Seq(V)
        BY DEF IInv, TypeOK
      <4> HIDE DEF V
      <4> QED
        BY <3>1, <4>1
    <3>4. ResampleToMono(source) = [k \in 1 .. len |-> ResampleToMono(source)[k]]
      BY DEF ResampleToMono
    <3> HIDE DEF len
    <3> QED
      BY <3>2, <3>3, <3>4
  <2> QED
    BY <2>1, <2>3, <2>4, <2>5 DEF StreamMatchesOneShot, LastFlush
<1> QED
  BY <1>1, Invariance, PTL
-----------------------------------------------------------------------------
\* Between calls nothing is withheld that a call could have returned: the last tap
\* of the next output has not arrived, unless a flush was the last to see a sample.
Drained ==
  pc = "idle" =>
    \/ flushes # <<>> /\ LastFlush.at = source
    \/ LastSourceIndex(next_output) >= source

LEMMA DrainedStep == IInv /\ Drained /\ [Next]_vars => Drained'
<1> SUFFICES ASSUME IInv, Drained, [Next]_vars PROVE Drained'
  OBVIOUS
<1>1. Total = source
  BY DEF IInv, HistoryAligned
<1>2. CASE \E n \in 0 .. MAX_CHUNK : Push(n)
  BY <1>2 DEF Push, Drained
<1>3. CASE PushOutput \/ FlushOutput \/ Flush
  BY <1>3 DEF PushOutput, FlushOutput, Flush, Emit, Drained
<1>4. CASE FinishPush
  <2>1. LastSourceIndex(next_output) >= source /\ UNCHANGED <<kernel, next_output, source>>
    BY <1>1, <1>4 DEF FinishPush
  <2> QED
    BY <2>1 DEF Drained, LastSourceIndex, Position
<1>5. CASE FinishFlush
  <2> DEFINE flush == [at |-> source, from |-> Len(released),
                       upto |-> Len(released) + Len(output)]
             F == [at : Nat, from : Nat, upto : Nat]
  <2>1. flushes' = Append(flushes, flush) /\ source' = source
    BY <1>5 DEF FinishFlush
  <2>2. flushes \in Seq(F) /\ flush.at = source
    BY DEF IInv, TypeOK
  <2> HIDE DEF flush, F
  <2>3. Len(flushes') = Len(flushes) + 1 /\ flushes'[Len(flushes) + 1] = flush /\ flushes' # <<>>
    BY <2>1, <2>2
  <2>4. flushes' # <<>> /\ flushes'[Len(flushes')].at = source'
    BY <2>1, <2>2, <2>3
  <2> QED
    BY <2>4 DEF Drained, LastFlush
<1>6. CASE Reset
  <2>1. next_output' = 0 /\ source' = 0 /\ kernel' = kernel /\ kernel \in Kernels
    BY <1>6 DEF Reset, IInv, TypeOK
  <2>2. Position(0) \in Nat /\ kernel.half_width \in Nat
    BY <2>1, KernelType, PositionStep
  <2>3. LastSourceIndex(next_output)' >= source'
    BY <2>1, <2>2 DEF LastSourceIndex, Position
  <2> QED
    BY <2>3 DEF Drained
<1>7. CASE UNCHANGED vars
  BY <1>7 DEF vars, buffer, past, Drained, LastFlush, LastSourceIndex, Position
<1> QED
  BY <1>2, <1>3, <1>4, <1>5, <1>6, <1>7 DEF Next

\* A push returns every output whose samples have arrived.
THEOREM DrainedCorrect == Spec => []Drained
<1>1. Init => Drained
  <2> SUFFICES ASSUME Init PROVE Drained
    OBVIOUS
  <2>1. next_output = 0 /\ source = 0 /\ kernel \in Kernels
    BY DEF Init
  <2>2. Position(0) \in Nat /\ kernel.half_width \in Nat
    BY <2>1, KernelType, PositionStep
  <2> QED
    BY <2>1, <2>2 DEF Drained, LastSourceIndex
<1> QED
  BY <1>1, DrainedStep, Invariance, PTL DEF Spec

\* What is withheld of the source: less than the right half of a filter, or after
\* a flush less than the distance of two outputs, in units of 1 / target_rate.
LEMMA Shortfall ==
  ASSUME IInv, Drained, pc = "idle"
  PROVE  /\ Len(released) * kernel.source_rate <= source * kernel.target_rate
         /\ source * kernel.target_rate
               <= Len(released) * kernel.source_rate
                    + (IF flushes # <<>> /\ LastFlush.at = source THEN kernel.source_rate
                       ELSE (kernel.half_width + 1) * kernel.target_rate)
<1> DEFINE s == kernel.source_rate
           t == kernel.target_rate
           n == Len(released)
<1>1. /\ s \in Nat \ {0} /\ t \in Nat \ {0} /\ kernel.half_width \in Nat
      /\ source \in Nat /\ kernel \in Kernels
  BY KernelType, StreamResamplerAssumption DEF IInv, TypeOK
<1>2. n \in Nat /\ n = next_output /\ n <= OutputLen(source) /\ AllReleased = released
  BY ReleasedType DEF IInv, Counted, AllReleased
<1>3. source * t \in Nat /\ n * s \in Nat
  BY <1>1, <1>2
<1>4. /\ OutputLen(source) \in Nat /\ OutputLen(source) * s <= source * t
      /\ source * t <= OutputLen(source) * s + s
  <2>1. (source \in kernel.short_lengths) \in BOOLEAN
    OBVIOUS
  <2> HIDE DEF s, t
  <2> QED
    BY <1>1, <1>3, <2>1, FloorBounds DEF OutputLen, s, t
<1> HIDE DEF s, t, n
<1>5. n * s <= source * t
  <2>1. n * s <= OutputLen(source) * s
    BY <1>1, <1>2, <1>4, ProductMonotone
  <2> QED
    BY <1>1, <1>2, <1>3, <1>4, <2>1
<1>6. CASE flushes # <<>> /\ LastFlush.at = source
  <2>1. n = OutputLen(source)
    BY <1>2, <1>6 DEF IInv, FlushComplete, n
  <2> QED
    BY <1>4, <1>5, <1>6, <2>1 DEF s, t, n
<1>7. CASE ~(flushes # <<>> /\ LastFlush.at = source)
  <2> DEFINE p == Position(n)
             h == kernel.half_width + 1
  <2>1. p \in Nat /\ p * t <= n * s
    <3>1. (n \in kernel.short_positions) \in BOOLEAN
      OBVIOUS
    <3> QED
      BY <1>1, <1>2, <1>3, <3>1, FloorBounds DEF Position, s, t
  <2>2. source <= p + h
    BY <1>1, <1>2, <1>7, <2>1 DEF Drained, LastSourceIndex
  <2> HIDE DEF p
  <2>3. h \in Nat
    BY <1>1
  <2> HIDE DEF h
  <2>4. source * t <= (p + h) * t
    BY <1>1, <2>1, <2>2, <2>3, ProductMonotone
  <2>5. (p + h) * t = p * t + h * t /\ p * t \in Nat /\ h * t \in Nat
    BY <1>1, <2>1, <2>3
  <2>6. source * t <= n * s + h * t
    BY <1>3, <2>1, <2>4, <2>5
  <2> QED
    BY <1>5, <1>7, <2>6 DEF s, t, n, h
<1> QED
  BY <1>6, <1>7
=============================================================================

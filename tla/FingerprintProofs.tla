--------------------------- MODULE FingerprintProofs ---------------------------
(***************************************************************************)
(* Induction over the naturals, and facts about the pure operators of a     *)
(* fingerprint: the frame grid and the encoder, cited by the proofs about   *)
(* the streams, and the bytes a fingerprint is stored in.  Of these: a      *)
(* fingerprint of any length is loaded as it was saved, whatever follows    *)
(* it, and one that lost any part of its end is refused.                    *)
(*                                                                          *)
(* The numbers in the proofs about bytes are out of Zenon's reach: their    *)
(* leaves cite SMT.                                                         *)
(***************************************************************************)
EXTENDS FrameGrid, FingerprintBytes, WellFoundedInduction, TLAPS

-----------------------------------------------------------------------------
\* Induction.  The library's theorems take an operator; here induction is over a set
\* of naturals.

LEMMA LeastElement ==
  ASSUME NEW T, T \subseteq Nat, T # {}
  PROVE  \E x \in T : \A y \in T : x <= y
<1> DEFINE R == OpToRel(<, Nat)
<1>1. IsWellFoundedOn(R, Nat)
  BY NatLessThanWellFounded
<1>2. \A x, y \in Nat : y < x => <<y, x>> \in R
  BY DEF OpToRel
<1> HIDE DEF R
<1>3. PICK x \in T : \A y \in T : ~(<<y, x>> \in R)
  BY <1>1, WFMin
<1>4. \A y \in T : x \in Nat /\ y \in Nat /\ ~(y < x)
  BY <1>2, <1>3
<1> QED
  BY <1>3, <1>4

LEMMA NatInd ==
  ASSUME NEW S, 0 \in S, \A n \in Nat : n \in S => n + 1 \in S
  PROVE  \A n \in Nat : n \in S
<1>1. SUFFICES ASSUME NEW n \in Nat, n \notin S PROVE FALSE
  OBVIOUS
<1> DEFINE T == {m \in Nat : m \notin S}
<1>2. PICK x \in T : \A y \in T : x <= y
  <2>1. T # {} /\ T \subseteq Nat
    BY <1>1
  <2> HIDE DEF T
  <2> QED
    BY <2>1, LeastElement
<1>3. x # 0 /\ x \in Nat
  BY <1>2
<1>4. x - 1 \in Nat /\ x - 1 \notin T
  BY <1>2, <1>3
<1>5. x - 1 \in S
  BY <1>4
<1> QED
  BY <1>5, <1>3, <1>2

\* g holds the sums of the first elements of s.
Partial(s, n, g) == g = [k \in 0 .. n |-> IF k = 0 THEN 0 ELSE g[k - 1] + s[k]]

LEMMA PartialExists ==
  ASSUME NEW s, NEW n \in Nat
  PROVE  \E g : Partial(s, n, g)
<1> DEFINE S == {m \in Nat : \E g : Partial(s, m, g)}
<1>1. 0 \in S
  <2>1. Partial(s, 0, [k \in 0 .. 0 |-> 0])
    BY DEF Partial
  <2> QED
    BY <2>1
<1>2. ASSUME NEW m \in Nat, m \in S PROVE m + 1 \in S
  <2>1. PICK g : Partial(s, m, g)
    BY <1>2
  <2> DEFINE h == [k \in 0 .. m + 1 |-> IF k = m + 1 THEN g[m] + s[m + 1] ELSE g[k]]
  <2>2. \A k \in 0 .. m : g[k] = IF k = 0 THEN 0 ELSE g[k - 1] + s[k]
    BY <2>1 DEF Partial
  <2>3. \A k \in 0 .. m + 1 : h[k] = IF k = 0 THEN 0 ELSE h[k - 1] + s[k]
    BY <2>2
  <2>4. h = [k \in 0 .. m + 1 |-> h[k]]
    OBVIOUS
  <2> HIDE DEF h
  <2>5. Partial(s, m + 1, h)
    BY <2>3, <2>4 DEF Partial
  <2> QED
    BY <2>5
<1> HIDE DEF S
<1>3. n \in S
  BY <1>1, <1>2, NatInd
<1> QED
  BY <1>3 DEF S

-----------------------------------------------------------------------------
\* Quotients

\* The quotient of two naturals, as the bounds that determine it.
LEMMA DivBounds ==
    ASSUME NEW a \in Nat, NEW d \in Nat \ {0}
    PROVE  /\ a \div d \in Nat
           /\ (a \div d) * d <= a
           /\ a < (a \div d) * d + d
    OBVIOUS

\* A multiple of d that is at most a is at most the last such multiple.
LEMMA DivLargest ==
    ASSUME NEW a \in Nat, NEW d \in Nat \ {0}, NEW j \in Nat
    PROVE  j * d <= a <=> j <= a \div d
<1> DEFINE q == a \div d
<1>1. q \in Nat /\ q * d <= a /\ a < q * d + d
    BY DivBounds
<1> HIDE DEF q
<1>2. ASSUME j <= q PROVE j * d <= a
    <2>1. PICK m \in Nat : q = j + m
        BY <1>1, <1>2
    <2>2. q * d = j * d + m * d /\ m * d \in Nat
        BY <2>1
    <2> QED BY <1>1, <2>2
<1>3. ASSUME j > q PROVE j * d > a
    <2>1. PICK m \in Nat : j = q + 1 + m
        BY <1>1, <1>3
    <2>2. j * d = q * d + d + m * d /\ m * d \in Nat
        BY <1>1, <2>1
    <2> QED BY <1>1, <2>2
<1>4. j * d \in Nat
    OBVIOUS
<1> QED BY <1>1, <1>2, <1>3, <1>4 DEF q

\* FirstFrame is the first frame that begins at start or after it.
LEMMA FirstFrameBounds ==
    ASSUME NEW start \in Nat
    PROVE  /\ FirstFrame(start) \in Nat
           /\ start <= FirstFrame(start) * HOP_SIZE
           /\ FirstFrame(start) * HOP_SIZE < start + HOP_SIZE
<1>1. HOP_SIZE \in Nat \ {0} /\ start + HOP_SIZE - 1 \in Nat
    BY FrameGridAssumption
<1> DEFINE q == (start + HOP_SIZE - 1) \div HOP_SIZE
<1>2. q \in Nat /\ q * HOP_SIZE <= start + HOP_SIZE - 1 /\ start + HOP_SIZE - 1 < q * HOP_SIZE + HOP_SIZE
    BY <1>1, DivBounds
<1>3. FirstFrame(start) = q
    BY DEF FirstFrame, DivCeil
<1>4. q * HOP_SIZE \in Nat
    BY <1>1, <1>2
<1> HIDE DEF q
<1> QED BY <1>1, <1>2, <1>3, <1>4

\* A frame that begins at start or after it is FirstFrame or a later one.
LEMMA FirstFrameLeast ==
    ASSUME NEW start \in Nat, NEW j \in Nat, start <= j * HOP_SIZE
    PROVE  FirstFrame(start) <= j
<1>1. HOP_SIZE \in Nat \ {0}
    BY FrameGridAssumption
<1> DEFINE q == FirstFrame(start)
<1>2. q \in Nat /\ q * HOP_SIZE < start + HOP_SIZE
    BY FirstFrameBounds
<1> HIDE DEF q
<1>3. ASSUME j < q PROVE FALSE
    <2>1. PICK m \in Nat : q = j + 1 + m
        BY <1>2, <1>3
    <2>2. q * HOP_SIZE = j * HOP_SIZE + HOP_SIZE + m * HOP_SIZE /\ m * HOP_SIZE \in Nat /\ j * HOP_SIZE \in Nat
        BY <1>1, <2>1
    <2> QED BY <1>1, <1>2, <2>2
<1> QED BY <1>2, <1>3 DEF q

\* A later window does not begin with an earlier frame.
LEMMA FirstFrameMonotone ==
    ASSUME NEW a \in Nat, NEW b \in Nat, a <= b
    PROVE  FirstFrame(a) <= FirstFrame(b)
<1>1. HOP_SIZE \in Nat
    BY FrameGridAssumption
<1>2. FirstFrame(b) \in Nat /\ b <= FirstFrame(b) * HOP_SIZE
    BY FirstFrameBounds
<1>3. a <= FirstFrame(b) * HOP_SIZE
    BY <1>1, <1>2
<1> QED BY <1>2, <1>3, FirstFrameLeast

LEMMA SeqElement ==
    ASSUME NEW S, NEW s \in Seq(S), NEW k \in 1 .. Len(s)
    PROVE  s[k] \in S
    OBVIOUS

LEMMA Slice ==
    ASSUME NEW S, NEW s \in Seq(S), NEW a \in Nat, NEW b \in Nat, a <= b, b <= Len(s)
    PROVE  SubSeq(s, a + 1, b) = [i \in 1 .. b - a |-> s[a + i]]
    OBVIOUS

\* A larger factor makes a larger product.
LEMMA ProductMonotone ==
    ASSUME NEW a \in Nat, NEW b \in Nat, NEW d \in Nat, a <= b
    PROVE  a * d \in Nat /\ b * d \in Nat /\ a * d <= b * d
<1>1. PICK m \in Nat : b = a + m
    OBVIOUS
<1>2. b * d = a * d + m * d /\ m * d \in Nat /\ a * d \in Nat
    BY <1>1
<1> QED BY <1>2

\* LastFrame is the last frame that ends within the window at start.
LEMMA LastFrameBounds ==
    ASSUME NEW start \in Nat, NEW window_samples \in Nat, window_samples >= FRAME_SIZE
    PROVE  /\ LastFrame(start, window_samples) \in Nat
           /\ LastFrame(start, window_samples) * HOP_SIZE + FRAME_SIZE
                  <= start + window_samples
           /\ \A j \in Nat : j <= LastFrame(start, window_samples)
                                <=> j * HOP_SIZE + FRAME_SIZE <= start + window_samples
<1>1. /\ HOP_SIZE \in Nat \ {0} /\ FRAME_SIZE \in Nat
      /\ start + window_samples - FRAME_SIZE \in Nat
    BY FrameGridAssumption
<1> DEFINE q == (start + window_samples - FRAME_SIZE) \div HOP_SIZE
<1>2. q \in Nat
    BY <1>1, DivBounds
<1>3. ASSUME NEW j \in Nat
      PROVE  j <= q <=> j * HOP_SIZE + FRAME_SIZE <= start + window_samples
    <2>1. j <= q <=> j * HOP_SIZE <= start + window_samples - FRAME_SIZE
        BY <1>1, DivLargest
    <2>2. j * HOP_SIZE \in Nat
        BY <1>1
    <2> HIDE DEF q
    <2> QED BY <1>1, <2>1, <2>2
<1>4. q * HOP_SIZE + FRAME_SIZE <= start + window_samples
    BY <1>2, <1>3
<1> QED BY <1>2, <1>3, <1>4 DEF LastFrame

\* complete_frame_count counts the frames that end within the samples.
LEMMA CompleteFrameCountBounds ==
    ASSUME NEW n \in Nat
    PROVE  /\ CompleteFrameCount(n) \in Nat
           /\ \A j \in Nat : j < CompleteFrameCount(n) <=> j * HOP_SIZE + FRAME_SIZE <= n
<1>1. HOP_SIZE \in Nat \ {0} /\ FRAME_SIZE \in Nat
    BY FrameGridAssumption
<1>2. CASE n < FRAME_SIZE
    <2>1. CompleteFrameCount(n) = 0
        BY <1>2 DEF CompleteFrameCount
    <2>2. ASSUME NEW j \in Nat PROVE j * HOP_SIZE \in Nat
        BY <1>1
    <2> QED BY <1>1, <1>2, <2>1, <2>2
<1>3. CASE n >= FRAME_SIZE
    <2>1. n - FRAME_SIZE \in Nat
        BY <1>1, <1>3
    <2> DEFINE q == (n - FRAME_SIZE) \div HOP_SIZE
    <2>2. CompleteFrameCount(n) = q + 1 /\ q \in Nat
        BY <1>1, <1>3, <2>1, DivBounds DEF CompleteFrameCount
    <2>3. ASSUME NEW j \in Nat PROVE j < q + 1 <=> j * HOP_SIZE + FRAME_SIZE <= n
        <3>1. j <= q <=> j * HOP_SIZE <= n - FRAME_SIZE
            BY <1>1, <2>1, DivLargest
        <3>2. j * HOP_SIZE \in Nat
            BY <1>1
        <3> HIDE DEF q
        <3> QED BY <1>1, <2>2, <3>1, <3>2
    <2> HIDE DEF q
    <2> QED BY <2>2, <2>3
<1> QED BY <1>1, <1>2, <1>3

-----------------------------------------------------------------------------

LEMMA GridFrameType ==
    ASSUME NEW j \in Nat
    PROVE  GridFrame(j) \in [1 .. FRAME_SIZE -> Nat]
<1>1. HOP_SIZE \in Nat /\ FRAME_SIZE \in Nat /\ j * HOP_SIZE \in Nat
    BY FrameGridAssumption
<1> QED BY <1>1 DEF GridFrame

\* The windows that fit are those whose last sample is within the recording.
LEMMA WindowCountBounds ==
    ASSUME NEW n \in Nat, NEW window_samples \in Nat, NEW interval_samples \in Nat \ {0}
    PROVE  /\ WindowCount(n, window_samples, interval_samples) \in Nat
           /\ \A j \in Nat : j < WindowCount(n, window_samples, interval_samples)
                                <=> j * interval_samples + window_samples <= n
<1>1. CASE n < window_samples
    <2>1. WindowCount(n, window_samples, interval_samples) = 0
        BY <1>1 DEF WindowCount
    <2>2. ASSUME NEW j \in Nat PROVE j * interval_samples \in Nat
        OBVIOUS
    <2> QED BY <1>1, <2>1, <2>2
<1>2. CASE n >= window_samples
    <2>1. n - window_samples \in Nat
        BY <1>2
    <2> DEFINE q == (n - window_samples) \div interval_samples
    <2>2. WindowCount(n, window_samples, interval_samples) = q + 1 /\ q \in Nat
        BY <1>2, <2>1, DivBounds DEF WindowCount
    <2>3. ASSUME NEW j \in Nat
          PROVE  j < q + 1 <=> j * interval_samples + window_samples <= n
        <3>1. j <= q <=> j * interval_samples <= n - window_samples
            BY <2>1, DivLargest
        <3>2. j * interval_samples \in Nat
            OBVIOUS
        <3> HIDE DEF q
        <3> QED BY <2>2, <3>1, <3>2
    <2> HIDE DEF q
    <2> QED BY <2>2, <2>3
<1> QED BY <1>1, <1>2

\* A hash starts at a frame that has HASH_FRAME_COUNT frames from it on.
LEMMA HashStartsType ==
    ASSUME NEW last_start \in Nat
    PROVE  HashStarts(last_start) \in Seq(0 .. last_start)
<1> DEFINE q == last_start \div HASH_STRIDE_FRAMES
<1> DEFINE strided == [k \in 1 .. q + 1 |-> (k - 1) * HASH_STRIDE_FRAMES]
<1>1. HASH_STRIDE_FRAMES \in Nat \ {0}
    BY FrameGridAssumption
<1>2. q \in Nat
    BY <1>1, DivBounds
<1>3. ASSUME NEW k \in 1 .. q + 1
      PROVE  (k - 1) * HASH_STRIDE_FRAMES \in 0 .. last_start
    <2>1. k - 1 \in Nat /\ k - 1 <= q
        BY <1>2, <1>3
    <2>2. (k - 1) * HASH_STRIDE_FRAMES <= last_start
        BY <1>1, <2>1, DivLargest
    <2>3. (k - 1) * HASH_STRIDE_FRAMES \in Nat
        BY <1>1, <2>1
    <2> QED BY <2>2, <2>3
<1>4. strided \in Seq(0 .. last_start)
    BY <1>2, <1>3
<1>5. Append(strided, last_start) \in Seq(0 .. last_start)
    BY <1>4
<1> QED BY <1>4, <1>5 DEF HashStarts

\* A hash is the frames it reads.
LEMMA EncodeType ==
    ASSUME NEW S, NEW frames \in Seq(S)
    PROVE  EncodeChromaFrames(frames) \in Seq(Seq(S))
<1>1. CASE Len(frames) < HASH_FRAME_COUNT
    BY <1>1 DEF EncodeChromaFrames
<1>2. CASE Len(frames) >= HASH_FRAME_COUNT
    <2> DEFINE starts == HashStarts(Len(frames) - HASH_FRAME_COUNT)
    <2>1. HASH_FRAME_COUNT \in Nat \ {0} /\ HASH_FRAMES_READ \in 1 .. HASH_FRAME_COUNT
        BY FrameGridAssumption
    <2>2. starts \in Seq(0 .. Len(frames) - HASH_FRAME_COUNT)
        BY <1>2, <2>1, HashStartsType
    <2> HIDE DEF starts
    <2>3. ASSUME NEW k \in 1 .. Len(starts)
          PROVE  ComputeHash(SubSeq(frames, starts[k] + 1, starts[k] + HASH_FRAME_COUNT))
                     \in Seq(S)
        <3>1. starts[k] \in 0 .. Len(frames) - HASH_FRAME_COUNT
            BY <2>2, SeqElement
        <3> DEFINE part == SubSeq(frames, starts[k] + 1, starts[k] + HASH_FRAME_COUNT)
        <3>2. part \in Seq(S) /\ Len(part) = HASH_FRAME_COUNT
            BY <2>1, <3>1
        <3> HIDE DEF part
        <3>3. ComputeHash(part) \in Seq(S)
            BY <2>1, <3>2 DEF ComputeHash
        <3> QED BY <3>3 DEF part
    <2>4. [k \in 1 .. Len(starts) |->
              ComputeHash(SubSeq(frames, starts[k] + 1, starts[k] + HASH_FRAME_COUNT))]
             \in Seq(Seq(S))
        BY <2>2, <2>3
    <2> QED BY <1>2, <2>1, <2>4 DEF EncodeChromaFrames, starts
<1>3. Len(frames) \in Nat /\ HASH_FRAME_COUNT \in Nat
    BY FrameGridAssumption
<1> QED BY <1>1, <1>2, <1>3

-----------------------------------------------------------------------------

LEMMA GridWindowType ==
    ASSUME NEW start \in Nat, NEW window_samples \in Nat, window_samples >= FRAME_SIZE
    PROVE  GridWindow(start, window_samples)
               \in [start : Nat, hashes : Seq(Seq([1 .. FRAME_SIZE -> Nat]))]
<1> DEFINE F == [1 .. FRAME_SIZE -> Nat]
<1> DEFINE first == FirstFrame(start)
<1> DEFINE last == LastFrame(start, window_samples)
<1>1. first \in Nat /\ last \in Nat
    BY FirstFrameBounds, LastFrameBounds
<1> HIDE DEF first, last
<1>2. ASSUME first <= last PROVE GridFrames(first, last) \in Seq(F)
    <2>1. \A k \in 1 .. last - first + 1 : GridFrame(first + k - 1) \in F
        BY <1>1, GridFrameType
    <2> HIDE DEF F
    <2> QED BY <1>1, <1>2, <2>1 DEF GridFrames
<1> HIDE DEF F
<1>3. (IF first <= last THEN EncodeChromaFrames(GridFrames(first, last)) ELSE <<>>)
          \in Seq(Seq(F))
    BY <1>2, EncodeType
<1> QED BY <1>3 DEF GridWindow, Window, first, last, F

\* The samples under a frame that a recording holds all of
LEMMA FrameOfRecording ==
    ASSUME NEW S, NEW samples \in Seq(S), NEW offset \in Nat,
           offset + FRAME_SIZE <= Len(samples)
    PROVE  /\ ChromaFrame(samples, offset) = [i \in 1 .. FRAME_SIZE |-> samples[offset + i]]
           /\ ChromaFrame(samples, offset) \in Seq(S)
<1> DEFINE e == offset + FRAME_SIZE
<1>1. FRAME_SIZE \in Nat
    BY FrameGridAssumption
<1>2. e \in Nat /\ offset <= e /\ e <= Len(samples) /\ e - offset = FRAME_SIZE
    BY <1>1
<1>3. ChromaFrame(samples, offset) = SubSeq(samples, offset + 1, e)
    BY DEF ChromaFrame
<1> HIDE DEF e
<1>4. SubSeq(samples, offset + 1, e) = [i \in 1 .. e - offset |-> samples[offset + i]]
    BY <1>2, Slice
<1>5. ChromaFrame(samples, offset) = [i \in 1 .. FRAME_SIZE |-> samples[offset + i]]
    BY <1>2, <1>3, <1>4
<1>6. \A i \in 1 .. FRAME_SIZE : samples[offset + i] \in S
    BY <1>1, <1>2
<1> QED BY <1>1, <1>5, <1>6

\* The frame computed at a complete offset of a recording is that of the grid.
LEMMA ChromaFrameOfStream ==
    ASSUME NEW n \in Nat, NEW j \in Nat, j * HOP_SIZE + FRAME_SIZE <= n
    PROVE  ChromaFrame(StreamSamples(n), j * HOP_SIZE) = GridFrame(j)
<1>1. FRAME_SIZE \in Nat /\ j * HOP_SIZE \in Nat
    BY FrameGridAssumption
<1>2. StreamSamples(n) \in Seq(Nat) /\ Len(StreamSamples(n)) = n
    BY DEF StreamSamples
<1>3. PICK o : o = j * HOP_SIZE
    OBVIOUS
<1>4. PICK samples : samples = StreamSamples(n)
    OBVIOUS
<1>5. o \in Nat /\ samples \in Seq(Nat) /\ o + FRAME_SIZE <= Len(samples)
    BY <1>1, <1>2, <1>3, <1>4
<1>6. ChromaFrame(samples, o) = [i \in 1 .. FRAME_SIZE |-> samples[o + i]]
    BY <1>5, FrameOfRecording
<1>7. \A i \in 1 .. FRAME_SIZE : samples[o + i] = o + i - 1
    BY <1>1, <1>2, <1>4, <1>5 DEF StreamSamples
<1> QED BY <1>3, <1>4, <1>6, <1>7 DEF GridFrame

\* fingerprint_windows cuts each window of a recording from the samples that lie
\* in it: the frames it computes are enough for its last window, and each window
\* slices those inside it and no other.
THEOREM OneShotWindows ==
    ASSUME NEW S, NEW samples \in Seq(S), NEW window_samples \in Nat,
           window_samples >= FRAME_SIZE, NEW interval_samples \in Nat \ {0}
    PROVE  FingerprintWindows(samples, window_samples, interval_samples)
               = [k \in 1 .. WindowCount(Len(samples), window_samples, interval_samples) |->
                      WindowOver(samples, (k - 1) * interval_samples, window_samples)]
<1> DEFINE n == Len(samples)
<1> DEFINE count == WindowCount(n, window_samples, interval_samples)
<1> DEFINE needed_frames == LastFrame((count - 1) * interval_samples, window_samples) + 1
<1> DEFINE frames == ComputeChromaFrames(samples, needed_frames)
<1> DEFINE Hashes(start) ==
        IF FirstFrame(start) <= LastFrame(start, window_samples)
        THEN EncodeChromaFrames(SubSeq(frames, FirstFrame(start) + 1,
                                       LastFrame(start, window_samples) + 1))
        ELSE <<>>
<1>1. n \in Nat
    OBVIOUS
<1>2. FingerprintWindows(samples, window_samples, interval_samples)
          = [k \in 1 .. count |-> Window((k - 1) * interval_samples,
                                         Hashes((k - 1) * interval_samples))]
    BY DEF FingerprintWindows
<1> HIDE DEF n
<1>3. ASSUME NEW k \in 1 .. count
      PROVE  Window((k - 1) * interval_samples, Hashes((k - 1) * interval_samples))
                 = WindowOver(samples, (k - 1) * interval_samples, window_samples)
    <2> DEFINE start == (k - 1) * interval_samples
    <2> DEFINE last_start == (count - 1) * interval_samples
    <2> DEFINE first == FirstFrame(start)
    <2> DEFINE last == LastFrame(start, window_samples)
    <2> DEFINE final == LastFrame(last_start, window_samples)
    <2>1. count \in Nat /\ k - 1 \in Nat /\ count - 1 \in Nat /\ k - 1 <= count - 1
        <3>1. count \in Nat
            BY <1>1, WindowCountBounds
        <3> HIDE DEF count
        <3> QED BY <1>3, <3>1
    <2>2. start \in Nat /\ last_start \in Nat
        BY <2>1
    <2>3. start <= last_start
        BY <2>1, ProductMonotone
    <2>4. last_start + window_samples <= n
        BY <1>1, <2>1, WindowCountBounds
    <2>5. first \in Nat /\ last \in Nat /\ final \in Nat
        BY <2>2, FirstFrameBounds, LastFrameBounds
    <2>6. final * HOP_SIZE + FRAME_SIZE <= last_start + window_samples
        <3> HIDE DEF start, last_start, first, last, count
        <3> QED BY <2>2, LastFrameBounds
    <2>7. last * HOP_SIZE + FRAME_SIZE <= start + window_samples
        <3> HIDE DEF start, last_start, first, final, count
        <3> QED BY <2>2, LastFrameBounds
    <2>8. /\ FRAME_SIZE \in Nat /\ HOP_SIZE \in Nat
          /\ final * HOP_SIZE \in Nat /\ last * HOP_SIZE \in Nat
        BY <2>5, FrameGridAssumption
    <2> HIDE DEF start, last_start, first, last, final, count
    <2>9. last <= final
        <3>1. last * HOP_SIZE + FRAME_SIZE <= last_start + window_samples
            BY <2>2, <2>3, <2>7, <2>8
        <3> QED BY <2>2, <2>5, <3>1, LastFrameBounds DEF final
    <2> DEFINE FrameAt(j) == ChromaFrame(samples, j * HOP_SIZE)
    <2>10. /\ frames \in Seq(Seq(S)) /\ Len(frames) = final + 1
           /\ \A i \in 1 .. final + 1 : frames[i] = FrameAt(i - 1)
        <3>1. final < CompleteFrameCount(n) /\ CompleteFrameCount(n) \in Nat
            <4>1. final * HOP_SIZE + FRAME_SIZE <= n
                BY <1>1, <2>2, <2>4, <2>6, <2>8
            <4> QED BY <1>1, <2>5, <4>1, CompleteFrameCountBounds
        <3>2. frames = [i \in 1 .. final + 1 |-> FrameAt(i - 1)]
            BY <2>5, <3>1 DEF ComputeChromaFrames, final, last_start, n
        <3>3. ASSUME NEW i \in 1 .. final + 1 PROVE FrameAt(i - 1) \in Seq(S)
            <4>1. i - 1 \in Nat /\ (i - 1) * HOP_SIZE \in Nat
                BY <2>5, <2>8
            <4>2. i - 1 < CompleteFrameCount(n)
                BY <2>5, <3>1, <4>1
            <4>3. (i - 1) * HOP_SIZE + FRAME_SIZE <= n
                BY <1>1, <4>1, <4>2, CompleteFrameCountBounds
            <4>4. (i - 1) * HOP_SIZE + FRAME_SIZE <= Len(samples)
                BY <4>3 DEF n
            <4> QED BY <4>1, <4>4, FrameOfRecording
        <3> HIDE DEF frames, FrameAt
        <3> QED BY <2>5, <3>2, <3>3
    <2>11. ASSUME first <= last
           PROVE  SubSeq(frames, first + 1, last + 1) = FramesOver(samples, first, last)
        <3> HIDE DEF frames
        <3>2. SubSeq(frames, first + 1, last + 1)
                  = [i \in 1 .. last + 1 - first |-> frames[first + i]]
            BY <2>5, <2>9, <2>10, <2>11, Slice
        <3>3. \A i \in 1 .. last - first + 1 : frames[first + i] = FrameAt(first + i - 1)
            <4> HIDE DEF FrameAt
            <4> QED BY <2>5, <2>9, <2>10, <2>11
        <3>4. last + 1 - first = last - first + 1
            BY <2>5
        <3> QED BY <3>2, <3>3, <3>4 DEF FramesOver
    <2> HIDE DEF frames
    <2>12. Hashes(start) =
              IF first <= last THEN EncodeChromaFrames(FramesOver(samples, first, last))
              ELSE <<>>
        BY <2>11 DEF first, last
    <2> QED BY <2>12 DEF WindowOver, start, first, last
<1> QED BY <1>2, <1>3 DEF n

\* The window of a stream that holds all of it is that of the grid.
LEMMA WindowOfStream ==
    ASSUME NEW n \in Nat, NEW start \in Nat, NEW window_samples \in Nat,
           window_samples >= FRAME_SIZE, start + window_samples <= n
    PROVE  WindowOver(StreamSamples(n), start, window_samples) = GridWindow(start, window_samples)
<1> DEFINE first == FirstFrame(start)
           last == LastFrame(start, window_samples)
<1>1. first \in Nat /\ last \in Nat /\ last * HOP_SIZE + FRAME_SIZE <= start + window_samples
    BY FirstFrameBounds, LastFrameBounds
<1>2. FRAME_SIZE \in Nat /\ HOP_SIZE \in Nat
    BY FrameGridAssumption
<1> HIDE DEF first, last
<1>3. ASSUME NEW k \in 1 .. last - first + 1
      PROVE  ChromaFrame(StreamSamples(n), (first + k - 1) * HOP_SIZE) = GridFrame(first + k - 1)
    <2>1. first + k - 1 \in Nat /\ first + k - 1 <= last
        BY <1>1
    <2>2. /\ (first + k - 1) * HOP_SIZE \in Nat /\ last * HOP_SIZE \in Nat
          /\ (first + k - 1) * HOP_SIZE <= last * HOP_SIZE
        BY <1>1, <1>2, <2>1, ProductMonotone
    <2>3. (first + k - 1) * HOP_SIZE + FRAME_SIZE <= n
        BY <1>1, <1>2, <2>2
    <2> QED BY <2>1, <2>3, ChromaFrameOfStream
<1>4. FramesOver(StreamSamples(n), first, last) = GridFrames(first, last)
    BY <1>3 DEF FramesOver, GridFrames
<1> QED BY <1>4 DEF WindowOver, GridWindow, first, last

\* The windows of a stream are those of the grid.
LEMMA OneShotWindowsOfStream ==
    ASSUME NEW n \in Nat, NEW window_samples \in Nat, window_samples >= FRAME_SIZE,
           NEW interval_samples \in Nat \ {0}
    PROVE  FingerprintWindows(StreamSamples(n), window_samples, interval_samples)
               = [k \in 1 .. WindowCount(n, window_samples, interval_samples) |->
                      GridWindow((k - 1) * interval_samples, window_samples)]
<1> DEFINE count == WindowCount(n, window_samples, interval_samples)
<1>1. StreamSamples(n) \in Seq(Nat) /\ Len(StreamSamples(n)) = n
    BY DEF StreamSamples
<1>2. FingerprintWindows(StreamSamples(n), window_samples, interval_samples)
          = [k \in 1 .. count |->
                WindowOver(StreamSamples(n), (k - 1) * interval_samples, window_samples)]
    BY <1>1, OneShotWindows
<1>3. ASSUME NEW k \in 1 .. count
      PROVE  WindowOver(StreamSamples(n), (k - 1) * interval_samples, window_samples)
                 = GridWindow((k - 1) * interval_samples, window_samples)
    <2>1. count \in Nat /\ k - 1 \in Nat /\ count - 1 \in Nat /\ k - 1 <= count - 1
        <3>1. count \in Nat
            BY WindowCountBounds
        <3> HIDE DEF count
        <3> QED BY <1>3, <3>1
    <2>2. (count - 1) * interval_samples + window_samples <= n
        BY <2>1, WindowCountBounds
    <2> HIDE DEF count
    <2>3. /\ (k - 1) * interval_samples \in Nat /\ (count - 1) * interval_samples \in Nat
          /\ (k - 1) * interval_samples <= (count - 1) * interval_samples
        BY <2>1, ProductMonotone
    <2>4. (k - 1) * interval_samples + window_samples <= n
        BY <2>2, <2>3
    <2> QED BY <2>3, <2>4, WindowOfStream
<1> QED BY <1>2, <1>3

-----------------------------------------------------------------------------

\* The hashes that begin at a multiple of the stride and lie within n samples
AlignedCount(n) ==
    IF CompleteFrameCount(n) < HASH_FRAME_COUNT THEN 0
    ELSE (CompleteFrameCount(n) - HASH_FRAME_COUNT) \div HASH_STRIDE_FRAMES + 1

\* As many hashes as are complete, if the next one is not.
LEMMA AlignedCountIs ==
    ASSUME NEW n \in Nat, NEW h \in Nat,
           (h * HASH_STRIDE_FRAMES + HASH_FRAME_COUNT - 1) * HOP_SIZE + FRAME_SIZE > n,
           h > 0 => ((h - 1) * HASH_STRIDE_FRAMES + HASH_FRAME_COUNT - 1) * HOP_SIZE
                        + FRAME_SIZE <= n
    PROVE  AlignedCount(n) = h
<1> DEFINE c == CompleteFrameCount(n)
           S == HASH_STRIDE_FRAMES
           C == HASH_FRAME_COUNT
<1>1. c \in Nat /\ S \in Nat \ {0} /\ C \in Nat \ {0}
    BY FrameGridAssumption, CompleteFrameCountBounds
<1>2. h * S \in Nat /\ h * S + C - 1 \in Nat
    BY <1>1
<1>3. c <= h * S + C - 1
    <2>1. h * S + C - 1 < c <=> (h * S + C - 1) * HOP_SIZE + FRAME_SIZE <= n
        BY <1>2, CompleteFrameCountBounds
    <2>2. (h * S + C - 1) * HOP_SIZE + FRAME_SIZE \in Nat
        BY <1>2, FrameGridAssumption
    <2> QED BY <1>1, <1>2, <2>1, <2>2
<1>4. ASSUME h > 0 PROVE (h - 1) * S \in Nat /\ (h - 1) * S + C <= c
    <2>1. h - 1 \in Nat /\ (h - 1) * S \in Nat /\ (h - 1) * S + C - 1 \in Nat
        BY <1>1, <1>4
    <2>2. (h - 1) * S + C - 1 < c
        BY <1>4, <2>1, CompleteFrameCountBounds
    <2> HIDE DEF c
    <2> QED BY <1>1, <2>1, <2>2
<1> HIDE DEF c
<1>5. CASE c < C
    <2>1. h = 0
        BY <1>1, <1>4, <1>5
    <2> QED BY <1>5, <2>1 DEF AlignedCount, c
<1>6. CASE c >= C
    <2> DEFINE q == (c - C) \div S
    <2>1. c - C \in Nat /\ q \in Nat
        BY <1>1, <1>6, DivBounds
    <2>2. ~(h <= q)
        <3>1. h * S <= c - C <=> h <= q
            BY <1>1, <2>1, DivLargest
        <3> HIDE DEF q
        <3> QED BY <1>1, <1>2, <1>3, <3>1
    <2>3. h > 0 => h - 1 <= q
        <3> SUFFICES ASSUME h > 0 PROVE h - 1 <= q
            OBVIOUS
        <3>1. h - 1 \in Nat /\ (h - 1) * S <= c - C
            BY <1>1, <1>4, <1>6
        <3> QED BY <1>1, <2>1, <3>1, DivLargest
    <2>4. AlignedCount(n) = q + 1
        BY <1>1, <1>6 DEF AlignedCount, c
    <2> HIDE DEF q
    <2> QED BY <2>1, <2>2, <2>3, <2>4
<1> QED BY <1>1, <1>5, <1>6

-----------------------------------------------------------------------------

U32 == {w \in Nat : w < 4294967296}
Byte == {b \in Nat : b < 256}

\* The bytes of a word, read back.
Value(b) == b[1] + 256 * b[2] + 65536 * b[3] + 16777216 * b[4]

\* The four bytes of a word stand for it.
LEMMA WordOfBytes ==
  ASSUME NEW w \in U32
  PROVE  /\ \A i \in 1 .. 4 : LittleEndian(w)[i] \in Byte
         /\ Value(LittleEndian(w)) = w
<1> DEFINE low == w \div 256
           middle == w \div 65536
           high == w \div 16777216
<1>1. w = 256 * low + (w % 256) /\ w % 256 \in Byte /\ low \in Nat
  BY SMT DEF U32, Byte
<1>2. low \div 256 = middle /\ middle \div 256 = high
  BY SMT DEF U32
<1>3. low = 256 * middle + (low % 256) /\ low % 256 \in Byte
  BY <1>1, <1>2, SMT DEF Byte
<1>4. middle \in Nat /\ high \in Nat /\ high <= 255
  BY SMT DEF U32
<1>5. middle = 256 * high + (middle % 256) /\ middle % 256 \in Byte
  BY <1>2, <1>4, SMT DEF Byte
<1>6. LittleEndian(w) = <<w % 256, low % 256, middle % 256, high>>
  BY SMT DEF LittleEndian
<1> HIDE DEF low, middle, high
<1> DEFINE b0 == w % 256
           b1 == low % 256
           b2 == middle % 256
<1> HIDE DEF b0, b1, b2
<1>7. /\ w = 256 * low + b0 /\ low = 256 * middle + b1 /\ middle = 256 * high + b2
      /\ b0 \in Byte /\ b1 \in Byte /\ b2 \in Byte /\ high \in Byte
      /\ low \in Nat /\ middle \in Nat
  BY <1>1, <1>3, <1>4, <1>5, SMT DEF Byte, b0, b1, b2
<1>8. LittleEndian(w) = <<b0, b1, b2, high>>
  BY <1>6, SMT DEF b0, b1, b2
<1>9. b0 + 256 * b1 + 65536 * b2 + 16777216 * high = w
  BY <1>7, SMT DEF Byte
<1> QED
  BY <1>7, <1>8, <1>9, SMT DEF Value

\* What is stored in place k: the duration, the count, and the hashes.
LEMMA WordAt ==
  ASSUME NEW hashes \in Seq(U32), NEW duration_ms \in U32, Len(hashes) \in U32
  PROVE  /\ Words(hashes, duration_ms) \in Seq(U32)
         /\ Len(Words(hashes, duration_ms)) = 2 + Len(hashes)
         /\ Words(hashes, duration_ms)[1] = duration_ms
         /\ Words(hashes, duration_ms)[2] = Len(hashes)
         /\ \A k \in 1 .. Len(hashes) : Words(hashes, duration_ms)[k + 2] = hashes[k]
<1> HIDE DEF U32
<1>1. <<duration_ms, Len(hashes)>> \in Seq(U32) /\ Len(<<duration_ms, Len(hashes)>>) = 2
  BY SMT
<1> QED
  BY <1>1, SMT DEF Words

\* Four bytes of a file are the word stored there, whatever else the file holds.
LEMMA ReadWord ==
  ASSUME NEW hashes \in Seq(U32), NEW duration_ms \in U32, Len(hashes) \in U32,
         NEW data, NEW k \in 1 .. 2 + Len(hashes),
         \A i \in 1 .. 8 + 4 * Len(hashes) :
            i <= 4 * k => data[i] = ToBytes(hashes, duration_ms)[i]
  PROVE  ReadU32(data, 4 * (k - 1)) = Words(hashes, duration_ms)[k]
<1> DEFINE word == Words(hashes, duration_ms)[k]
<1>1. word \in U32
  <2> HIDE DEF U32
  <2> QED
    BY WordAt, SMT
<1>2. Len(hashes) \in Nat /\ k \in Int /\ 1 <= k /\ k <= 2 + Len(hashes)
  BY SMT
<1>3. ASSUME NEW j \in 1 .. 4
      PROVE  data[4 * (k - 1) + j] = LittleEndian(word)[j]
  <2> DEFINE i == 4 * (k - 1) + j
  <2>1. i \in 1 .. 8 + 4 * Len(hashes) /\ i <= 4 * k
    BY <1>2, SMT
  <2>2. ((i - 1) \div 4) + 1 = k /\ ((i - 1) % 4) + 1 = j
    BY <1>2, SMT
  <2> HIDE DEF i
  <2>3. data[i] = ToBytes(hashes, duration_ms)[i]
    BY <2>1, SMT
  <2>4. ToBytes(hashes, duration_ms)[i]
           = LittleEndian(Words(hashes, duration_ms)[((i - 1) \div 4) + 1])[((i - 1) % 4) + 1]
    BY <2>1, SMT DEF ToBytes
  <2>5. data[i] = LittleEndian(word)[j]
    BY <2>2, <2>3, <2>4, SMT
  <2> QED
    BY <2>5, SMT DEF i
<1>4. Value(LittleEndian(word)) = word
  BY <1>1, WordOfBytes, SMT
<1> HIDE DEF word
<1>5. ReadU32(data, 4 * (k - 1)) = Value(LittleEndian(word))
  BY <1>3, SMT DEF ReadU32, Value
<1> QED
  BY <1>4, <1>5, SMT DEF word

\* A stored fingerprint is eight bytes and four for each hash.
LEMMA BytesType ==
  ASSUME NEW hashes \in Seq(U32), NEW duration_ms \in U32, Len(hashes) \in U32
  PROVE  /\ ToBytes(hashes, duration_ms) \in Seq(Byte)
         /\ Len(ToBytes(hashes, duration_ms)) = 8 + 4 * Len(hashes)
<1> DEFINE bytes == ToBytes(hashes, duration_ms)
<1>1. ASSUME NEW i \in 1 .. 8 + 4 * Len(hashes)
      PROVE  bytes[i] \in Byte
  <2>1. ((i - 1) \div 4) + 1 \in 1 .. 2 + Len(hashes) /\ ((i - 1) % 4) + 1 \in 1 .. 4
    BY SMT
  <2>2. Words(hashes, duration_ms)[((i - 1) \div 4) + 1] \in U32
    <3> HIDE DEF U32
    <3> QED
      BY <2>1, WordAt, SMT
  <2> QED
    BY <2>1, <2>2, WordOfBytes, SMT DEF ToBytes
<1>2. DOMAIN bytes = 1 .. 8 + 4 * Len(hashes) /\ bytes = [i \in DOMAIN bytes |-> bytes[i]]
  BY SMT DEF ToBytes
<1>3. 8 + 4 * Len(hashes) \in Nat
  BY SMT
<1> HIDE DEF bytes
<1>4. bytes \in Seq(Byte) /\ Len(bytes) = 8 + 4 * Len(hashes)
  BY <1>1, <1>2, <1>3, SMT
<1> QED
  BY <1>4 DEF bytes

\* fingerprint_from_bytes returns the duration and the hashes that
\* fingerprint_to_bytes was given, for any number of hashes and whatever bytes come
\* after them.
THEOREM RoundTrip ==
  ASSUME NEW hashes \in Seq(U32), NEW duration_ms \in U32, Len(hashes) \in U32,
         NEW trailing \in Seq(Byte)
  PROVE  FromBytes(ToBytes(hashes, duration_ms) \o trailing)
            = <<[hashes |-> hashes, duration_ms |-> duration_ms]>>
<1> DEFINE bytes == ToBytes(hashes, duration_ms)
           data == bytes \o trailing
<1>1. bytes \in Seq(Byte) /\ Len(bytes) = 8 + 4 * Len(hashes)
  BY BytesType
<1> HIDE DEF bytes
<1>2. Len(data) >= 8 + 4 * Len(hashes)
  BY <1>1, SMT
<1>3. \A i \in 1 .. 8 + 4 * Len(hashes) : data[i] = bytes[i]
  BY <1>1, SMT
<1> HIDE DEF data
<1>4. \A k \in 1 .. 2 + Len(hashes) : ReadU32(data, 4 * (k - 1)) = Words(hashes, duration_ms)[k]
  BY <1>3, ReadWord, SMT DEF bytes
<1>5. ReadU32(data, 0) = duration_ms
  <2>1. 1 \in 1 .. 2 + Len(hashes) /\ 4 * (1 - 1) = 0
    BY SMT
  <2>2. ReadU32(data, 4 * (1 - 1)) = Words(hashes, duration_ms)[1]
    BY <1>4, <2>1
  <2> QED
    BY <2>1, <2>2, WordAt
<1>6. ReadU32(data, 4) = Len(hashes)
  <2>1. 2 \in 1 .. 2 + Len(hashes) /\ 4 * (2 - 1) = 4
    BY SMT
  <2> QED
    BY <1>4, <2>1, WordAt, SMT
<1>7. ASSUME NEW k \in 1 .. Len(hashes)
      PROVE  ReadU32(data, 8 + (k - 1) * 4) = hashes[k]
  <2>1. k + 2 \in 1 .. 2 + Len(hashes) /\ 4 * ((k + 2) - 1) = 8 + (k - 1) * 4
    BY SMT
  <2>2. ReadU32(data, 4 * ((k + 2) - 1)) = Words(hashes, duration_ms)[k + 2]
    BY <1>4, <2>1
  <2> QED
    BY <2>1, <2>2, WordAt, SMT
<1>8. [k \in 1 .. Len(hashes) |-> ReadU32(data, 8 + (k - 1) * 4)] = hashes
  BY <1>7, SMT
<1>9. ~(Len(data) < 8 \/ 8 + 4 * ReadU32(data, 4) > Len(data))
  BY <1>1, <1>2, <1>6, SMT DEF data
<1> QED
  BY <1>5, <1>6, <1>8, <1>9, SMT DEF FromBytes, data, bytes

\* A fingerprint cut off anywhere, in its header or in its hashes, is refused.
THEOREM CutIsRefused ==
  ASSUME NEW hashes \in Seq(U32), NEW duration_ms \in U32, Len(hashes) \in U32,
         NEW cut \in 0 .. 7 + 4 * Len(hashes)
  PROVE  FromBytes(SubSeq(ToBytes(hashes, duration_ms), 1, cut)) = <<>>
<1> DEFINE bytes == ToBytes(hashes, duration_ms)
           data == SubSeq(bytes, 1, cut)
<1>1. data = [i \in 1 .. cut |-> bytes[i]] /\ Len(data) = cut
  <2> HIDE DEF bytes
  <2>1. cut \in Nat
    BY SMT
  <2> QED
    BY <2>1, SMT
<1>2. CASE cut < 8
  BY <1>1, <1>2, SMT DEF FromBytes
<1>3. CASE cut >= 8
  <2>1. \A i \in 1 .. 8 + 4 * Len(hashes) : i <= 4 * 2 => data[i] = bytes[i]
    BY <1>1, <1>3, SMT
  <2> HIDE DEF data
  <2>2. 2 \in 1 .. 2 + Len(hashes) /\ 4 * (2 - 1) = 4
    BY SMT
  <2>3. ReadU32(data, 4 * (2 - 1)) = Words(hashes, duration_ms)[2]
    BY <2>1, <2>2, ReadWord
  <2>4. ReadU32(data, 4) = Len(hashes)
    BY <2>2, <2>3, WordAt
  <2>5. 8 + 4 * ReadU32(data, 4) > Len(data)
    BY <1>1, <2>4, SMT
  <2> QED
    BY <2>5, SMT DEF FromBytes, data
<1> QED
  BY <1>2, <1>3, SMT
=============================================================================

-------------------------- MODULE StreamPipelineProofs --------------------------
(***************************************************************************)
(* The composition of resampler and framing implements each of the two, so  *)
(* that what their own proofs establish holds of it; and from both follows  *)
(* that a stream has the hashes of the one-shot path, for every source      *)
(* rate, channel count, grid and way of cutting the audio into pushes.      *)
(***************************************************************************)
EXTENDS StreamPipeline, FingerprintProofs

RP == INSTANCE StreamResamplerProofs WITH pc <- resampling, MAX_CHUNK <- MAX_PUSH

LEMMA Constants ==
  /\ FRAME_SIZE \in Nat \ {0} /\ HOP_SIZE \in Nat \ {0}
  /\ HASH_FRAME_COUNT \in Nat \ {0} /\ HASH_STRIDE_FRAMES \in Nat \ {0}
  /\ HASH_FRAMES_READ \in Nat \ {0} /\ HASH_FRAMES_READ <= HASH_FRAME_COUNT
  /\ Channels \subseteq Nat /\ MAX_PUSH \in Nat
  BY FrameGridAssumption, StreamPipelineAssumption

\* The assumption of the proofs about the resampler.
LEMMA ResamplerAssumption == RP!StreamResamplerAssumption
  BY StreamPipelineAssumption DEF R!Kernel, RP!Kernel

\* The instances of the proofs are those of the pipeline.
LEMMA SameResampler ==
  /\ R!Init <=> RP!Init
  /\ \A n : R!Push(n) <=> RP!Push(n)
  /\ R!PushOutput <=> RP!PushOutput
  /\ R!FinishPush <=> RP!FinishPush
  /\ R!Flush <=> RP!Flush
  /\ R!FlushOutput <=> RP!FlushOutput
  /\ R!FinishFlush <=> RP!FinishFlush
  /\ R!Reset <=> RP!Reset
<1>1. R!Init <=> RP!Init
  BY DEF R!Init, RP!Init
<1>2. (\A n : R!Push(n) <=> RP!Push(n)) /\ (R!Flush <=> RP!Flush) /\ (R!Reset <=> RP!Reset)
  BY DEF R!Push, RP!Push, R!Flush, RP!Flush, R!Reset, RP!Reset,
         R!buffer, RP!buffer, R!past, RP!past
<1>3. (R!PushOutput <=> RP!PushOutput) /\ (R!FlushOutput <=> RP!FlushOutput)
  BY DEF R!PushOutput, RP!PushOutput, R!FlushOutput, RP!FlushOutput, R!Emit, RP!Emit,
         R!SampleAt, RP!SampleAt, R!Taps, RP!Taps, R!ZERO, RP!ZERO,
         R!FirstSourceIndex, RP!FirstSourceIndex, R!LastSourceIndex, RP!LastSourceIndex,
         R!OutputLen, RP!OutputLen, R!Position, RP!Position, R!FloorF64, RP!FloorF64,
         R!Total, RP!Total, R!past, RP!past
<1>4. (R!FinishPush <=> RP!FinishPush) /\ (R!FinishFlush <=> RP!FinishFlush)
  BY DEF R!FinishPush, RP!FinishPush, R!FinishFlush, RP!FinishFlush,
         R!Consumed, RP!Consumed, R!FirstSourceIndex, RP!FirstSourceIndex,
         R!LastSourceIndex, RP!LastSourceIndex, R!OutputLen, RP!OutputLen,
         R!Position, RP!Position, R!FloorF64, RP!FloorF64, R!Total, RP!Total
<1> QED
  BY <1>1, <1>2, <1>3, <1>4

-----------------------------------------------------------------------------
\* The framing, whatever hands it its samples

\* The hash at place h: that of the frames from (h - 1) * HASH_STRIDE_FRAMES on.
GridHash(h) ==
    ComputeHash([k \in 1 .. HASH_FRAME_COUNT |-> GridFrame((h - 1) * HASH_STRIDE_FRAMES + k - 1)])

Returned == emitted \o (IF pc = "idle" THEN <<>> ELSE hashes)

\* The frame the next hash begins with, and the frame that is computed next.
NextFrame == Len(Returned) * HASH_STRIDE_FRAMES
Reached == NextFrame + Len(chroma_frames)

\* The position of the first pending sample
Start == Reached * HOP_SIZE - (IF pc = "process" THEN offset ELSE 0)

FramesKept ==
    \A k \in 1 .. Len(chroma_frames) : chroma_frames[k] = GridFrame(NextFrame + k - 1)

SamplesKept ==
    /\ Start \in Nat
    /\ Start + Len(pending) = total_samples_at_target_rate
    /\ \A k \in 1 .. Len(pending) : pending[k] = Start + k - 1

\* How far each loop has come
LoopsDone ==
    /\ pc = "process" => offset <= Len(pending)
    /\ pc # "process" => Len(pending) < FRAME_SIZE
    /\ pc = "idle" => Len(chroma_frames) < HASH_FRAME_COUNT

HashesInOrder == \A h \in 1 .. Len(Returned) : Returned[h] = GridHash(h)

\* No frame was computed and no hash returned ahead of its last sample.
FramesArrived ==
    /\ Reached > 0 => (Reached - 1) * HOP_SIZE + FRAME_SIZE <= total_samples_at_target_rate
    /\ Len(Returned) > 0 => Len(chroma_frames) >= HASH_FRAME_COUNT - HASH_STRIDE_FRAMES

FramingInv == F!TypeOK /\ FramesKept /\ SamplesKept /\ LoopsDone /\ HashesInOrder /\ FramesArrived

LEMMA FramingConstants ==
    /\ FRAME_SIZE \in Nat \ {0} /\ HOP_SIZE \in Nat \ {0} /\ HOP_SIZE <= FRAME_SIZE
    /\ HASH_FRAME_COUNT \in Nat \ {0} /\ HASH_STRIDE_FRAMES \in Nat \ {0}
    /\ HASH_STRIDE_FRAMES <= HASH_FRAME_COUNT
    /\ HASH_FRAMES_READ \in Nat \ {0} /\ HASH_FRAMES_READ <= HASH_FRAME_COUNT
    BY FrameGridAssumption

LEMMA Concat ==
    ASSUME NEW S, NEW s \in Seq(S), NEW t \in Seq(S)
    PROVE  /\ s \o t \in Seq(S) /\ Len(s \o t) = Len(s) + Len(t)
           /\ \A k \in 1 .. Len(s) : (s \o t)[k] = s[k]
           /\ \A k \in 1 .. Len(t) : (s \o t)[Len(s) + k] = t[k]
    OBVIOUS

LEMMA ConcatEmpty ==
    ASSUME NEW S, NEW s \in Seq(S)
    PROVE  s \o <<>> = s
    OBVIOUS

LEMMA ConcatAppend ==
    ASSUME NEW S, NEW s \in Seq(S), NEW t \in Seq(S), NEW x \in S
    PROVE  s \o Append(t, x) = Append(s \o t, x)
    OBVIOUS

\* A hash is a sequence of frames.
LEMMA ComputeHashType ==
    ASSUME NEW S, NEW frames \in Seq(S), Len(frames) = HASH_FRAME_COUNT
    PROVE  ComputeHash(frames) \in Seq(S)
    BY FramingConstants DEF ComputeHash

LEMMA FramingFacts ==
    ASSUME F!TypeOK
    PROVE  /\ Returned \in Seq(Seq(F!Frame)) /\ Len(Returned) \in Nat
           /\ Len(pending) \in Nat /\ Len(chroma_frames) \in Nat
           /\ NextFrame \in Nat /\ Reached \in Nat /\ Reached * HOP_SIZE \in Nat
           /\ pc = "idle" => Returned = emitted
           /\ pc # "idle" => Returned = emitted \o hashes
<1> DEFINE H == Seq(F!Frame)
<1>1. /\ emitted \in Seq(H) /\ hashes \in Seq(H) /\ pending \in Seq(Nat)
      /\ chroma_frames \in Seq(F!Frame)
    BY DEF F!TypeOK
<1> HIDE DEF H
<1>2. Returned \in Seq(H) /\ pc = "idle" => Returned = emitted
    <2>1. emitted \o hashes \in Seq(H) /\ emitted \o <<>> = emitted
        BY <1>1, Concat, ConcatEmpty
    <2> QED BY <1>1, <2>1 DEF Returned
<1>3. Len(pending) \in Nat /\ Len(chroma_frames) \in Nat
    BY <1>1
<1>4. Returned \in Seq(H)
    <2>1. emitted \o hashes \in Seq(H) /\ emitted \o <<>> = emitted
        BY <1>1, Concat, ConcatEmpty
    <2> QED BY <1>1, <2>1 DEF Returned
<1>5. Len(Returned) \in Nat
    BY <1>4
<1>6. NextFrame \in Nat
    BY <1>5, FramingConstants DEF NextFrame
<1>7. Reached \in Nat /\ Reached * HOP_SIZE \in Nat
    BY <1>3, <1>6, FramingConstants DEF Reached
<1>8. /\ pc = "idle" => Returned = emitted
      /\ pc # "idle" => Returned = emitted \o hashes
    BY <1>1, ConcatEmpty DEF Returned
<1> QED BY <1>3, <1>4, <1>5, <1>6, <1>7, <1>8 DEF H

LEMMA FramingInit == F!Init => FramingInv
<1> SUFFICES ASSUME F!Init PROVE FramingInv
    OBVIOUS
<1>1. /\ resampled \in BOOLEAN /\ pending = <<>> /\ chroma_frames = <<>>
      /\ total_samples_at_target_rate = 0 /\ pc = "idle" /\ offset = 0
      /\ hashes = <<>> /\ emitted = <<>>
    BY DEF F!Init
<1>2. F!TypeOK
    BY <1>1, FramingConstants DEF F!TypeOK
<1>3. Returned = <<>> /\ Len(Returned) = 0
    BY <1>1 DEF Returned
<1>4. NextFrame = 0 /\ Reached = 0 /\ Start = 0
    BY <1>1, <1>3, FramingConstants DEF NextFrame, Reached, Start
<1>5. FramesKept /\ SamplesKept /\ LoopsDone /\ HashesInOrder /\ FramesArrived
    BY <1>1, <1>3, <1>4, FramingConstants
       DEF FramesKept, SamplesKept, LoopsDone, HashesInOrder, FramesArrived
<1> QED BY <1>2, <1>5 DEF FramingInv

\* What a step leaves as it was if it moves neither hashes nor frames.
LEMMA NextFrameKept ==
    ASSUME Returned' = Returned, chroma_frames' = chroma_frames
    PROVE  NextFrame' = NextFrame /\ Reached' = Reached
    BY DEF NextFrame, Reached

-----------------------------------------------------------------------------

LEMMA IngestInv ==
    ASSUME FramingInv, NEW n \in Nat, F!Ingest(n)
    PROVE  FramingInv'
<1> DEFINE total == total_samples_at_target_rate
           chunk == [i \in 1 .. n |-> total + i - 1]
<1>1. /\ pc = "idle" /\ pc' = "process" /\ total' = total + n /\ total + n <= MAX_SAMPLES
      /\ pending' = pending \o chunk /\ offset' = 0 /\ hashes' = <<>>
      /\ UNCHANGED <<resampled, chroma_frames, emitted>>
    BY DEF F!Ingest
<1>2. /\ F!TypeOK /\ total \in Nat /\ pending \in Seq(Nat) /\ emitted \in Seq(Seq(F!Frame))
    BY FramingConstants DEF FramingInv, F!TypeOK
<1>3. Returned' = Returned
    <2> DEFINE H == Seq(F!Frame)
    <2>1. emitted \in Seq(H)
        BY <1>2
    <2> HIDE DEF H
    <2>2. emitted \o <<>> = emitted
        BY <2>1, ConcatEmpty
    <2> QED BY <1>1, <2>2 DEF Returned
<1>4. chunk \in Seq(Nat) /\ Len(chunk) = n /\ \A i \in 1 .. n : chunk[i] = total + i - 1
    <2>1. \A i \in 1 .. n : total + i - 1 \in Nat
        BY <1>2
    <2>2. chunk \in Seq(Nat)
        BY <2>1
    <2> QED BY <2>2
<1> HIDE DEF chunk, total
<1>5. /\ pending' \in Seq(Nat) /\ Len(pending') = Len(pending) + n
      /\ \A k \in 1 .. Len(pending) : pending'[k] = pending[k]
      /\ \A k \in 1 .. n : pending'[Len(pending) + k] = chunk[k]
    <2>1. pending' = pending \o chunk /\ pending \in Seq(Nat) /\ chunk \in Seq(Nat)
        BY <1>1, <1>2, <1>4
    <2>2. Len(chunk) = n
        BY <1>4
    <2>3. /\ pending' \in Seq(Nat) /\ Len(pending') = Len(pending) + Len(chunk)
          /\ \A k \in 1 .. Len(pending) : pending'[k] = pending[k]
          /\ \A k \in 1 .. Len(chunk) : pending'[Len(pending) + k] = chunk[k]
        BY <2>1, Concat
    <2> QED BY <2>2, <2>3
<1>6. F!TypeOK'
    <2>1. total' \in Nat /\ hashes' \in Seq(Seq(F!Frame)) /\ offset' \in Nat
        BY <1>1, <1>2, FramingConstants
    <2> QED BY <1>1, <1>2, <1>5, <2>1 DEF F!TypeOK, total
<1>7. NextFrame' = NextFrame /\ Reached' = Reached
    BY <1>1, <1>3, NextFrameKept
<1>8. Start' = Start /\ Start \in Nat /\ Start + Len(pending) = total /\ Len(pending) \in Nat
    <2>1. Reached * HOP_SIZE \in Nat /\ Len(pending) \in Nat
        BY <1>2, FramingFacts
    <2> QED BY <1>1, <1>7, <2>1 DEF Start, FramingInv, SamplesKept, total
<1>9. SamplesKept'
    <2>1. Start + Len(pending') = total + n
        <3>1. Len(pending') = Len(pending) + n
            BY <1>5
        <3>2. Start \in Nat /\ Start + Len(pending) = total /\ Len(pending) \in Nat /\ total \in Nat
            BY <1>2, <1>8
        <3> QED BY <3>1, <3>2
    <2>2. ASSUME NEW k \in 1 .. Len(pending') PROVE pending'[k] = Start + k - 1
        <3>1. k \in Nat /\ k <= Len(pending) + n /\ 1 <= k
            BY <1>5, <1>8
        <3>2. CASE k <= Len(pending)
            <4>1. k \in 1 .. Len(pending)
                BY <1>8, <3>1, <3>2
            <4> QED BY <1>5, <4>1 DEF FramingInv, SamplesKept
        <3>3. CASE k > Len(pending)
            <4>1. PICK i \in 1 .. n : k = Len(pending) + i
                <5>1. k - Len(pending) \in 1 .. n /\ k = Len(pending) + (k - Len(pending))
                    BY <1>8, <3>1, <3>3
                <5> QED BY <5>1
            <4>2. pending'[k] = total + i - 1
                BY <1>4, <1>5, <4>1
            <4>3. total + i - 1 = Start + k - 1
                BY <1>8, <4>1
            <4> QED BY <4>2, <4>3
        <3> QED BY <1>8, <3>1, <3>2, <3>3
    <2> QED BY <1>1, <1>8, <2>1, <2>2 DEF SamplesKept, total
<1>10. FramesKept' /\ HashesInOrder'
    BY <1>1, <1>3, <1>7 DEF FramingInv, FramesKept, HashesInOrder
<1>11. LoopsDone'
    <2>1. 0 <= Len(pending')
        BY <1>5, <1>8
    <2> QED BY <1>1, <2>1 DEF LoopsDone
<1>12. FramesArrived'
    <2>1. Reached \in Nat /\ total \in Nat
        BY <1>2, FramingFacts
    <2>2. Reached > 0 => (Reached - 1) * HOP_SIZE + FRAME_SIZE <= total + n
        <3> SUFFICES ASSUME Reached > 0 PROVE (Reached - 1) * HOP_SIZE + FRAME_SIZE <= total + n
            OBVIOUS
        <3>1. (Reached - 1) * HOP_SIZE + FRAME_SIZE <= total
            BY DEF FramingInv, FramesArrived, total
        <3>2. (Reached - 1) * HOP_SIZE + FRAME_SIZE \in Nat
            BY <2>1, FramingConstants
        <3> QED BY <2>1, <3>1, <3>2
    <2> QED BY <1>1, <1>3, <1>7, <2>2 DEF FramingInv, FramesArrived, total
<1> QED BY <1>6, <1>9, <1>10, <1>11, <1>12 DEF FramingInv

LEMMA PushNoChannelsInv ==
    ASSUME FramingInv, F!PushNoChannels
    PROVE  FramingInv'
<1>1. /\ pc = "idle" /\ hashes' = <<>> /\ F!TypeOK
      /\ UNCHANGED <<resampled, pending, chroma_frames, total_samples_at_target_rate,
                     pc, offset, emitted>>
    BY DEF F!PushNoChannels, FramingInv
<1>2. F!TypeOK'
    <2>1. hashes' \in Seq(Seq(F!Frame))
        BY <1>1
    <2> QED BY <1>1, <2>1 DEF F!TypeOK
<1>3. Returned' = Returned
    BY <1>1 DEF Returned
<1>4. NextFrame' = NextFrame /\ Reached' = Reached
    BY <1>1, <1>3, NextFrameKept
<1>5. Start' = Start
    BY <1>1, <1>4 DEF Start
<1>6. FramesKept' /\ SamplesKept' /\ LoopsDone' /\ HashesInOrder' /\ FramesArrived'
    BY <1>1, <1>3, <1>4, <1>5
       DEF FramingInv, FramesKept, SamplesKept, LoopsDone, HashesInOrder, FramesArrived
<1> QED BY <1>2, <1>6 DEF FramingInv

LEMMA FlushPassthroughInv ==
    ASSUME FramingInv, F!FlushPassthrough
    PROVE  FramingInv'
<1>1. /\ pc = "idle" /\ pc' = "emit" /\ hashes' = <<>> /\ F!TypeOK
      /\ UNCHANGED <<resampled, pending, chroma_frames, total_samples_at_target_rate,
                     offset, emitted>>
    BY DEF F!FlushPassthrough, FramingInv
<1>2. F!TypeOK'
    <2>1. hashes' \in Seq(Seq(F!Frame))
        BY <1>1
    <2> QED BY <1>1, <2>1 DEF F!TypeOK
<1>3. Returned' = Returned
    BY <1>1 DEF Returned
<1>4. NextFrame' = NextFrame /\ Reached' = Reached
    BY <1>1, <1>3, NextFrameKept
<1>5. Start' = Start
    BY <1>1, <1>4 DEF Start
<1>6. FramesKept' /\ SamplesKept' /\ HashesInOrder' /\ FramesArrived'
    BY <1>1, <1>3, <1>4, <1>5 DEF FramingInv, FramesKept, SamplesKept, HashesInOrder, FramesArrived
<1>7. LoopsDone'
    BY <1>1 DEF FramingInv, LoopsDone
<1> QED BY <1>2, <1>6, <1>7 DEF FramingInv

LEMMA FramingResetInv ==
    ASSUME FramingInv, F!Reset
    PROVE  FramingInv'
<1>1. /\ pending' = <<>> /\ chroma_frames' = <<>> /\ total_samples_at_target_rate' = 0
      /\ pc' = "idle" /\ hashes' = <<>> /\ emitted' = <<>> /\ F!TypeOK
      /\ UNCHANGED <<resampled, offset>>
    BY DEF F!Reset, FramingInv
<1>2. F!TypeOK'
    <2>1. /\ hashes' \in Seq(Seq(F!Frame)) /\ emitted' \in Seq(Seq(F!Frame))
          /\ chroma_frames' \in Seq(F!Frame) /\ pending' \in Seq(Nat)
          /\ total_samples_at_target_rate' \in Nat
        BY <1>1, FramingConstants
    <2> QED BY <1>1, <2>1 DEF F!TypeOK
<1>3. Returned' = <<>> /\ Len(Returned') = 0
    BY <1>1 DEF Returned
<1>4. NextFrame' = 0 /\ Reached' = 0 /\ Start' = 0
    BY <1>1, <1>3, FramingConstants DEF NextFrame, Reached, Start
<1>5. FramesKept' /\ SamplesKept' /\ LoopsDone' /\ HashesInOrder' /\ FramesArrived'
    BY <1>1, <1>3, <1>4, FramingConstants
       DEF FramesKept, SamplesKept, LoopsDone, HashesInOrder, FramesArrived
<1> QED BY <1>2, <1>5 DEF FramingInv

\* The frame at offset is the next one of the grid.
LEMMA NextGridFrame ==
    ASSUME FramingInv, pc = "process", offset + FRAME_SIZE <= Len(pending)
    PROVE  ChromaFrame(pending, offset) = GridFrame(Reached)
<1> DEFINE end == offset + FRAME_SIZE
           first == Reached * HOP_SIZE
<1>1. /\ pending \in Seq(Nat) /\ offset \in Nat /\ Len(pending) \in Nat /\ end \in Nat
      /\ offset <= end /\ end <= Len(pending) /\ end - offset = FRAME_SIZE /\ first \in Nat
      /\ FRAME_SIZE \in Nat
    BY FramingFacts, FramingConstants DEF FramingInv, F!TypeOK
<1>2. Start + offset = first /\ Start \in Nat
    BY <1>1 DEF Start, FramingInv, SamplesKept
<1>3. ChromaFrame(pending, offset) = SubSeq(pending, offset + 1, end)
    BY DEF ChromaFrame
<1>4. GridFrame(Reached) = [i \in 1 .. FRAME_SIZE |-> first + i - 1]
    BY DEF GridFrame
<1> HIDE DEF end, first
<1>5. SubSeq(pending, offset + 1, end) = [i \in 1 .. FRAME_SIZE |-> pending[offset + i]]
    <2>1. SubSeq(pending, offset + 1, end) = [i \in 1 .. end - offset |-> pending[offset + i]]
        <3>1. /\ pending \in Seq(Nat) /\ offset \in Nat /\ end \in Nat
              /\ offset <= end /\ end <= Len(pending)
            BY <1>1
        <3> QED BY <3>1, Slice
    <2>2. end - offset = FRAME_SIZE
        BY <1>1
    <2> QED BY <2>1, <2>2
<1>6. ASSUME NEW i \in 1 .. FRAME_SIZE PROVE pending[offset + i] = first + i - 1
    <2>1. i \in Nat /\ offset + i \in 1 .. Len(pending)
        BY <1>1
    <2>2. pending[offset + i] = Start + (offset + i) - 1
        BY <2>1 DEF FramingInv, SamplesKept
    <2> QED BY <1>1, <1>2, <2>1, <2>2
<1> QED BY <1>3, <1>4, <1>5, <1>6

LEMMA ProcessFrameInv ==
    ASSUME FramingInv, F!ProcessFrame
    PROVE  FramingInv'
<1> DEFINE x == ChromaFrame(pending, offset)
<1>1. /\ pc = "process" /\ offset + FRAME_SIZE <= Len(pending)
      /\ chroma_frames' = Append(chroma_frames, x) /\ offset' = offset + HOP_SIZE
      /\ UNCHANGED <<resampled, pending, total_samples_at_target_rate, pc, hashes, emitted>>
    BY DEF F!ProcessFrame, F!ChromaFrame, ChromaFrame
<1>2. /\ F!TypeOK /\ chroma_frames \in Seq(F!Frame) /\ offset \in Nat
      /\ Reached \in Nat /\ NextFrame \in Nat /\ Reached * HOP_SIZE \in Nat
      /\ Len(pending) \in Nat /\ Len(chroma_frames) \in Nat
    BY FramingFacts DEF FramingInv, F!TypeOK
<1>3. x = GridFrame(Reached) /\ x \in F!Frame
    BY <1>1, <1>2, NextGridFrame, GridFrameType DEF F!Frame
<1> HIDE DEF x
<1>4. /\ chroma_frames' \in Seq(F!Frame) /\ Len(chroma_frames') = Len(chroma_frames) + 1
      /\ chroma_frames'[Len(chroma_frames) + 1] = x
      /\ \A k \in 1 .. Len(chroma_frames) : chroma_frames'[k] = chroma_frames[k]
    <2> HIDE DEF F!Frame
    <2> QED BY <1>1, <1>2, <1>3
<1>5. Returned' = Returned /\ NextFrame' = NextFrame
    BY <1>1 DEF Returned, NextFrame
<1>6. Reached' = Reached + 1
    BY <1>2, <1>4, <1>5 DEF Reached
<1>7. Start' = Start
    <2>1. (Reached + 1) * HOP_SIZE = Reached * HOP_SIZE + HOP_SIZE
        BY <1>2, FramingConstants
    <2> QED BY <1>1, <1>2, <1>6, <2>1, FramingConstants DEF Start
<1>8. F!TypeOK'
    <2>1. offset' \in Nat
        BY <1>1, <1>2, FramingConstants
    <2> QED BY <1>1, <1>2, <1>4, <2>1 DEF F!TypeOK
<1>9. FramesKept'
    <2> SUFFICES ASSUME NEW k \in 1 .. Len(chroma_frames) + 1
                 PROVE  chroma_frames'[k] = GridFrame(NextFrame + k - 1)
        BY <1>4, <1>5 DEF FramesKept
    <2>1. CASE k = Len(chroma_frames) + 1
        <3>1. NextFrame + k - 1 = Reached
            BY <1>2, <2>1 DEF Reached
        <3> QED BY <1>3, <1>4, <2>1, <3>1
    <2>2. CASE k \in 1 .. Len(chroma_frames)
        BY <1>4, <2>2 DEF FramingInv, FramesKept
    <2> QED BY <1>2, <2>1, <2>2
<1>10. SamplesKept' /\ HashesInOrder'
    BY <1>1, <1>5, <1>7 DEF FramingInv, SamplesKept, HashesInOrder
<1>11. LoopsDone'
    <2>1. offset' <= Len(pending')
        BY <1>1, <1>2, FramingConstants
    <2> QED BY <1>1, <2>1 DEF LoopsDone
<1>12. FramesArrived'
    <2>1. /\ Start + offset = Reached * HOP_SIZE /\ Start \in Nat
          /\ Start + Len(pending) = total_samples_at_target_rate
        BY <1>1, <1>2 DEF Start, FramingInv, SamplesKept
    <2>2. Reached * HOP_SIZE + FRAME_SIZE <= total_samples_at_target_rate
        BY <1>1, <1>2, <2>1, FramingConstants
    <2>3. Reached' - 1 = Reached
        BY <1>2, <1>6
    <2>4. Len(Returned) > 0 => Len(chroma_frames') >= HASH_FRAME_COUNT - HASH_STRIDE_FRAMES
        BY <1>2, <1>4, FramingConstants DEF FramingInv, FramesArrived
    <2> QED BY <1>1, <1>5, <2>2, <2>3, <2>4 DEF FramesArrived
<1> QED BY <1>8, <1>9, <1>10, <1>11, <1>12 DEF FramingInv

LEMMA DrainPendingInv ==
    ASSUME FramingInv, F!DrainPending
    PROVE  FramingInv'
<1> DEFINE len == Len(pending)
<1>1. /\ pc = "process" /\ pc' = "emit" /\ offset + FRAME_SIZE > len
      /\ pending' = SubSeq(pending, offset + 1, len)
      /\ UNCHANGED <<resampled, chroma_frames, total_samples_at_target_rate,
                     offset, hashes, emitted>>
    BY DEF F!DrainPending
<1>2. /\ F!TypeOK /\ pending \in Seq(Nat) /\ offset \in Nat /\ len \in Nat /\ offset <= len
      /\ Reached * HOP_SIZE \in Nat /\ total_samples_at_target_rate \in Nat
    BY <1>1, FramingFacts, FramingConstants DEF FramingInv, F!TypeOK, LoopsDone
<1>3. Start + offset = Reached * HOP_SIZE /\ Start \in Nat
      /\ Start + len = total_samples_at_target_rate
    BY <1>1, <1>2 DEF Start, FramingInv, SamplesKept
<1> HIDE DEF len
<1>4. pending' = [i \in 1 .. len - offset |-> pending[offset + i]]
    BY <1>1, <1>2, Slice DEF len
<1>5. /\ pending' \in Seq(Nat) /\ Len(pending') = len - offset
      /\ \A i \in 1 .. len - offset : pending'[i] = pending[offset + i]
    <2>1. ASSUME NEW i \in 1 .. len - offset PROVE pending[offset + i] \in Nat
        <3>1. offset + i \in 1 .. len
            BY <1>2
        <3> QED BY <1>2, <3>1 DEF len
    <2>2. len - offset \in Nat
        BY <1>2
    <2>3. pending' \in Seq(Nat)
        BY <1>4, <2>1, <2>2
    <2> QED BY <1>4, <2>2, <2>3
<1>6. Returned' = Returned
    BY <1>1 DEF Returned
<1>7. NextFrame' = NextFrame /\ Reached' = Reached
    BY <1>1, <1>6, NextFrameKept
<1>8. Start' = Start + offset
    BY <1>1, <1>2, <1>3, <1>7 DEF Start
<1>9. F!TypeOK'
    BY <1>1, <1>2, <1>5 DEF F!TypeOK
<1>10. SamplesKept'
    <2>1. Start' \in Nat /\ Start' + Len(pending') = total_samples_at_target_rate
        BY <1>2, <1>3, <1>5, <1>8
    <2>2. ASSUME NEW k \in 1 .. len - offset PROVE pending'[k] = Start' + k - 1
        <3>1. offset + k \in 1 .. len /\ k \in Nat
            BY <1>2
        <3>2. pending'[k] = Start + (offset + k) - 1
            BY <1>5, <3>1 DEF FramingInv, SamplesKept, len
        <3> QED BY <1>2, <1>3, <1>8, <3>1, <3>2
    <2> QED BY <1>1, <1>5, <2>1, <2>2 DEF SamplesKept
<1>11. FramesKept' /\ HashesInOrder'
    BY <1>1, <1>6, <1>7 DEF FramingInv, FramesKept, HashesInOrder
<1>12. LoopsDone'
    <2>1. Len(pending') < FRAME_SIZE
        BY <1>1, <1>2, <1>5, FramingConstants
    <2> QED BY <1>1, <2>1 DEF LoopsDone
<1>13. FramesArrived'
    BY <1>1, <1>6, <1>7 DEF FramingInv, FramesArrived
<1> QED BY <1>9, <1>10, <1>11, <1>12, <1>13 DEF FramingInv

LEMMA EmitHashInv ==
    ASSUME FramingInv, F!EmitHash
    PROVE  FramingInv'
<1> DEFINE H == Seq(F!Frame)
           first == SubSeq(chroma_frames, 1, HASH_FRAME_COUNT)
           x == ComputeHash(first)
           len == Len(chroma_frames)
           place == Len(Returned) + 1
<1>1. /\ pc = "emit" /\ len >= HASH_FRAME_COUNT
      /\ hashes' = Append(hashes, x)
      /\ chroma_frames' = SubSeq(chroma_frames, HASH_STRIDE_FRAMES + 1, len)
      /\ UNCHANGED <<resampled, pending, total_samples_at_target_rate, pc, offset, emitted>>
    BY DEF F!EmitHash, F!ComputeHash, ComputeHash
<1>2. /\ F!TypeOK /\ chroma_frames \in Seq(F!Frame) /\ hashes \in Seq(H) /\ emitted \in Seq(H)
      /\ len \in Nat /\ Len(Returned) \in Nat /\ NextFrame \in Nat
      /\ Returned = emitted \o hashes /\ Returned \in Seq(H)
    BY <1>1, FramingFacts DEF FramingInv, F!TypeOK
<1> HIDE DEF H, len
<1>3. first \in Seq(F!Frame) /\ Len(first) = HASH_FRAME_COUNT
      /\ first = [k \in 1 .. HASH_FRAME_COUNT |-> GridFrame(NextFrame + k - 1)]
    <2> HIDE DEF F!Frame
    <2>1. first = [k \in 1 .. HASH_FRAME_COUNT |-> chroma_frames[k]]
        BY <1>1, <1>2, FramingConstants DEF len
    <2>2. \A k \in 1 .. HASH_FRAME_COUNT : k \in 1 .. len
        BY <1>1, <1>2, FramingConstants
    <2>3. \A k \in 1 .. HASH_FRAME_COUNT : chroma_frames[k] = GridFrame(NextFrame + k - 1)
        BY <2>2 DEF FramingInv, FramesKept, len
    <2>4. \A k \in 1 .. HASH_FRAME_COUNT : chroma_frames[k] \in F!Frame
        BY <1>2, <2>2 DEF len
    <2> HIDE DEF first
    <2>5. first \in Seq(F!Frame) /\ Len(first) = HASH_FRAME_COUNT
        BY <2>1, <2>4, FramingConstants
    <2> QED BY <2>1, <2>3, <2>5
<1>4. x = GridHash(place) /\ x \in H
    <2>1. (place - 1) * HASH_STRIDE_FRAMES = NextFrame
        BY <1>2 DEF NextFrame
    <2>2. x = GridHash(place)
        BY <1>3, <2>1 DEF GridHash
    <2> HIDE DEF first, F!Frame
    <2> QED BY <1>3, <2>2, ComputeHashType DEF H
<1> HIDE DEF x, first
<1>5. /\ hashes' \in Seq(H) /\ Returned' = Append(Returned, x)
    <2>1. hashes' \in Seq(H)
        BY <1>1, <1>2, <1>4
    <2>2. Returned' = emitted \o Append(hashes, x)
        BY <1>1 DEF Returned
    <2> QED BY <1>2, <1>4, <2>1, <2>2, ConcatAppend
<1>6. /\ Len(Returned') = Len(Returned) + 1 /\ Returned'[place] = x
      /\ \A h \in 1 .. Len(Returned) : Returned'[h] = Returned[h]
    BY <1>2, <1>4, <1>5
<1>7. /\ chroma_frames' \in Seq(F!Frame) /\ Len(chroma_frames') = len - HASH_STRIDE_FRAMES
      /\ \A k \in 1 .. len - HASH_STRIDE_FRAMES :
            chroma_frames'[k] = chroma_frames[HASH_STRIDE_FRAMES + k]
    <2> HIDE DEF F!Frame
    <2>1. HASH_STRIDE_FRAMES \in Nat /\ HASH_STRIDE_FRAMES <= len
        BY <1>1, <1>2, FramingConstants
    <2>2. chroma_frames' = [k \in 1 .. len - HASH_STRIDE_FRAMES |->
                               chroma_frames[HASH_STRIDE_FRAMES + k]]
        BY <1>1, <1>2, <2>1, Slice DEF len
    <2>3. ASSUME NEW k \in 1 .. len - HASH_STRIDE_FRAMES
          PROVE  chroma_frames[HASH_STRIDE_FRAMES + k] \in F!Frame
        <3>1. HASH_STRIDE_FRAMES + k \in 1 .. len
            BY <1>2, <2>1
        <3> QED BY <1>2, <3>1 DEF len
    <2>4. len - HASH_STRIDE_FRAMES \in Nat
        BY <1>2, <2>1
    <2>5. chroma_frames' \in Seq(F!Frame)
        BY <2>2, <2>3, <2>4
    <2> QED BY <2>2, <2>4, <2>5
<1>8. NextFrame' = NextFrame + HASH_STRIDE_FRAMES
    <2>1. (Len(Returned) + 1) * HASH_STRIDE_FRAMES = NextFrame + HASH_STRIDE_FRAMES
        BY <1>2, FramingConstants DEF NextFrame
    <2> QED BY <1>6, <2>1 DEF NextFrame
<1>9. Reached' = Reached
    BY <1>2, <1>7, <1>8, FramingConstants DEF Reached, len
<1>10. Start' = Start
    BY <1>1, <1>9 DEF Start
<1>11. F!TypeOK'
    BY <1>1, <1>2, <1>5, <1>7 DEF F!TypeOK, H
<1>12. SamplesKept'
    BY <1>1, <1>10 DEF FramingInv, SamplesKept
<1>13. FramesKept'
    <2> SUFFICES ASSUME NEW k \in 1 .. len - HASH_STRIDE_FRAMES
                 PROVE  chroma_frames'[k] = GridFrame(NextFrame + HASH_STRIDE_FRAMES + k - 1)
        BY <1>7, <1>8 DEF FramesKept
    <2>1. HASH_STRIDE_FRAMES + k \in 1 .. len /\ k \in Nat
        BY <1>2, FramingConstants
    <2>2. chroma_frames[HASH_STRIDE_FRAMES + k]
              = GridFrame(NextFrame + (HASH_STRIDE_FRAMES + k) - 1)
        BY <2>1 DEF FramingInv, FramesKept, len
    <2>3. NextFrame + (HASH_STRIDE_FRAMES + k) - 1 = NextFrame + HASH_STRIDE_FRAMES + k - 1
        BY <1>2, <2>1, FramingConstants
    <2> QED BY <1>7, <2>2, <2>3
<1>14. HashesInOrder'
    <2> SUFFICES ASSUME NEW h \in 1 .. Len(Returned) + 1 PROVE Returned'[h] = GridHash(h)
        BY <1>6 DEF HashesInOrder
    <2>1. CASE h = Len(Returned) + 1
        BY <1>4, <1>6, <2>1
    <2>2. CASE h \in 1 .. Len(Returned)
        BY <1>6, <2>2 DEF FramingInv, HashesInOrder
    <2> QED BY <1>2, <2>1, <2>2
<1>15. LoopsDone'
    BY <1>1 DEF FramingInv, LoopsDone
<1>16. FramesArrived'
    <2>1. Len(chroma_frames') >= HASH_FRAME_COUNT - HASH_STRIDE_FRAMES
        BY <1>1, <1>2, <1>7, FramingConstants
    <2> QED BY <1>1, <1>9, <2>1 DEF FramingInv, FramesArrived
<1> QED BY <1>11, <1>12, <1>13, <1>14, <1>15, <1>16 DEF FramingInv

LEMMA FinishEmitInv ==
    ASSUME FramingInv, F!FinishEmit
    PROVE  FramingInv'
<1>1. /\ pc = "emit" /\ pc' = "idle" /\ emitted' = emitted \o hashes /\ F!TypeOK
      /\ Len(chroma_frames) < HASH_FRAME_COUNT
      /\ UNCHANGED <<resampled, pending, chroma_frames, total_samples_at_target_rate,
                     offset, hashes>>
    BY DEF F!FinishEmit, FramingInv
<1>2. Returned = emitted \o hashes /\ Returned \in Seq(Seq(F!Frame))
    BY <1>1, FramingFacts
<1>3. Returned' = Returned
    <2> DEFINE H == Seq(F!Frame)
    <2>1. emitted' \in Seq(H)
        BY <1>1, <1>2
    <2> HIDE DEF H
    <2>2. emitted' \o <<>> = emitted'
        BY <2>1, ConcatEmpty
    <2> QED BY <1>1, <1>2, <2>2 DEF Returned
<1>4. NextFrame' = NextFrame /\ Reached' = Reached
    BY <1>1, <1>3, NextFrameKept
<1>5. Start' = Start
    BY <1>1, <1>4 DEF Start
<1>6. F!TypeOK'
    BY <1>1, <1>2 DEF F!TypeOK
<1>7. FramesKept' /\ SamplesKept' /\ HashesInOrder' /\ FramesArrived'
    BY <1>1, <1>3, <1>4, <1>5 DEF FramingInv, FramesKept, SamplesKept, HashesInOrder, FramesArrived
<1>8. LoopsDone'
    BY <1>1 DEF FramingInv, LoopsDone
<1> QED BY <1>6, <1>7, <1>8 DEF FramingInv

LEMMA FramingStutter ==
    ASSUME FramingInv, UNCHANGED F!vars
    PROVE  FramingInv'
<1>1. /\ UNCHANGED <<resampled, pending, chroma_frames, total_samples_at_target_rate,
                     pc, offset, hashes, emitted>>
    BY DEF F!vars
<1>2. Returned' = Returned /\ NextFrame' = NextFrame /\ Reached' = Reached /\ Start' = Start
    BY <1>1 DEF Returned, NextFrame, Reached, Start
<1>3. F!TypeOK' /\ FramesKept' /\ SamplesKept'
    BY <1>1, <1>2 DEF FramingInv, F!TypeOK, FramesKept, SamplesKept
<1>4. LoopsDone' /\ HashesInOrder' /\ FramesArrived'
    BY <1>1, <1>2 DEF FramingInv, LoopsDone, HashesInOrder, FramesArrived
<1> QED BY <1>3, <1>4 DEF FramingInv

LEMMA FramingStep == FramingInv /\ [F!Next]_(F!vars) => FramingInv'
<1> SUFFICES ASSUME FramingInv, [F!Next]_(F!vars) PROVE FramingInv'
    OBVIOUS
<1>1. CASE F!PushSamples \/ F!FlushResampler
    BY <1>1, IngestInv DEF F!PushSamples, F!FlushResampler
<1>2. CASE F!PushNoChannels \/ F!FlushPassthrough \/ F!Reset
    BY <1>2, PushNoChannelsInv, FlushPassthroughInv, FramingResetInv
<1>3. CASE F!ProcessFrame \/ F!DrainPending
    BY <1>3, ProcessFrameInv, DrainPendingInv
<1>4. CASE F!EmitHash \/ F!FinishEmit
    BY <1>4, EmitHashInv, FinishEmitInv
<1>5. CASE UNCHANGED F!vars
    BY <1>5, FramingStutter
<1> QED BY <1>1, <1>2, <1>3, <1>4, <1>5 DEF F!Next

\* The inductive invariant holds.
THEOREM FramingInvariance == F!Spec => []FramingInv
    BY FramingInit, FramingStep, PTL DEF F!Spec

\* No sample is framed twice or missed and no frame hashed at two places.
THEOREM FramesOfGrid == F!Spec => []F!FramesInOrder
<1>1. FramingInv => F!FramesInOrder
    <2> SUFFICES ASSUME FramingInv PROVE F!FramesInOrder
        OBVIOUS
    <2>1. F!TypeOK /\ pending \in Seq(Nat) /\ Len(pending) \in Nat
        BY FramingFacts DEF FramingInv, F!TypeOK
    <2>2. Len(pending) = total_samples_at_target_rate - Start /\ Start \in Nat
        BY <2>1, FramingConstants DEF FramingInv, SamplesKept, F!TypeOK
    <2>3. pending = [k \in 1 .. total_samples_at_target_rate - Start |-> Start + k - 1]
        <3>1. pending = [k \in 1 .. Len(pending) |-> pending[k]]
            BY <2>1
        <3>2. \A k \in 1 .. Len(pending) : pending[k] = Start + k - 1
            BY DEF FramingInv, SamplesKept
        <3> HIDE DEF Start
        <3> QED BY <2>2, <3>1, <3>2
    <2>4. pc = "idle" => Len(pending) < FRAME_SIZE /\ Len(chroma_frames) < HASH_FRAME_COUNT
        BY DEF FramingInv, LoopsDone
    <2> QED BY <2>3, <2>4
            DEF FramingInv, FramesKept, F!FramesInOrder, F!GridFrame, GridFrame, Start,
                Reached, NextFrame, Returned
<1> QED BY <1>1, FramingInvariance, PTL

\* Between calls the hashes returned since the last reset are the grid's, in order:
\* all that lie within the samples that arrived, and no others.
AllHashesOfGrid ==
    pc = "idle" =>
        /\ Len(emitted) = AlignedCount(total_samples_at_target_rate)
        /\ \A h \in 1 .. Len(emitted) : emitted[h] = GridHash(h)

\* The hash stream returns exactly the stride-aligned hashes of what it was given.
THEOREM HashesOfGrid == F!Spec => []AllHashesOfGrid
<1>1. FramingInv => AllHashesOfGrid
    <2> SUFFICES ASSUME FramingInv, pc = "idle"
                 PROVE  /\ Len(emitted) = AlignedCount(total_samples_at_target_rate)
                        /\ \A h \in 1 .. Len(emitted) : emitted[h] = GridHash(h)
        BY DEF AllHashesOfGrid
    <2> DEFINE S == HASH_STRIDE_FRAMES
               C == HASH_FRAME_COUNT
               h == Len(emitted)
               total == total_samples_at_target_rate
    <2>1. /\ Returned = emitted /\ NextFrame \in Nat /\ Reached \in Nat /\ h \in Nat
          /\ Len(pending) \in Nat /\ Len(chroma_frames) \in Nat /\ Reached * HOP_SIZE \in Nat
        BY FramingFacts DEF FramingInv
    <2>2. \A k \in 1 .. Len(emitted) : emitted[k] = GridHash(k)
        BY <2>1 DEF FramingInv, HashesInOrder
    <2>3. total \in Nat /\ S \in Nat \ {0} /\ C \in Nat \ {0} /\ NextFrame = h * S
        BY <2>1, FramingConstants DEF FramingInv, F!TypeOK, NextFrame
    <2> DEFINE next == NextFrame + C - 1
    <2>4. next \in Nat /\ Reached <= next
        BY <2>1, FramingConstants DEF Reached, FramingInv, LoopsDone
    <2>5. next * HOP_SIZE + FRAME_SIZE > total
        <3> HIDE DEF next, total
        <3>1. Reached * HOP_SIZE <= next * HOP_SIZE /\ next * HOP_SIZE \in Nat
            BY <2>1, <2>4, FramingConstants, ProductMonotone
        <3>2. Reached * HOP_SIZE + Len(pending) = total /\ Len(pending) < FRAME_SIZE
            BY <2>1 DEF FramingInv, SamplesKept, LoopsDone, Start, total
        <3> QED BY <2>1, <2>3, <3>1, <3>2, FramingConstants
    <2>6. ASSUME h > 0
          PROVE  ((h - 1) * S + C - 1) * HOP_SIZE + FRAME_SIZE <= total
        <3> DEFINE last == (h - 1) * S + C - 1
        <3>1. last \in Nat /\ last = NextFrame - S + C - 1
            <4>1. (h - 1) * S = h * S - S /\ (h - 1) * S \in Nat
                BY <2>1, <2>3, <2>6
            <4> QED BY <2>3, <4>1
        <3>2. Len(chroma_frames) >= C - S
            BY <2>1, <2>6 DEF FramingInv, FramesArrived
        <3>3. last <= Reached - 1 /\ Reached > 0 /\ Reached - 1 \in Nat
            BY <2>1, <2>3, <3>1, <3>2 DEF Reached
        <3> HIDE DEF last
        <3>4. last * HOP_SIZE <= (Reached - 1) * HOP_SIZE /\ last * HOP_SIZE \in Nat
              /\ (Reached - 1) * HOP_SIZE \in Nat
            BY <3>1, <3>3, FramingConstants, ProductMonotone
        <3>5. (Reached - 1) * HOP_SIZE + FRAME_SIZE <= total
            BY <3>3 DEF FramingInv, FramesArrived
        <3> QED BY <2>3, <3>4, <3>5, FramingConstants DEF last
    <2> HIDE DEF total
    <2>7. Len(emitted) = AlignedCount(total)
        <3>1. (h * S + C - 1) * HOP_SIZE + FRAME_SIZE > total
            BY <2>3, <2>5
        <3> HIDE DEF h
        <3> QED BY <2>1, <2>3, <2>6, <3>1, AlignedCountIs DEF h
    <2> QED BY <2>2, <2>7 DEF total
<1> QED BY <1>1, FramingInvariance, PTL

-----------------------------------------------------------------------------
\* The inductive invariant

\* One part of a call at a time
OnePart == resampling # "idle" => pc = "idle" /\ resampled

\* The framing has received what the resampler released.
Handed == resampled => total_samples_at_target_rate = Len(released)

\* As long as no frame was cut the mono samples are those of the audio pushed.
Counted ==
  whole => interleaved \div channels
              = IF resampled THEN source ELSE total_samples_at_target_rate

Stream == channels \in Nat \ {0} /\ whole \in BOOLEAN /\ interleaved \in Nat

IInv == RP!IInv /\ FramingInv /\ Stream /\ OnePart /\ Handed /\ Counted

LEMMA Facts ==
  ASSUME IInv
  PROVE  /\ Len(output) \in Nat /\ Len(released) \in Nat
         /\ released \in Seq(RP!Value) /\ output \in Seq(RP!Value)
         /\ source \in Nat /\ total_samples_at_target_rate \in Nat /\ resampled \in BOOLEAN
<1>1. RP!TypeOK /\ F!TypeOK
  BY DEF IInv, RP!IInv, FramingInv
<1>2. released \in Seq(RP!Value) /\ output \in Seq(RP!Value) /\ source \in Nat
  BY <1>1, StreamPipelineAssumption DEF RP!TypeOK
<1>3. total_samples_at_target_rate \in Nat /\ resampled \in BOOLEAN
  BY <1>1 DEF F!TypeOK
<1> QED
  BY <1>2, <1>3

\* The downmix makes no more of samples than there are.
LEMMA MonoFramesBound ==
  ASSUME NEW n \in Nat, NEW c \in Nat \ {0}
  PROVE  MonoFrames(n, c) \in 0 .. n
<1> DEFINE q == n \div c
<1>1. q \in Nat /\ q * c <= n
  BY DivBounds
<1>2. q * 1 <= q * c
  <2>1. PICK m \in Nat : c = 1 + m
    <3>1. c - 1 \in Nat /\ c = 1 + (c - 1)
      OBVIOUS
    <3> QED
      BY <3>1
  <2> HIDE DEF q
  <2>2. q * c = q + q * m /\ q * m \in Nat
    BY <1>1, <2>1
  <2> QED
    BY <1>1, <2>2
<1> HIDE DEF q
<1>3. q <= n
  BY <1>1, <1>2
<1> QED
  BY <1>1, <1>3 DEF MonoFrames, q

\* Whole frames in front of n samples do not change how they are cut.
LEMMA WholeFrames ==
  ASSUME NEW a \in Nat, NEW n \in Nat, NEW c \in Nat \ {0}, a % c = 0
  PROVE  MonoFrames(a + n, c) = MonoFrames(a, c) + MonoFrames(n, c)
<1> DEFINE p == a \div c
           q == n \div c
<1>1. a = p * c /\ p \in Nat
  <2>1. a = (a \div c) * c + (a % c)
    OBVIOUS
  <2> QED
    BY <2>1, DivBounds
<1>2. q \in Nat /\ q * c <= n /\ n < q * c + c
  BY DivBounds
<1>3. (p + q) * c = p * c + q * c /\ p * c \in Nat /\ q * c \in Nat
  BY <1>1, <1>2
<1> HIDE DEF p, q
<1>4. (p + q) * c <= a + n /\ a + n < (p + q) * c + c
  BY <1>1, <1>2, <1>3
<1>5. p + q <= (a + n) \div c
  BY <1>1, <1>2, <1>4, DivLargest
<1>6. ~(p + q + 1 <= (a + n) \div c)
  <2>1. (p + q + 1) * c = (p + q) * c + c
    BY <1>1, <1>2
  <2>2. ~((p + q + 1) * c <= a + n)
    BY <1>1, <1>2, <1>3, <1>4, <2>1
  <2> QED
    BY <1>1, <1>2, <2>2, DivLargest
<1>7. (a + n) \div c \in Nat
  BY DivBounds
<1> QED
  BY <1>1, <1>2, <1>5, <1>6, <1>7 DEF p, q, MonoFrames

-----------------------------------------------------------------------------
\* A step of the pipeline is a step of each part or leaves it alone.

LEMMA ResamplerStep ==
  ASSUME IInv, [Next]_vars
  PROVE  [RP!Next]_(RP!vars)
<1>0. UNCHANGED resampler => UNCHANGED RP!vars
  BY DEF resampler, RP!vars, RP!buffer, RP!past
<1>1. CASE PushSamples
  <2>1. PICK n \in 0 .. MAX_PUSH, c \in Channels \ {0} : Ingest(MonoFrames(n, c))
    BY <1>1 DEF PushSamples, Push
  <2>2. MonoFrames(n, c) \in 0 .. MAX_PUSH
    <3>1. MonoFrames(n, c) \in 0 .. n
      BY Constants, MonoFramesBound
    <3> QED
      BY <3>1, Constants
  <2>3. RP!Push(MonoFrames(n, c)) \/ UNCHANGED resampler
    BY <2>1, SameResampler DEF Ingest
  <2> QED
    BY <1>0, <2>2, <2>3 DEF RP!Next
<1>2. CASE PushNoChannels \/ Hash
  BY <1>0, <1>2 DEF PushNoChannels, Hash
<1>3. CASE Flush
  BY <1>0, <1>3, SameResampler DEF Flush, RP!Next
<1>4. CASE Reset
  BY <1>0, <1>4, SameResampler DEF Reset, ResetResampler, RP!Next
<1>5. CASE Resample \/ Release
  BY <1>5, SameResampler DEF Resample, Release, RP!Next
<1>6. CASE UNCHANGED vars
  BY <1>0, <1>6 DEF vars
<1> QED
  BY <1>1, <1>2, <1>3, <1>4, <1>5, <1>6 DEF Next

LEMMA FramingOfStep ==
  ASSUME IInv, [Next]_vars
  PROVE  [F!Next]_(F!vars)
<1>0. UNCHANGED framing => UNCHANGED F!vars
  BY DEF framing, F!vars
<1>1. CASE PushSamples
  <2>1. PICK n \in 0 .. MAX_PUSH, c \in Channels \ {0} : Ingest(MonoFrames(n, c))
    BY <1>1 DEF PushSamples, Push
  <2>2. MonoFrames(n, c) \in Nat
    BY Constants, MonoFramesBound
  <2>3. F!Ingest(MonoFrames(n, c)) \/ UNCHANGED framing
    BY <2>1 DEF Ingest
  <2> QED
    BY <1>0, <2>2, <2>3 DEF F!Next, F!PushSamples
<1>2. CASE PushNoChannels
  BY <1>2 DEF PushNoChannels, F!Next
<1>3. CASE Flush
  BY <1>0, <1>3 DEF Flush, F!Next
<1>4. CASE Reset
  BY <1>4 DEF Reset, F!Next
<1>5. CASE Resample
  BY <1>0, <1>5 DEF Resample
<1>6. CASE Release
  <2>1. F!Ingest(Len(output)) /\ Len(output) \in Nat
    BY <1>6, Facts DEF Release
  <2> QED
    BY <2>1 DEF F!Next, F!PushSamples
<1>7. CASE Hash
  BY <1>7 DEF Hash, F!Next
<1>8. CASE UNCHANGED vars
  BY <1>0, <1>8 DEF vars
<1> QED
  BY <1>1, <1>2, <1>3, <1>4, <1>5, <1>6, <1>7, <1>8 DEF Next

-----------------------------------------------------------------------------

LEMMA InitInv == Init => IInv
<1> SUFFICES ASSUME Init PROVE IInv
  OBVIOUS
<1>1. RP!IInv /\ FramingInv
  BY SameResampler, ResamplerAssumption, FrameGridAssumption, RP!InitInv, FramingInit
     DEF Init
<1>2. channels \in Nat \ {0} /\ whole = TRUE /\ interleaved = 0
  BY Constants DEF Init
<1>3. /\ resampling = "idle" /\ released = <<>> /\ source = 0
      /\ total_samples_at_target_rate = 0
  BY DEF Init, R!Init, F!Init
<1>4. Counted
  BY <1>2, <1>3 DEF Counted
<1> QED
  BY <1>1, <1>2, <1>3, <1>4 DEF IInv, Stream, OnePart, Handed

LEMMA PushInv ==
  ASSUME IInv, PushSamples
  PROVE  Stream' /\ OnePart' /\ Handed' /\ Counted'
<1>1. PICK n \in 0 .. MAX_PUSH, c \in Channels \ {0} : Push(n, c)
  BY DEF PushSamples
<1> DEFINE m == MonoFrames(n, c)
           base == IF resampled THEN source ELSE total_samples_at_target_rate
<1>2. /\ n \in Nat /\ c \in Nat \ {0} /\ m \in Nat
  BY Constants, MonoFramesBound
<1>3. Stream /\ channels' = channels
      /\ whole' = (whole /\ (n = 0 \/ (c = channels /\ interleaved % channels = 0)))
      /\ interleaved' = IF whole' THEN interleaved + n ELSE 0
  BY <1>1 DEF Push, IInv
<1>4. Stream'
  BY <1>2, <1>3 DEF Stream
<1>5. /\ resampled' = resampled /\ base' = base + m
      /\ OnePart' /\ Handed'
  <2>1. CASE resampled
    <3>1. R!Push(m) /\ UNCHANGED framing /\ Idle
      BY <1>1, <2>1 DEF Push, Ingest
    <3>2. /\ source' = source + m /\ released' = released /\ pc = "idle"
          /\ UNCHANGED <<resampled, pc, total_samples_at_target_rate>>
      BY <3>1 DEF R!Push, framing, Idle
    <3> QED
      BY <2>1, <3>2 DEF IInv, OnePart, Handed
  <2>2. CASE ~resampled
    <3>1. F!Ingest(m) /\ UNCHANGED resampler /\ Idle
      BY <1>1, <2>2 DEF Push, Ingest
    <3>2. /\ total_samples_at_target_rate' = total_samples_at_target_rate + m
          /\ resampled' = resampled /\ resampling' = resampling /\ resampling = "idle"
      BY <3>1 DEF F!Ingest, resampler, Idle
    <3> QED
      BY <2>2, <3>2 DEF OnePart, Handed
  <2> QED
    BY <2>1, <2>2
<1>6. ASSUME whole' PROVE interleaved' \div channels = base + m
  <2>1. /\ whole /\ (n = 0 \/ (c = channels /\ interleaved % channels = 0))
        /\ interleaved' = interleaved + n /\ interleaved \div channels = base
    BY <1>3, <1>6 DEF IInv, Counted
  <2> HIDE DEF base
  <2>2. CASE n = 0
    <3>1. m = 0
      BY <1>2, <2>2 DEF MonoFrames
    <3>2. interleaved' = interleaved
      BY <1>3, <2>1, <2>2 DEF Stream
    <3>3. interleaved \div channels \in Nat
      BY <1>3, DivBounds DEF Stream
    <3> QED
      BY <2>1, <3>1, <3>2, <3>3
  <2>3. CASE c = channels /\ interleaved % channels = 0
    <3>1. (interleaved + n) \div channels = (interleaved \div channels) + (n \div channels)
      <4>1. interleaved \in Nat /\ channels \in Nat \ {0} /\ interleaved % channels = 0
        BY <1>3, <2>3 DEF Stream
      <4>2. n \in Nat
        BY <1>2
      <4>3. MonoFrames(interleaved + n, channels)
               = MonoFrames(interleaved, channels) + MonoFrames(n, channels)
        BY <4>1, <4>2, WholeFrames
      <4> QED
        BY <4>3 DEF MonoFrames
    <3> QED
      BY <2>1, <2>3, <3>1 DEF MonoFrames
  <2> QED
    BY <2>1, <2>2, <2>3
<1>7. Counted'
  BY <1>3, <1>5, <1>6 DEF Counted
<1> QED
  BY <1>4, <1>5, <1>7

LEMMA ReleaseInv ==
  ASSUME IInv, Release
  PROVE  Stream' /\ OnePart' /\ Handed' /\ Counted'
<1>1. /\ R!FinishPush \/ R!FinishFlush
      /\ F!Ingest(Len(output))
      /\ UNCHANGED <<channels, whole, interleaved>>
  BY DEF Release, pushes
<1>2. /\ resampling # "idle" /\ resampling' = "idle" /\ released' = released \o output
      /\ source' = source
  BY <1>1 DEF R!FinishPush, R!FinishFlush
<1>3. /\ total_samples_at_target_rate' = total_samples_at_target_rate + Len(output)
      /\ resampled' = resampled
  BY <1>1 DEF F!Ingest
<1>4. Len(released') = Len(released) + Len(output)
  <2> HIDE DEF RP!Value
  <2> QED
    BY <1>2, Facts
<1>5. resampled
  BY <1>2 DEF IInv, OnePart
<1> QED
  BY <1>1, <1>2, <1>3, <1>4, <1>5 DEF IInv, Stream, OnePart, Handed, Counted

LEMMA ResetInv ==
  ASSUME IInv, Reset
  PROVE  Stream' /\ OnePart' /\ Handed' /\ Counted'
<1>1. /\ whole' = TRUE /\ interleaved' = 0 /\ channels' = channels /\ Stream
      /\ total_samples_at_target_rate' = 0 /\ resampled' = resampled
  BY DEF Reset, F!Reset, IInv
<1>2. /\ resampling' = "idle"
      /\ resampled => source' = 0 /\ released' = <<>>
  <2>1. CASE resampled
    BY <2>1 DEF Reset, ResetResampler, R!Reset, Idle
  <2>2. CASE ~resampled
    BY <2>2 DEF Reset, ResetResampler, resampler, Idle
  <2> QED
    BY <2>1, <2>2
<1>3. Counted'
  BY <1>1, <1>2 DEF Counted, Stream
<1> QED
  BY <1>1, <1>2, <1>3 DEF Stream, OnePart, Handed

\* Steps that move no sample between the parts
LEMMA QuietInv ==
  ASSUME IInv, PushNoChannels \/ Flush \/ Resample \/ Hash \/ UNCHANGED vars
  PROVE  Stream' /\ OnePart' /\ Handed' /\ Counted'
<1>1. UNCHANGED <<channels, whole, interleaved>>
  BY DEF PushNoChannels, Flush, Resample, Hash, vars, pushes
<1>2. UNCHANGED <<source, released, resampled, total_samples_at_target_rate>> /\ OnePart'
  <2>1. CASE PushNoChannels
    BY <2>1 DEF PushNoChannels, F!PushNoChannels, resampler, Idle, OnePart
  <2>2. CASE Flush
    <3>1. CASE resampled
      BY <2>2, <3>1 DEF Flush, R!Flush, R!buffer, R!past, framing, Idle, OnePart
    <3>2. CASE ~resampled
      BY <2>2, <3>2 DEF Flush, F!FlushPassthrough, resampler, Idle, OnePart
    <3> QED
      BY <3>1, <3>2
  <2>3. CASE Resample
    BY <2>3 DEF Resample, R!PushOutput, R!FlushOutput, R!Emit, R!past, framing, IInv, OnePart
  <2>4. CASE Hash
    BY <2>4 DEF Hash, F!ProcessFrame, F!DrainPending, F!EmitHash, F!FinishEmit, resampler,
                IInv, OnePart
  <2>5. CASE UNCHANGED vars
    BY <2>5 DEF vars, resampler, framing, IInv, OnePart
  <2> QED
    BY <2>1, <2>2, <2>3, <2>4, <2>5
<1> QED
  BY <1>1, <1>2 DEF IInv, Stream, Handed, Counted

LEMMA StepInv == IInv /\ [Next]_vars => IInv'
<1> SUFFICES ASSUME IInv, [Next]_vars PROVE IInv'
  OBVIOUS
<1>1. RP!IInv'
  <2>1. RP!IInv
    BY DEF IInv
  <2> QED
    BY <2>1, ResamplerStep, ResamplerAssumption, RP!StepInv
<1>2. FramingInv'
  <2>1. FramingInv
    BY DEF IInv
  <2> QED
    BY <2>1, FramingOfStep, FrameGridAssumption, FramingStep
<1>3. Stream' /\ OnePart' /\ Handed' /\ Counted'
  BY PushInv, ReleaseInv, ResetInv, QuietInv DEF Next
<1> QED
  BY <1>1, <1>2, <1>3 DEF IInv

\* The inductive invariant holds.
THEOREM Invariance == Spec => []IInv
  BY InitInv, StepInv, PTL DEF Spec

\* The pipeline implements its two parts: whatever is proved of the specification
\* of the one or the other holds of the stream its caller has.
THEOREM Composition == Spec => R!Spec /\ F!Spec
<1>1. Init => R!Init /\ F!Init
  BY DEF Init
<1>2. IInv /\ [Next]_vars => [R!Next]_(R!vars)
  <2> SUFFICES ASSUME IInv, [Next]_vars PROVE [R!Next]_(R!vars)
    OBVIOUS
  <2>1. CASE RP!Next
    BY <2>1, SameResampler DEF RP!Next, R!Next
  <2>2. CASE UNCHANGED RP!vars
    BY <2>2 DEF RP!vars, RP!buffer, RP!past, R!vars, R!buffer, R!past
  <2> QED
    BY <2>1, <2>2, ResamplerStep
<1>3. IInv /\ [Next]_vars => [F!Next]_(F!vars)
  BY FramingOfStep
<1> QED
  BY <1>1, <1>2, <1>3, Invariance, PTL DEF Spec, R!Spec, F!Spec

\* Every part of the state keeps its type.
THEOREM TypeCorrect == Spec => []TypeOK
<1>1. IInv => TypeOK
  <2> SUFFICES ASSUME IInv PROVE TypeOK
    OBVIOUS
  <2>1. R!TypeOK
    BY DEF IInv, RP!IInv, RP!TypeOK, R!TypeOK, RP!Value, R!Value, RP!Taps, R!Taps,
           RP!ZERO, R!ZERO
  <2>2. F!TypeOK
    BY DEF IInv, FramingInv
  <2> QED
    BY <2>1, <2>2 DEF IInv, Stream, OnePart, TypeOK
<1> QED
  BY <1>1, Invariance, PTL

\* No sample of the stream is framed twice or missed.
THEOREM FramesCorrect == Spec => []FramesInOrder
<1>1. F!Spec => []F!FramesInOrder
  BY FramesOfGrid
<1>2. F!FramesInOrder <=> FramesInOrder
  BY DEF FramesInOrder
<1>3. Init => F!Init
  BY DEF Init
<1>4. IInv /\ [Next]_vars => [F!Next]_(F!vars)
  BY FramingOfStep
<1> QED
  BY <1>1, <1>2, <1>3, <1>4, Invariance, PTL DEF Spec, F!Spec

-----------------------------------------------------------------------------
\* The hashes of a one-shot fingerprint, by the samples they are made of

HashLength == IF HASH_FRAME_COUNT < 2 THEN 0 ELSE HASH_FRAMES_READ

\* The samples of frame j, and those the aligned hash at place h reads.
FrameAt(samples, j) == [i \in 1 .. FRAME_SIZE |-> samples[j * HOP_SIZE + i]]
HashAt(samples, h) ==
  [k \in 1 .. HashLength |-> FrameAt(samples, (h - 1) * HASH_STRIDE_FRAMES + k - 1)]

\* compute_hash reads the first frames of those it is given.
LEMMA HashReads ==
  ASSUME NEW S, NEW frames \in Seq(S), Len(frames) = HASH_FRAME_COUNT
  PROVE  ComputeHash(frames) = [k \in 1 .. HashLength |-> frames[k]]
<1>1. HASH_FRAME_COUNT \in Nat /\ HASH_FRAMES_READ \in Nat /\ HASH_FRAMES_READ <= HASH_FRAME_COUNT
  BY Constants
<1>2. CASE HASH_FRAME_COUNT < 2
  BY <1>1, <1>2 DEF ComputeHash, HashLength
<1>3. CASE HASH_FRAME_COUNT >= 2
  <2>1. ComputeHash(frames) = SubSeq(frames, 1, HASH_FRAMES_READ)
    BY <1>1, <1>3 DEF ComputeHash
  <2>2. SubSeq(frames, 0 + 1, HASH_FRAMES_READ)
           = [i \in 1 .. HASH_FRAMES_READ - 0 |-> frames[0 + i]]
    BY <1>1, Slice
  <2> QED
    BY <1>1, <1>3, <2>1, <2>2 DEF HashLength
<1> QED
  BY <1>1, <1>2, <1>3

LEMMA ChromaFrameIs ==
  ASSUME NEW S, NEW samples \in Seq(S), NEW j \in Nat,
         j * HOP_SIZE + FRAME_SIZE <= Len(samples)
  PROVE  ChromaFrame(samples, j * HOP_SIZE) = FrameAt(samples, j)
<1>1. j * HOP_SIZE \in Nat
  BY Constants
<1> QED
  BY <1>1, FrameOfRecording DEF FrameAt

\* Every complete frame is computed, in its place.
LEMMA FramesComputed ==
  ASSUME NEW S, NEW samples \in Seq(S)
  PROVE  LET c == CompleteFrameCount(Len(samples))
             frames == ComputeChromaFrames(samples, c)
         IN  /\ frames \in Seq({FrameAt(samples, j) : j \in Nat}) /\ Len(frames) = c
             /\ \A k \in 1 .. c : frames[k] = FrameAt(samples, k - 1)
<1> DEFINE n == Len(samples)
           c == CompleteFrameCount(n)
           frames == ComputeChromaFrames(samples, c)
           FF == {FrameAt(samples, j) : j \in Nat}
<1>1. n \in Nat /\ c \in Nat
  BY CompleteFrameCountBounds
<1>2. frames = [k \in 1 .. c |-> ChromaFrame(samples, (k - 1) * HOP_SIZE)]
  BY <1>1 DEF ComputeChromaFrames
<1>3. ASSUME NEW k \in 1 .. c
      PROVE  ChromaFrame(samples, (k - 1) * HOP_SIZE) = FrameAt(samples, k - 1)
  <2>1. k - 1 \in Nat /\ k - 1 < c
    BY <1>1
  <2>2. (k - 1) * HOP_SIZE + FRAME_SIZE <= n
    BY <1>1, <2>1, CompleteFrameCountBounds
  <2> QED
    BY <2>1, <2>2, ChromaFrameIs
<1>4. frames = [k \in 1 .. c |-> FrameAt(samples, k - 1)]
  BY <1>2, <1>3
<1> HIDE DEF frames, c
<1>5. \A k \in 1 .. c : FrameAt(samples, k - 1) \in FF
  BY <1>1
<1> HIDE DEF FF
<1>6. frames \in Seq(FF) /\ Len(frames) = c /\ \A k \in 1 .. c : frames[k] = FrameAt(samples, k - 1)
  BY <1>1, <1>4, <1>5
<1> QED
  BY <1>6 DEF frames, c, FF

\* The one-shot hashes, without the terminal one, are as many as are aligned, each
\* over its own samples.
LEMMA AlignedHashesAre ==
  ASSUME NEW S, NEW samples \in Seq(S)
  PROVE  AlignedHashes(samples)
            = [h \in 1 .. AlignedCount(Len(samples)) |-> HashAt(samples, h)]
<1> DEFINE c == CompleteFrameCount(Len(samples))
           frames == ComputeChromaFrames(samples, c)
           FF == {FrameAt(samples, j) : j \in Nat}
           C == HASH_FRAME_COUNT
           last == c - C
           q == last \div HASH_STRIDE_FRAMES
           strided == [k \in 1 .. q + 1 |-> (k - 1) * HASH_STRIDE_FRAMES]
           starts == HashStarts(last)
           HashFrom(start) == ComputeHash(SubSeq(frames, start + 1, start + C))
           one_shot == EncodeChromaFrames(frames)
<1>1. /\ frames \in Seq(FF) /\ Len(frames) = c
      /\ \A k \in 1 .. c : frames[k] = FrameAt(samples, k - 1)
  BY FramesComputed
<1>2. c \in Nat /\ C \in Nat \ {0} /\ HASH_STRIDE_FRAMES \in Nat \ {0}
  BY CompleteFrameCountBounds, Constants
<1>3. AlignedHashes(samples) =
         IF c >= C => last % HASH_STRIDE_FRAMES = 0 THEN one_shot
         ELSE SubSeq(one_shot, 1, Len(one_shot) - 1)
  BY DEF AlignedHashes, FingerprintSamples
<1> HIDE DEF FF, frames, c
<1>4. CASE c < C
  <2>1. one_shot = <<>>
    BY <1>1, <1>4 DEF EncodeChromaFrames
  <2>2. AlignedCount(Len(samples)) = 0
    BY <1>4 DEF AlignedCount, c
  <2>3. AlignedHashes(samples) = <<>>
    BY <1>2, <1>3, <1>4, <2>1
  <2> QED
    BY <2>2, <2>3
<1>5. CASE c >= C
  <2>1. last \in Nat /\ q \in Nat
    BY <1>2, <1>5, DivBounds
  <2>2. AlignedCount(Len(samples)) = q + 1
    BY <1>2, <1>5 DEF AlignedCount, c
  <2>3. one_shot = [k \in 1 .. Len(starts) |-> HashFrom(starts[k])]
    BY <1>1, <1>2, <1>5 DEF EncodeChromaFrames
  <2>4. ASSUME NEW h \in 1 .. q + 1
        PROVE  HashFrom((h - 1) * HASH_STRIDE_FRAMES) = HashAt(samples, h)
    <3> DEFINE start == (h - 1) * HASH_STRIDE_FRAMES
               part == SubSeq(frames, start + 1, start + C)
    <3>1. start \in Nat /\ start <= last
      <4>1. h - 1 \in Nat /\ h - 1 <= q
        BY <2>1
      <4> HIDE DEF last
      <4>2. start <= last
        BY <1>2, <2>1, <4>1, DivLargest
      <4> QED
        BY <1>2, <4>1, <4>2
    <3> HIDE DEF start
    <3>2. part = [i \in 1 .. C |-> frames[start + i]]
      <4> DEFINE e == start + C
      <4>1. e \in Nat /\ start <= e /\ e <= Len(frames) /\ e - start = C
        BY <1>1, <1>2, <3>1
      <4> HIDE DEF e
      <4>2. SubSeq(frames, start + 1, e) = [i \in 1 .. e - start |-> frames[start + i]]
        BY <1>1, <3>1, <4>1, Slice
      <4> QED
        BY <4>1, <4>2 DEF e
    <3>3. \A i \in 1 .. C : start + i \in 1 .. c
      BY <1>2, <3>1
    <3>4. ASSUME NEW i \in 1 .. C
          PROVE  frames[start + i] \in FF /\ frames[start + i] = FrameAt(samples, start + i - 1)
      <4>1. start + i \in 1 .. c
        BY <3>3
      <4>2. frames[start + i] = FrameAt(samples, (start + i) - 1)
        BY <1>1, <4>1
      <4>3. start + i \in 1 .. Len(frames)
        BY <1>1, <4>1
      <4>4. frames[start + i] \in FF
        BY <1>1, <4>3, SeqElement
      <4>5. (start + i) - 1 = start + i - 1
        BY <1>2, <3>1
      <4> QED
        BY <4>2, <4>4, <4>5
    <3> HIDE DEF part
    <3>5. part \in Seq(FF) /\ Len(part) = C
      BY <1>2, <3>2, <3>4
    <3>6. ComputeHash(part) = [k \in 1 .. HashLength |-> part[k]]
      BY <3>5, HashReads
    <3>7. \A k \in 1 .. HashLength : k \in 1 .. C
      BY Constants DEF HashLength
    <3>8. \A k \in 1 .. HashLength : part[k] = FrameAt(samples, start + k - 1)
      BY <3>2, <3>4, <3>7
    <3> QED
      BY <3>6, <3>8 DEF HashAt, start, part
  <2>5. strided \in Seq(Nat) /\ Len(strided) = q + 1
        /\ \A k \in 1 .. q + 1 : strided[k] = (k - 1) * HASH_STRIDE_FRAMES
    <3>1. \A k \in 1 .. q + 1 : (k - 1) * HASH_STRIDE_FRAMES \in Nat
      BY <1>2, <2>1
    <3> HIDE DEF q
    <3> QED
      BY <2>1, <3>1
  <2>6. starts = IF last % HASH_STRIDE_FRAMES = 0 THEN strided ELSE Append(strided, last)
    BY DEF HashStarts
  <2> HIDE DEF strided, starts, q, last, HashFrom, one_shot
  <2>7. CASE last % HASH_STRIDE_FRAMES = 0
    <3>1. one_shot = [k \in 1 .. q + 1 |-> HashFrom(strided[k])]
      BY <2>3, <2>5, <2>6, <2>7
    <3>2. AlignedHashes(samples) = one_shot
      BY <1>3, <2>7
    <3> QED
      BY <2>2, <2>4, <2>5, <3>1, <3>2
  <2>8. CASE last % HASH_STRIDE_FRAMES # 0
    <3>1. /\ Len(starts) = q + 2
          /\ \A k \in 1 .. q + 1 : starts[k] = (k - 1) * HASH_STRIDE_FRAMES
      BY <2>1, <2>5, <2>6, <2>8
    <3>2. one_shot = [k \in 1 .. q + 2 |-> HashFrom(starts[k])]
      BY <2>3, <3>1
    <3> DEFINE HH == {HashFrom(starts[k]) : k \in 1 .. q + 2}
    <3>3. \A k \in 1 .. q + 2 : HashFrom(starts[k]) \in HH
      OBVIOUS
    <3> HIDE DEF HH
    <3>4. one_shot \in Seq(HH) /\ Len(one_shot) = q + 2
      BY <2>1, <3>2, <3>3
    <3>5. AlignedHashes(samples) = SubSeq(one_shot, 0 + 1, q + 1)
      BY <1>3, <1>5, <2>1, <2>8, <3>4
    <3>6. SubSeq(one_shot, 0 + 1, q + 1) = [i \in 1 .. (q + 1) - 0 |-> one_shot[0 + i]]
      <4>1. q + 1 \in Nat /\ 0 <= q + 1 /\ q + 1 <= Len(one_shot) /\ 0 \in Nat
        BY <2>1, <3>4
      <4> QED
        BY <3>4, <4>1, Slice
    <3>7. ASSUME NEW i \in 1 .. q + 1 PROVE one_shot[0 + i] = HashAt(samples, i)
      <4>1. i \in 1 .. q + 2 /\ 0 + i = i
        BY <2>1
      <4>2. one_shot[i] = HashFrom(starts[i])
        BY <3>2, <4>1
      <4> QED
        BY <2>4, <3>1, <4>1, <4>2
    <3>8. (q + 1) - 0 = q + 1
      BY <2>1
    <3> QED
      BY <2>2, <3>5, <3>6, <3>7, <3>8
  <2> QED
    BY <2>7, <2>8
<1> QED
  BY <1>2, <1>4, <1>5

-----------------------------------------------------------------------------

\* A sequence that agrees with a longer one as far as it goes is its beginning.
LEMMA PrefixIs ==
  ASSUME NEW S, NEW s \in Seq(S), NEW t \in Seq(S), Len(t) <= Len(s),
         \A k \in 1 .. Len(t) : t[k] = s[k]
  PROVE  t = SubSeq(s, 1, Len(t))
<1> DEFINE m == Len(t)
<1>1. m \in Nat /\ m <= Len(s) /\ 0 \in Nat /\ 0 <= m
  OBVIOUS
<1>2. t = [i \in 1 .. m |-> t[i]]
  OBVIOUS
<1>3. \A i \in 1 .. m : t[i] = s[i]
  OBVIOUS
<1> HIDE DEF m
<1>4. SubSeq(s, 0 + 1, m) = [i \in 1 .. m - 0 |-> s[0 + i]]
  BY <1>1, Slice
<1>5. m - 0 = m /\ \A i \in 1 .. m : 0 + i = i
  BY <1>1
<1> QED
  BY <1>2, <1>3, <1>4, <1>5 DEF m

LEMMA ArrivedIs ==
  ASSUME IInv
  PROVE  /\ ArrivedSamples \in Seq(RP!Value \cup Nat)
         /\ Len(ArrivedSamples) = total_samples_at_target_rate
<1> DEFINE V == RP!Value
<1>1. /\ released \in Seq(V) /\ total_samples_at_target_rate \in Nat /\ resampled \in BOOLEAN
  BY Facts
<1> HIDE DEF V
<1>2. CASE resampled
  <2>1. released \in Seq(V \cup Nat)
    BY <1>1
  <2> QED
    BY <1>2, <2>1 DEF ArrivedSamples, IInv, Handed, V
<1>3. CASE ~resampled
  <2>1. /\ StreamSamples(total_samples_at_target_rate) \in Seq(V \cup Nat)
        /\ Len(StreamSamples(total_samples_at_target_rate)) = total_samples_at_target_rate
    BY <1>1 DEF StreamSamples
  <2> QED
    BY <1>3, <2>1 DEF ArrivedSamples, V
<1> QED
  BY <1>1, <1>2, <1>3

\* A hash that was returned, by the samples at the positions it names.
LEMMA EmittedIs ==
  ASSUME IInv, AllHashesOfGrid, pc = "idle"
  PROVE  EmittedHashes = [h \in 1 .. AlignedCount(total_samples_at_target_rate) |->
                             HashAt(ArrivedSamples, h)]
<1> DEFINE A == ArrivedSamples
<1>1. Len(emitted) = AlignedCount(total_samples_at_target_rate)
      /\ \A h \in 1 .. Len(emitted) : emitted[h] = GridHash(h)
  BY DEF AllHashesOfGrid
<1>2. Len(emitted) \in Nat
  BY DEF IInv, FramingInv, F!TypeOK
<1>3. ASSUME NEW h \in 1 .. Len(emitted)
      PROVE  [f \in 1 .. Len(emitted[h]) |->
                [i \in 1 .. FRAME_SIZE |-> A[emitted[h][f][i] + 1]]] = HashAt(A, h)
  <2> DEFINE first == (h - 1) * HASH_STRIDE_FRAMES
             frames == [k \in 1 .. HASH_FRAME_COUNT |-> GridFrame(first + k - 1)]
             GG == [1 .. FRAME_SIZE -> Nat]
  <2>1. first \in Nat
    BY <1>2, Constants
  <2>2. emitted[h] = ComputeHash(frames)
    BY <1>1 DEF GridHash, F!ComputeHash, ComputeHash, F!GridFrame, GridFrame
  <2> HIDE DEF first
  <2>3. ASSUME NEW k \in 1 .. HASH_FRAME_COUNT PROVE GridFrame(first + k - 1) \in GG
    <3>1. first + k - 1 \in Nat
      BY <2>1, Constants
    <3> QED
      BY <3>1, GridFrameType
  <2> HIDE DEF GG
  <2>4. frames \in Seq(GG) /\ Len(frames) = HASH_FRAME_COUNT
    BY <2>3, Constants
  <2>5. emitted[h] = [k \in 1 .. HashLength |-> frames[k]]
    <3> HIDE DEF frames
    <3> QED
      BY <2>2, <2>4, HashReads
  <2>6. HashLength \in Nat /\ \A k \in 1 .. HashLength : k \in 1 .. HASH_FRAME_COUNT
    BY Constants DEF HashLength
  <2>7. Len(emitted[h]) = HashLength
    BY <2>5, <2>6
  <2>8. ASSUME NEW f \in 1 .. HashLength
        PROVE  [i \in 1 .. FRAME_SIZE |-> A[emitted[h][f][i] + 1]] = FrameAt(A, first + f - 1)
    <3> DEFINE j == first + f - 1
    <3>1. j \in Nat /\ j * HOP_SIZE \in Nat
      BY <2>1, Constants
    <3>2. emitted[h][f] = GridFrame(j)
      BY <2>5, <2>6
    <3> HIDE DEF j
    <3>3. \A i \in 1 .. FRAME_SIZE : emitted[h][f][i] + 1 = j * HOP_SIZE + i
      BY <3>1, <3>2, Constants DEF GridFrame
    <3> HIDE DEF A
    <3> QED
      BY <3>3 DEF FrameAt, j
  <2> HIDE DEF A
  <2> QED
    BY <2>7, <2>8 DEF HashAt, first
<1> HIDE DEF A
<1> QED
  BY <1>1, <1>3 DEF EmittedHashes, A

\* What the resampler promises, of its output between calls and in the terms of
\* the pipeline.
LEMMA ResampledIs ==
  ASSUME IInv, RP!StreamMatchesOneShot, resampling = "idle"
  PROVE  /\ R!ResampleToMono(source) \in Seq(RP!Value \cup Nat \cup {R!ResampleToMono(source)[k] :
                                                  k \in 1 .. RP!OutputLen(source)})
         /\ Len(R!ResampleToMono(source)) = RP!OutputLen(source)
         /\ Len(released) <= RP!OutputLen(source)
         /\ flushes = <<>> =>
               \A k \in 1 .. Len(released) : released[k] = R!ResampleToMono(source)[k]
         /\ Len(flushes) = 1 /\ flushes[1].at = source => released = R!ResampleToMono(source)
<1> DEFINE one_shot == R!ResampleToMono(source)
           len == RP!OutputLen(source)
           T == RP!Value \cup Nat \cup {one_shot[k] : k \in 1 .. len}
<1>1. one_shot = RP!ResampleToMono(source)
  BY DEF R!ResampleToMono, RP!ResampleToMono, R!OutputLen, RP!OutputLen, R!SampleAt, RP!SampleAt,
         R!FloorF64, RP!FloorF64, R!Taps, RP!Taps, R!ZERO, RP!ZERO, R!Position, RP!Position,
         R!FirstSourceIndex, RP!FirstSourceIndex, R!SourceSamples, RP!SourceSamples
<1>2. len \in Nat
  <2>1. kernel \in Kernels /\ source \in Nat
    BY Facts DEF IInv, RP!IInv, RP!TypeOK
  <2> QED
    BY <2>1, ResamplerAssumption, RP!LengthMonotone
<1>3. one_shot = [k \in 1 .. len |-> one_shot[k]]
  BY <1>1 DEF RP!ResampleToMono
<1>4. RP!AllReleased = released
  BY DEF RP!AllReleased
<1>5. /\ Len(released) <= len
      /\ flushes = <<>> => \A k \in 1 .. Len(released) : released[k] = one_shot[k]
  BY <1>1, <1>4 DEF RP!StreamMatchesOneShot
<1>6. ASSUME Len(flushes) = 1, flushes[1].at = source PROVE released = one_shot
  <2>1. flushes # <<>>
    BY <1>6
  <2> QED
    BY <1>1, <1>6, <2>1 DEF RP!StreamMatchesOneShot
<1> HIDE DEF one_shot, len
<1>7. one_shot \in Seq(T) /\ Len(one_shot) = len
  <2>1. \A k \in 1 .. len : one_shot[k] \in T
    OBVIOUS
  <2> HIDE DEF T
  <2> QED
    BY <1>2, <1>3, <2>1
<1> QED
  BY <1>5, <1>6, <1>7 DEF one_shot, len

\* A stream has the hashes of the one-shot path, however its audio was cut into
\* pushes and at whatever source rate and channel count.
THEOREM OneShotAgreement == Spec => []HashesMatchOneShot
<1>1. Spec => []RP!StreamMatchesOneShot
  <2>1. RP!Spec => []RP!StreamMatchesOneShot
    BY ResamplerAssumption, RP!OneShotAgreement
  <2>2. Init => RP!Init
    BY SameResampler DEF Init
  <2>3. IInv /\ [Next]_vars => [RP!Next]_(RP!vars)
    BY ResamplerStep
  <2> QED
    BY <2>1, <2>2, <2>3, Invariance, PTL DEF Spec, RP!Spec
<1>2. Spec => []AllHashesOfGrid
  <2>1. F!Spec => []AllHashesOfGrid
    BY HashesOfGrid
  <2>2. Init => F!Init
    BY DEF Init
  <2>3. IInv /\ [Next]_vars => [F!Next]_(F!vars)
    BY FramingOfStep
  <2> QED
    BY <2>1, <2>2, <2>3, Invariance, PTL DEF Spec, F!Spec
<1>3. IInv /\ RP!StreamMatchesOneShot /\ AllHashesOfGrid => HashesMatchOneShot
  <2> SUFFICES ASSUME IInv, RP!StreamMatchesOneShot, AllHashesOfGrid, Idle
               PROVE  LET one_shot == OneShotSamples(Mono)
                      IN  /\ EmittedHashes = AlignedHashes(ArrivedSamples)
                          /\ flushes = <<>> =>
                                /\ Len(ArrivedSamples) <= Len(one_shot)
                                /\ ArrivedSamples = SubSeq(one_shot, 1, Len(ArrivedSamples))
                          /\ ~resampled \/ (Len(flushes) = 1 /\ flushes[1].at = source) =>
                                ArrivedSamples = one_shot
    BY DEF HashesMatchOneShot
  <2> DEFINE one_shot == OneShotSamples(Mono)
             total == total_samples_at_target_rate
  <2>1. EmittedHashes = AlignedHashes(ArrivedSamples)
    <3>1. EmittedHashes = [h \in 1 .. AlignedCount(total) |-> HashAt(ArrivedSamples, h)]
      BY EmittedIs DEF Idle
    <3>2. ArrivedSamples \in Seq(RP!Value \cup Nat) /\ Len(ArrivedSamples) = total
      BY ArrivedIs
    <3>3. AlignedHashes(ArrivedSamples)
             = [h \in 1 .. AlignedCount(Len(ArrivedSamples)) |-> HashAt(ArrivedSamples, h)]
      BY <3>2, AlignedHashesAre
    <3> QED
      BY <3>1, <3>2, <3>3
  <2>2. Mono = IF resampled THEN source ELSE total
    BY DEF Mono, IInv, Counted
  <2>3. ASSUME resampled
        PROVE  /\ flushes = <<>> =>
                     /\ Len(ArrivedSamples) <= Len(one_shot)
                     /\ ArrivedSamples = SubSeq(one_shot, 1, Len(ArrivedSamples))
               /\ Len(flushes) = 1 /\ flushes[1].at = source => ArrivedSamples = one_shot
    <3>1. ArrivedSamples = released /\ one_shot = R!ResampleToMono(source)
      BY <2>2, <2>3 DEF ArrivedSamples, OneShotSamples
    <3> DEFINE resample == R!ResampleToMono(source)
               T == RP!Value \cup Nat \cup {resample[k] : k \in 1 .. RP!OutputLen(source)}
               V == RP!Value
    <3>2. /\ resample \in Seq(T) /\ Len(released) <= Len(resample)
          /\ flushes = <<>> => \A k \in 1 .. Len(released) : released[k] = resample[k]
          /\ Len(flushes) = 1 /\ flushes[1].at = source => released = resample
      BY ResampledIs DEF Idle
    <3>3. released \in Seq(V) /\ \A v \in V : v \in T
      BY Facts
    <3> HIDE DEF T, V, resample
    <3>4. released \in Seq(T)
      BY <3>3
    <3>5. flushes = <<>> => released = SubSeq(resample, 1, Len(released))
      BY <3>2, <3>4, PrefixIs
    <3> QED
      BY <3>1, <3>2, <3>5 DEF resample
  <2>4. ASSUME ~resampled
        PROVE  /\ ArrivedSamples = one_shot
               /\ Len(ArrivedSamples) <= Len(one_shot)
               /\ ArrivedSamples = SubSeq(one_shot, 1, Len(ArrivedSamples))
    <3>1. ArrivedSamples = one_shot
      BY <2>2, <2>4 DEF ArrivedSamples, OneShotSamples
    <3> DEFINE T == RP!Value \cup Nat
    <3>2. ArrivedSamples \in Seq(T) /\ Len(ArrivedSamples) \in Nat
      BY ArrivedIs
    <3> HIDE DEF T
    <3>3. ArrivedSamples = SubSeq(ArrivedSamples, 1, Len(ArrivedSamples))
      BY <3>2, PrefixIs
    <3> QED
      BY <3>1, <3>2, <3>3
  <2> QED
    BY <2>1, <2>3, <2>4
<1> QED
  BY <1>1, <1>2, <1>3, Invariance, PTL
-----------------------------------------------------------------------------
\* Durations

\* d is how long T samples at rate t last, rounded to the nearest of ms units in a
\* second; M samples at rate s last as long, or longer by no more than W / (s * t).
LEMMA RoundedDuration ==
  ASSUME NEW T \in Nat, NEW M \in Nat, NEW W \in Nat, NEW ms \in Nat,
         NEW s \in Nat \ {0}, NEW t \in Nat \ {0},
         T * s <= M * t, M * t <= T * s + W,
         NEW d \in Nat, d = (T * ms + t \div 2) \div t
  PROVE  /\ 2 * d * s <= 2 * M * ms + s
         /\ (2 * d * s + s) * t >= 2 * M * ms * t - 2 * W * ms
<1> DEFINE a == T * ms
           half == t \div 2
           X == d * s
           Y == M * ms
<1>1. a \in Nat /\ X \in Nat /\ Y \in Nat /\ d * t \in Nat
  OBVIOUS
<1>2. half \in Nat /\ 2 * half <= t /\ t <= 2 * half + 1
  OBVIOUS
<1>3. d * t <= a + half /\ a + half < d * t + t
  <2>1. a + half \in Nat /\ d = (a + half) \div t
    BY <1>1, <1>2
  <2> HIDE DEF a, half
  <2> QED
    BY <2>1, DivBounds
<1> HIDE DEF half
<1>4. 2 * (d * t) <= 2 * a + t /\ 2 * a <= 2 * (d * t) + t
  <2> HIDE DEF a
  <2> QED
    BY <1>1, <1>2, <1>3
<1>5. /\ (2 * (d * t)) * s = 2 * (X * t)
      /\ (2 * a + t) * s = 2 * ((T * s) * ms) + s * t
      /\ (2 * a) * s = 2 * ((T * s) * ms)
      /\ (2 * (d * t) + t) * s = 2 * (X * t) + s * t
  OBVIOUS
<1>6. 2 * (X * t) <= 2 * ((T * s) * ms) + s * t /\ 2 * ((T * s) * ms) <= 2 * (X * t) + s * t
  <2> DEFINE u == 2 * (d * t)
             v == 2 * a + t
             w == 2 * a
             x == 2 * (d * t) + t
  <2>1. u \in Nat /\ v \in Nat /\ w \in Nat /\ x \in Nat /\ u <= v /\ w <= x
    BY <1>1, <1>4
  <2> HIDE DEF u, v, w, x
  <2>2. u * s <= v * s /\ w * s <= x * s
    BY <2>1, ProductMonotone
  <2> QED
    BY <1>5, <2>2 DEF u, v, w, x
<1>7. /\ (M * t) * ms = Y * t
      /\ (T * s + W) * ms = (T * s) * ms + W * ms
  OBVIOUS
<1>8. (T * s) * ms <= Y * t /\ Y * t <= (T * s) * ms + W * ms
  <2> DEFINE u == T * s
             v == M * t
             w == T * s + W
  <2>1. u \in Nat /\ v \in Nat /\ w \in Nat /\ u <= v /\ v <= w
    OBVIOUS
  <2> HIDE DEF u, v, w
  <2>2. u * ms <= v * ms /\ v * ms <= w * ms
    BY <2>1, ProductMonotone
  <2> QED
    BY <1>7, <2>2 DEF u, v, w
<1>9. /\ (T * s) * ms \in Nat /\ W * ms \in Nat /\ X * t \in Nat /\ Y * t \in Nat
      /\ s * t \in Nat
  OBVIOUS
<1> HIDE DEF X, Y, a
<1>10. 2 * X <= 2 * Y + s
  <2> SUFFICES ASSUME 2 * Y + s + 1 <= 2 * X PROVE FALSE
    BY <1>1
  <2> DEFINE u == 2 * Y + s + 1
             v == 2 * X
  <2>1. u \in Nat /\ v \in Nat /\ u <= v
    BY <1>1
  <2>2. u * t = 2 * (Y * t) + s * t + t /\ v * t = 2 * (X * t)
    BY <1>1
  <2> HIDE DEF u, v
  <2>3. u * t <= v * t
    BY <2>1, ProductMonotone
  <2> QED
    BY <1>6, <1>8, <1>9, <2>2, <2>3
<1>11. 2 * (Y * t) <= 2 * (X * t) + s * t + 2 * (W * ms)
  BY <1>6, <1>8, <1>9
<1>12. /\ 2 * d * s = 2 * X /\ 2 * M * ms = 2 * Y
       /\ (2 * d * s + s) * t = 2 * (X * t) + s * t
       /\ 2 * M * ms * t = 2 * (Y * t) /\ 2 * W * ms = 2 * (W * ms)
  BY DEF X, Y
<1>13. 2 * d * s <= 2 * M * ms + s
  BY <1>10, <1>12
<1>14. 2 * (X * t) + s * t >= 2 * (Y * t) - 2 * (W * ms)
  BY <1>9, <1>11
<1> QED
  BY <1>12, <1>13, <1>14

\* A stream is resampled if and only if its rates differ.
AtRate == resampled <=> kernel.source_rate # kernel.target_rate

LEMMA AtRateStep == AtRate /\ [Next]_vars => AtRate'
<1> SUFFICES ASSUME AtRate, [Next]_vars PROVE kernel' = kernel /\ resampled' = resampled
  BY DEF AtRate
<1>1. CASE PushSamples
  <2>1. PICK n \in 0 .. MAX_PUSH, c \in Channels \ {0} : Ingest(MonoFrames(n, c))
    BY <1>1 DEF PushSamples, Push
  <2> QED
    BY <2>1 DEF Ingest, R!Push, framing, F!Ingest, resampler
<1>2. CASE PushNoChannels
  BY <1>2 DEF PushNoChannels, F!PushNoChannels, resampler
<1>3. CASE Flush
  BY <1>3 DEF Flush, R!Flush, R!buffer, framing, F!FlushPassthrough, resampler
<1>4. CASE Reset
  BY <1>4 DEF Reset, ResetResampler, R!Reset, F!Reset, resampler
<1>5. CASE Resample
  BY <1>5 DEF Resample, R!PushOutput, R!FlushOutput, R!Emit, framing
<1>6. CASE Release
  BY <1>6 DEF Release, R!FinishPush, R!FinishFlush, F!Ingest
<1>7. CASE Hash
  BY <1>7 DEF Hash, F!ProcessFrame, F!DrainPending, F!EmitHash, F!FinishEmit, resampler
<1>8. CASE UNCHANGED vars
  BY <1>8 DEF vars, resampler, framing
<1> QED
  BY <1>1, <1>2, <1>3, <1>4, <1>5, <1>6, <1>7, <1>8 DEF Next

\* The target-rate samples a stream has between two calls, and those it was given.
LEMMA SamplesOfSource ==
  ASSUME IInv, AtRate, RP!Drained, Idle
  PROVE  /\ Mono \in Nat /\ Withheld \in Nat /\ total_samples_at_target_rate \in Nat
         /\ total_samples_at_target_rate * kernel.source_rate <= Mono * kernel.target_rate
         /\ Mono * kernel.target_rate
               <= total_samples_at_target_rate * kernel.source_rate + Withheld
<1> DEFINE s == kernel.source_rate
           t == kernel.target_rate
           total == total_samples_at_target_rate
<1>1. /\ s \in Nat \ {0} /\ t \in Nat \ {0} /\ kernel.half_width \in Nat
      /\ total \in Nat /\ source \in Nat /\ resampled \in BOOLEAN
  <2>1. kernel \in Kernels
    BY DEF IInv, RP!IInv, RP!TypeOK
  <2> QED
    BY <2>1, Facts, RP!KernelType, ResamplerAssumption
<1>2. Mono = IF resampled THEN source ELSE total
  BY DEF Mono, IInv, Counted
<1>3. (kernel.half_width + 1) * t \in Nat
  BY <1>1
<1>4. Withheld = IF ~resampled THEN 0
                 ELSE IF flushes # <<>> /\ RP!LastFlush.at = source THEN s
                 ELSE (kernel.half_width + 1) * t
  BY DEF Withheld, RP!LastFlush
<1>5. CASE resampled
  <2>1. /\ Len(released) * s <= source * t
        /\ source * t <= Len(released) * s
             + (IF flushes # <<>> /\ RP!LastFlush.at = source THEN s
                ELSE (kernel.half_width + 1) * t)
    BY RP!Shortfall, ResamplerAssumption DEF IInv, Idle
  <2>2. total = Len(released) /\ Mono = source
    BY <1>2, <1>5 DEF IInv, Handed
  <2> HIDE DEF s, t, total
  <2> QED
    BY <1>1, <1>3, <1>4, <1>5, <2>1, <2>2 DEF s, t, total
<1>6. CASE ~resampled
  <2>1. s = t /\ Mono = total /\ Withheld = 0
    BY <1>2, <1>4, <1>6 DEF AtRate
  <2> HIDE DEF s, t, total
  <2>2. total * t \in Nat
    BY <1>1
  <2> QED
    BY <1>1, <2>1, <2>2 DEF s, t, total
<1> QED
  BY <1>5, <1>6

\* The duration of a stream is that of the audio it was given.
THEOREM DurationCorrect == Spec => []DurationTracksSource
<1>1. Spec => []RP!Drained
  <2>1. RP!Spec => []RP!Drained
    BY ResamplerAssumption, RP!DrainedCorrect
  <2>2. Init => RP!Init
    BY SameResampler DEF Init
  <2>3. IInv /\ [Next]_vars => [RP!Next]_(RP!vars)
    BY ResamplerStep
  <2> QED
    BY <2>1, <2>2, <2>3, Invariance, PTL DEF Spec, RP!Spec
<1>2. Spec => []AtRate
  <2>1. Init => AtRate
    BY DEF Init, AtRate
  <2> QED
    BY <2>1, AtRateStep, PTL DEF Spec
<1>3. IInv /\ AtRate /\ RP!Drained => DurationTracksSource
  <2> SUFFICES ASSUME IInv, AtRate, RP!Drained, Idle
               PROVE  LET rate == kernel.source_rate
                          played == 2 * Mono * MILLISECONDS
                      IN  /\ 2 * duration_ms * rate <= played + rate
                          /\ duration_ms < MAX_MS =>
                                (2 * duration_ms * rate + rate) * kernel.target_rate
                                    >= played * kernel.target_rate - 2 * Withheld * MILLISECONDS
    BY DEF DurationTracksSource
  <2> DEFINE s == kernel.source_rate
             t == kernel.target_rate
             d == (total_samples_at_target_rate * MILLISECONDS + t \div 2) \div t
  <2>1. s \in Nat \ {0} /\ t \in Nat \ {0} /\ MILLISECONDS \in Nat /\ MAX_MS \in Nat
    <3>1. kernel \in Kernels
      BY DEF IInv, RP!IInv, RP!TypeOK
    <3> QED
      BY <3>1, RP!KernelType, ResamplerAssumption, StreamPipelineAssumption
  <2>2. duration_ms = IF d < MAX_MS THEN d ELSE MAX_MS
    BY DEF duration_ms, DurationMs
  <2>3. /\ Mono \in Nat /\ Withheld \in Nat /\ total_samples_at_target_rate \in Nat
        /\ total_samples_at_target_rate * s <= Mono * t
        /\ Mono * t <= total_samples_at_target_rate * s + Withheld
    BY SamplesOfSource
  <2>4. d \in Nat
    <3>1. total_samples_at_target_rate * MILLISECONDS \in Nat /\ t \div 2 \in Nat
      BY <2>1, <2>3
    <3>2. total_samples_at_target_rate * MILLISECONDS + t \div 2 \in Nat
      BY <3>1
    <3> QED
      BY <2>1, <3>2, DivBounds
  <2>5. /\ 2 * d * s <= 2 * Mono * MILLISECONDS + s
        /\ (2 * d * s + s) * t >= 2 * Mono * MILLISECONDS * t - 2 * Withheld * MILLISECONDS
    <3> HIDE DEF s, t
    <3> QED
      BY <2>1, <2>3, <2>4, RoundedDuration
  <2> HIDE DEF d
  <2>6. 2 * duration_ms * s <= 2 * Mono * MILLISECONDS + s
    <3>1. duration_ms \in Nat /\ duration_ms <= d
      BY <2>1, <2>2, <2>4
    <3>2. duration_ms * s <= d * s /\ duration_ms * s \in Nat /\ d * s \in Nat
      BY <2>1, <2>4, <3>1, ProductMonotone
    <3>3. 2 * duration_ms * s = 2 * (duration_ms * s) /\ 2 * d * s = 2 * (d * s)
      BY <2>1, <2>4, <3>1
    <3>4. 2 * Mono * MILLISECONDS \in Nat
      BY <2>1, <2>3
    <3> HIDE DEF s
    <3> QED
      BY <2>1, <2>5, <3>2, <3>3, <3>4
  <2>7. duration_ms < MAX_MS => duration_ms = d
    BY <2>1, <2>2, <2>4
  <2> QED
    BY <2>5, <2>6, <2>7
<1> QED
  BY <1>1, <1>2, <1>3, Invariance, PTL
=============================================================================

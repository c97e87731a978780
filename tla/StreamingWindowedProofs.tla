------------------------ MODULE StreamingWindowedProofs ------------------------
(***************************************************************************)
(* The windowed stream, for every grid, window, interval and bound: its     *)
(* types, its grid, its slices, the windows it returns, what it buffers,    *)
(* and that it implements WindowStream.                                     *)
(*                                                                          *)
(* All of it follows from the inductive invariant IInv; there is one lemma  *)
(* per action.                                                              *)
(***************************************************************************)
EXTENDS StreamingWindowedFingerprinter, FingerprintProofs

LEMMA Constants ==
    /\ FRAME_SIZE \in Nat \ {0} /\ HOP_SIZE \in Nat \ {0} /\ HOP_SIZE <= FRAME_SIZE
    /\ MAX_CHUNK \in Nat /\ MAX_SAMPLES \in Nat
    /\ WindowSamples \subseteq Nat /\ IntervalSamples \subseteq Nat
    BY FrameGridAssumption, StreamingWindowedAssumption

LEMMA InitInv == Init => IInv
<1> SUFFICES ASSUME Init PROVE IInv
    OBVIOUS
<1> USE DEF Init
<1>1. TypeOK
    BY Constants DEF TypeOK
<1>2. FramesOnGrid
    BY Constants DEF FramesOnGrid, PendingStart
<1>3. FramesComplete
    BY Constants DEF FramesComplete, NextFrame, CompleteFrameCount
<1>4. WindowsInOrder
    BY <1>1 DEF WindowsInOrder, Returned, TypeOK
<1>5. FirstFrame(0) \in Nat
    BY FirstFrameBounds
<1>6. FramesNeeded
    BY <1>5 DEF FramesNeeded
<1>7. CallComplete
    BY <1>1, Constants DEF CallComplete, WindowComplete, TypeOK
<1> QED BY <1>1, <1>2, <1>3, <1>4, <1>6, <1>7 DEF IInv

-----------------------------------------------------------------------------

\* The shape of the state that every step starts from
LEMMA Facts ==
    ASSUME IInv
    PROVE  /\ NextFrame \in Nat
           /\ NextFrame * HOP_SIZE \in Nat
           /\ first_frame_index * HOP_SIZE \in Nat
           /\ CompleteFrameCount(total_samples_at_target_rate) \in Nat
           /\ FirstFrame(next_window_start) \in Nat
           /\ LastFrame(next_window_start, window_samples) \in Nat
           /\ Len(pending) \in Nat /\ Len(frames) \in Nat
           /\ Len(emitted) \in Nat /\ Len(windows) \in Nat
           /\ PendingStart = NextFrame * HOP_SIZE - (IF pc = "process" THEN offset ELSE 0)
<1> USE DEF IInv, TypeOK
<1>1. NextFrame \in Nat
    BY DEF NextFrame
<1>2. NextFrame * HOP_SIZE \in Nat /\ first_frame_index * HOP_SIZE \in Nat
    BY <1>1, Constants
<1>3. total_samples_at_target_rate \in Nat
    BY Constants
<1>4. CompleteFrameCount(total_samples_at_target_rate) \in Nat
    BY <1>3, CompleteFrameCountBounds
<1>5. FirstFrame(next_window_start) \in Nat
    BY FirstFrameBounds
<1>6. LastFrame(next_window_start, window_samples) \in Nat
    BY LastFrameBounds
<1>7. PendingStart = NextFrame * HOP_SIZE - (IF pc = "process" THEN offset ELSE 0)
    BY DEF PendingStart, NextFrame
<1>8. /\ Len(pending) \in Nat /\ Len(frames) \in Nat
      /\ Len(emitted) \in Nat /\ Len(windows) \in Nat
    OBVIOUS
<1> QED BY <1>1, <1>2, <1>4, <1>5, <1>6, <1>7, <1>8

\* What joins a call's windows to those returned before
LEMMA Concat ==
    ASSUME NEW S, NEW s \in Seq(S), NEW t \in Seq(S)
    PROVE  /\ s \o t \in Seq(S) /\ Len(s \o t) = Len(s) + Len(t)
           /\ \A k \in 1 .. Len(s) : (s \o t)[k] = s[k]
           /\ \A k \in 1 .. Len(t) : (s \o t)[Len(s) + k] = t[k]
    OBVIOUS

LEMMA ConcatEmpty ==
    ASSUME NEW S, NEW s \in Seq(S)
    PROVE  s \o <<>> = s
    OBVIOUS

LEMMA ConcatAppend ==
    ASSUME NEW S, NEW s \in Seq(S), NEW t \in Seq(S), NEW x \in S
    PROVE  s \o Append(t, x) = Append(s \o t, x)
    OBVIOUS

LEMMA IngestInv ==
    ASSUME IInv, NEW n \in Nat, Ingest(n)
    PROVE  IInv'
<1> DEFINE total == total_samples_at_target_rate
<1>1. /\ TypeOK /\ pc = "idle" /\ pc' = "process" /\ total \in Nat /\ total' = total + n
      /\ total' \in 0 .. MAX_SAMPLES /\ offset' = 0 /\ windows' = <<>>
      /\ UNCHANGED <<resampled, window_samples, interval_samples, frames,
                     first_frame_index, next_window_start, emitted, acknowledged>>
    BY Constants DEF IInv, TypeOK, Ingest, shape, history
<1>0. Len(pending) \in Nat
    BY Facts
<1>2. /\ Arriving(n) \in Seq(Nat) /\ Len(Arriving(n)) = n
      /\ \A i \in 1 .. n : Arriving(n)[i] = total + i - 1
    BY <1>1 DEF Arriving
<1>3. pending \in Seq(Nat) /\ pending' = pending \o Arriving(n)
    BY DEF IInv, TypeOK, Ingest
<1>4. /\ pending' \in Seq(Nat) /\ Len(pending') = Len(pending) + n
      /\ \A k \in 1 .. Len(pending) : pending'[k] = pending[k]
      /\ \A k \in 1 .. n : pending'[Len(pending) + k] = total + k - 1
    BY <1>2, <1>3, Concat
<1>5. TypeOK'
    BY <1>1, <1>4 DEF TypeOK
<1>6. FramesOnGrid'
    <2>1. PendingStart' = PendingStart /\ PendingStart \in Int
        BY <1>1, Facts DEF PendingStart, TypeOK
    <2>2. PendingStart + Len(pending) = total
        BY DEF IInv, FramesOnGrid
    <2>3. ASSUME NEW k \in 1 .. Len(pending') PROVE pending'[k] = PendingStart' + k - 1
        <3>1. CASE k <= Len(pending)
            BY <1>4, <2>1, <3>1, Facts DEF IInv, FramesOnGrid
        <3>2. CASE k > Len(pending)
            <4>1. k - Len(pending) \in 1 .. n /\ Len(pending) + (k - Len(pending)) = k
                BY <1>4, <3>2, Facts
            <4>2. pending'[k] = total + (k - Len(pending)) - 1
                BY <1>4, <4>1
            <4> QED BY <1>0, <2>1, <2>2, <4>2
        <3> QED BY <1>0, <3>1, <3>2
    <2>4. PendingStart' + Len(pending') = total'
        BY <1>1, <1>4, <1>0, <2>1, <2>2
    <2>5. \A k \in 1 .. Len(frames') : frames'[k] = GridFrame(first_frame_index' + k - 1)
        BY <1>1 DEF IInv, FramesOnGrid
    <2> QED BY <2>3, <2>4, <2>5 DEF FramesOnGrid
<1>7. FramesComplete'
    <2>1. NextFrame' = NextFrame /\ NextFrame \in Nat
        BY <1>1, Facts DEF NextFrame
    <2>2. NextFrame <= CompleteFrameCount(total')
        <3>1. CASE NextFrame = 0
            BY <1>1, <3>1, CompleteFrameCountBounds
        <3>2. CASE NextFrame # 0
            <4> DEFINE j == NextFrame - 1
            <4>1. j \in Nat /\ j < CompleteFrameCount(total) /\ j * HOP_SIZE \in Nat
                BY <2>1, <3>2, Facts, Constants DEF IInv, FramesComplete
            <4> HIDE DEF j
            <4>2. j * HOP_SIZE + FRAME_SIZE <= total
                BY <1>1, <4>1, CompleteFrameCountBounds
            <4>3. j * HOP_SIZE + FRAME_SIZE <= total'
                BY <1>1, <4>1, <4>2, Constants
            <4>4. j < CompleteFrameCount(total') /\ CompleteFrameCount(total') \in Nat
                BY <1>1, <4>1, <4>3, CompleteFrameCountBounds
            <4> QED BY <2>1, <4>4 DEF j
        <3> QED BY <3>1, <3>2
    <2> QED BY <1>1, <2>1, <2>2 DEF FramesComplete
<1>8. WindowsInOrder'
    <2>1. Returned' = Returned
        BY <1>1, ConcatEmpty DEF Returned, TypeOK
    <2>2. WindowsInOrder /\ window_samples \in Nat /\ interval_samples \in Nat
        BY <1>1 DEF IInv, TypeOK
    <2>3. Len(Returned) \in Nat
        BY <1>1, Facts DEF Returned
    <2>4. \A k \in 1 .. Len(Returned) :
              (k - 1) * interval_samples + window_samples <= total'
        <3>1. ASSUME NEW k \in 1 .. Len(Returned) PROVE (k - 1) * interval_samples \in Int
            BY <2>2, <2>3
        <3> QED BY <1>1, <2>2, <2>3, <3>1 DEF WindowsInOrder
    <2> QED BY <1>1, <2>1, <2>2, <2>4 DEF WindowsInOrder
<1>9. FramesNeeded'
    BY <1>1 DEF IInv, FramesNeeded
<1>10. CallComplete'
    BY <1>1 DEF CallComplete
<1> QED BY <1>5, <1>6, <1>7, <1>8, <1>9, <1>10 DEF IInv

LEMMA PushNoChannelsInv ==
    ASSUME IInv, PushNoChannels
    PROVE  IInv'
<1>1. /\ TypeOK /\ pc = "idle" /\ windows' = <<>>
      /\ UNCHANGED <<shape, stream, pc, offset, history>>
    BY DEF IInv, PushNoChannels
<1> USE DEF shape, stream, history
<1>2. TypeOK'
    BY <1>1 DEF TypeOK
<1>3. FramesOnGrid'
    BY <1>1 DEF IInv, FramesOnGrid, PendingStart
<1>4. FramesComplete'
    BY <1>1 DEF IInv, FramesComplete, NextFrame
<1>5. WindowsInOrder'
    BY <1>1 DEF IInv, WindowsInOrder, Returned
<1>6. FramesNeeded'
    BY <1>1 DEF IInv, FramesNeeded
<1>7. CallComplete'
    BY <1>1 DEF IInv, CallComplete, WindowComplete
<1> QED BY <1>2, <1>3, <1>4, <1>5, <1>6, <1>7 DEF IInv

LEMMA FlushPassthroughInv ==
    ASSUME IInv, FlushPassthrough
    PROVE  IInv'
<1>1. /\ TypeOK /\ pc = "idle" /\ pc' = "emit" /\ windows' = <<>>
      /\ UNCHANGED <<shape, stream, offset, history>>
    BY DEF IInv, FlushPassthrough
<1> USE DEF shape, stream, history
<1>2. TypeOK'
    BY <1>1 DEF TypeOK
<1>3. FramesOnGrid'
    BY <1>1 DEF IInv, FramesOnGrid, PendingStart
<1>4. FramesComplete'
    BY <1>1 DEF IInv, FramesComplete, NextFrame
<1>5. WindowsInOrder'
    <2>1. Returned' = Returned
        BY <1>1, ConcatEmpty DEF Returned, TypeOK
    <2> QED BY <1>1, <2>1 DEF IInv, WindowsInOrder
<1>6. FramesNeeded'
    BY <1>1 DEF IInv, FramesNeeded
<1>7. CallComplete'
    BY <1>1 DEF CallComplete
<1> QED BY <1>2, <1>3, <1>4, <1>5, <1>6, <1>7 DEF IInv

LEMMA ResetInv ==
    ASSUME IInv, Reset
    PROVE  IInv'
<1>1. /\ TypeOK /\ pc' = "idle" /\ pending' = <<>> /\ frames' = <<>>
      /\ first_frame_index' = 0 /\ next_window_start' = 0
      /\ total_samples_at_target_rate' = 0 /\ windows' = <<>>
      /\ emitted' = <<>> /\ acknowledged' = 0 /\ UNCHANGED <<shape, offset>>
    BY DEF IInv, Reset
<1>2. TypeOK'
    BY <1>1, Constants DEF TypeOK, shape
<1>3. FramesOnGrid'
    BY <1>1, Constants DEF FramesOnGrid, PendingStart
<1>4. FramesComplete'
    BY <1>1, Constants DEF FramesComplete, NextFrame, CompleteFrameCount
<1>5. WindowsInOrder'
    <2>1. interval_samples' = interval_samples /\ 0 * interval_samples = 0
        BY <1>1 DEF TypeOK, shape
    <2>2. Returned' = <<>>
        BY <1>1 DEF Returned
    <2>3. Len(Returned') = 0 /\ 0 * interval_samples' = 0
        BY <2>1, <2>2
    <2>4. next_window_start' = Len(Returned') * interval_samples'
        BY <1>1, <2>3
    <2> QED BY <2>3, <2>4 DEF WindowsInOrder
<1>6. FramesNeeded'
    <2>1. FirstFrame(0) \in Nat
        BY FirstFrameBounds
    <2> QED BY <1>1, <2>1 DEF FramesNeeded
<1>7. CallComplete'
    <2>1. /\ window_samples' = window_samples
          /\ window_samples \in Nat /\ window_samples >= FRAME_SIZE
        BY <1>1 DEF TypeOK, shape
    <2>2. next_window_start' = 0 /\ total_samples_at_target_rate' = 0 /\ acknowledged' = 0
        BY <1>1
    <2>3. ~(0 + window_samples' <= 0)
        BY <2>1, Constants
    <2> QED BY <2>2, <2>3 DEF CallComplete, WindowComplete
<1> QED BY <1>2, <1>3, <1>4, <1>5, <1>6, <1>7 DEF IInv

-----------------------------------------------------------------------------

LEMMA ProcessFrameInv ==
    ASSUME IInv, ProcessFrame
    PROVE  IInv'
<1>1. /\ TypeOK /\ FramesOnGrid /\ FramesComplete /\ pc = "process" /\ pc' = "process"
      /\ offset + FRAME_SIZE <= Len(pending)
      /\ frames' = Append(frames, ChromaFrame(pending, offset))
      /\ offset' = offset + HOP_SIZE
      /\ UNCHANGED <<resampled, window_samples, interval_samples, pending,
                     first_frame_index, next_window_start, total_samples_at_target_rate,
                     windows, emitted, acknowledged>>
    BY DEF IInv, ProcessFrame, shape, history
<1>2. /\ pending \in Seq(Nat) /\ Len(pending) \in Nat /\ offset \in Nat
      /\ frames \in Seq(Frame) /\ Len(frames) \in Nat
      /\ first_frame_index \in Nat /\ total_samples_at_target_rate \in Nat
    BY <1>1, Constants DEF TypeOK
<1>3. NextFrame \in Nat /\ NextFrame * HOP_SIZE \in Nat
    BY Facts
<1>4. PendingStart = NextFrame * HOP_SIZE - offset
    BY <1>1, Facts
<1>5. ChromaFrame(pending, offset) = GridFrame(NextFrame)
    <2> DEFINE e == offset + FRAME_SIZE
    <2>1. e \in Nat /\ offset <= e /\ e <= Len(pending)
        BY <1>1, <1>2, Constants
    <2>2. e - offset = FRAME_SIZE
        BY <1>2, Constants
    <2>3. ChromaFrame(pending, offset) = SubSeq(pending, offset + 1, e)
        BY DEF ChromaFrame
    <2> HIDE DEF e
    <2>4. ChromaFrame(pending, offset) = [i \in 1 .. e - offset |-> pending[offset + i]]
        BY <1>2, <2>1, <2>3, Slice
    <2>5. ASSUME NEW i \in 1 .. FRAME_SIZE
          PROVE  pending[offset + i] = NextFrame * HOP_SIZE + i - 1
        <3>1. offset + i \in 1 .. Len(pending)
            BY <1>1, <1>2, Constants
        <3>2. pending[offset + i] = PendingStart + (offset + i) - 1
            BY <1>1, <3>1 DEF FramesOnGrid
        <3> QED BY <1>2, <1>3, <1>4, <3>2, Constants
    <2> QED BY <2>2, <2>4, <2>5 DEF GridFrame
<1>6. GridFrame(NextFrame) \in Frame
    BY <1>3, GridFrameType DEF Frame
<1>7. /\ frames' \in Seq(Frame) /\ Len(frames') = Len(frames) + 1
      /\ \A k \in 1 .. Len(frames) : frames'[k] = frames[k]
      /\ frames'[Len(frames) + 1] = GridFrame(NextFrame)
    BY <1>1, <1>2, <1>5, <1>6
<1>8. NextFrame' = NextFrame + 1
    BY <1>1, <1>2, <1>7 DEF NextFrame
<1>9. TypeOK'
    BY <1>1, <1>2, <1>7, Constants DEF TypeOK
<1>10. FramesOnGrid'
    <2>1. PendingStart' = PendingStart
        <3>1. PendingStart' = NextFrame' * HOP_SIZE - offset'
            BY <1>1 DEF PendingStart, NextFrame
        <3>2. (NextFrame + 1) * HOP_SIZE = NextFrame * HOP_SIZE + HOP_SIZE
            BY <1>3, Constants
        <3> QED BY <1>1, <1>2, <1>3, <1>4, <1>8, <3>1, <3>2, Constants
    <2>2. ASSUME NEW k \in 1 .. Len(frames')
          PROVE  frames'[k] = GridFrame(first_frame_index' + k - 1)
        <3>1. CASE k \in 1 .. Len(frames)
            BY <1>1, <1>7, <3>1 DEF FramesOnGrid
        <3>2. CASE k = Len(frames) + 1
            <4>1. first_frame_index + k - 1 = NextFrame
                BY <1>2, <3>2 DEF NextFrame
            <4> QED BY <1>1, <1>7, <3>2, <4>1
        <3> QED BY <1>2, <1>7, <3>1, <3>2
    <2> QED BY <1>1, <2>1, <2>2 DEF FramesOnGrid
<1>11. FramesComplete'
    <2>1. NextFrame * HOP_SIZE + FRAME_SIZE <= total_samples_at_target_rate
        <3>1. PendingStart + Len(pending) = total_samples_at_target_rate
            BY <1>1 DEF FramesOnGrid
        <3> QED BY <1>1, <1>2, <1>3, <1>4, <3>1, Constants
    <2>2. /\ NextFrame < CompleteFrameCount(total_samples_at_target_rate)
          /\ CompleteFrameCount(total_samples_at_target_rate) \in Nat
        BY <1>2, <1>3, <2>1, CompleteFrameCountBounds
    <2> QED BY <1>1, <1>3, <1>8, <2>2 DEF FramesComplete
<1>12. WindowsInOrder'
    BY <1>1 DEF IInv, WindowsInOrder, Returned
<1>13. FramesNeeded'
    BY <1>1 DEF IInv, FramesNeeded
<1>14. CallComplete'
    BY <1>1 DEF CallComplete
<1> QED BY <1>9, <1>10, <1>11, <1>12, <1>13, <1>14 DEF IInv

LEMMA DrainPendingInv ==
    ASSUME IInv, DrainPending
    PROVE  IInv'
<1>1. /\ TypeOK /\ FramesOnGrid /\ FramesComplete /\ pc = "process" /\ pc' = "emit"
      /\ offset + FRAME_SIZE > Len(pending)
      /\ pending' = SubSeq(pending, offset + 1, Len(pending))
      /\ UNCHANGED <<resampled, window_samples, interval_samples, frames,
                     first_frame_index, next_window_start, total_samples_at_target_rate,
                     offset, windows, emitted, acknowledged>>
    BY DEF IInv, DrainPending, shape, history
<1>2. /\ pending \in Seq(Nat) /\ Len(pending) \in Nat /\ offset \in Nat
      /\ total_samples_at_target_rate \in Nat
    BY <1>1, Constants DEF TypeOK
<1>3. /\ NextFrame \in Nat /\ NextFrame * HOP_SIZE \in Nat
      /\ CompleteFrameCount(total_samples_at_target_rate) \in Nat
    BY Facts
<1>4. PendingStart = NextFrame * HOP_SIZE - offset
    BY <1>1, Facts
<1>5. PendingStart + Len(pending) = total_samples_at_target_rate
    BY <1>1 DEF FramesOnGrid
<1>6. NextFrame * HOP_SIZE <= total_samples_at_target_rate
    <2>1. CASE NextFrame = 0
        BY <1>2, <2>1, Constants
    <2>2. CASE NextFrame # 0
        <3> DEFINE j == NextFrame - 1
        <3>1. /\ j \in Nat /\ j < CompleteFrameCount(total_samples_at_target_rate)
              /\ NextFrame = j + 1
            BY <1>1, <1>3, <2>2 DEF FramesComplete
        <3> HIDE DEF j
        <3>2. j * HOP_SIZE + FRAME_SIZE <= total_samples_at_target_rate
            BY <1>2, <3>1, CompleteFrameCountBounds
        <3>3. (j + 1) * HOP_SIZE = j * HOP_SIZE + HOP_SIZE /\ j * HOP_SIZE \in Nat
            BY <3>1, Constants
        <3> QED BY <1>2, <3>1, <3>2, <3>3, Constants
    <2> QED BY <2>1, <2>2
<1>7. offset <= Len(pending)
    BY <1>2, <1>3, <1>4, <1>5, <1>6
<1>8. /\ pending' \in Seq(Nat) /\ Len(pending') = Len(pending) - offset
      /\ \A k \in 1 .. Len(pending') : pending'[k] = pending[offset + k]
    <2>1. pending' = [i \in 1 .. Len(pending) - offset |-> pending[offset + i]]
        BY <1>1, <1>2, <1>7, Slice
    <2>2. \A i \in 1 .. Len(pending) - offset : pending[offset + i] \in Nat
        BY <1>2, <1>7
    <2> QED BY <1>2, <1>7, <2>1, <2>2
<1>9. PendingStart' = NextFrame * HOP_SIZE
    BY <1>1, <1>3 DEF PendingStart, NextFrame
<1>10. TypeOK'
    BY <1>1, <1>8 DEF TypeOK
<1>11. FramesOnGrid'
    <2>1. ASSUME NEW k \in 1 .. Len(pending') PROVE pending'[k] = PendingStart' + k - 1
        <3>1. offset + k \in 1 .. Len(pending)
            BY <1>2, <1>7, <1>8
        <3>2. pending'[k] = PendingStart + (offset + k) - 1
            BY <1>1, <1>8, <3>1 DEF FramesOnGrid
        <3>3. k \in Nat
            BY <1>2, <1>7, <1>8
        <3> QED BY <1>2, <1>3, <1>4, <1>9, <3>2, <3>3
    <2>2. PendingStart' + Len(pending') = total_samples_at_target_rate'
        BY <1>1, <1>2, <1>3, <1>4, <1>5, <1>8, <1>9
    <2>3. \A k \in 1 .. Len(frames') : frames'[k] = GridFrame(first_frame_index' + k - 1)
        BY <1>1 DEF FramesOnGrid
    <2> QED BY <2>1, <2>2, <2>3 DEF FramesOnGrid
<1>12. FramesComplete'
    <2>1. ~(NextFrame * HOP_SIZE + FRAME_SIZE <= total_samples_at_target_rate)
        BY <1>1, <1>2, <1>3, <1>4, <1>5, Constants
    <2>2. ~(NextFrame < CompleteFrameCount(total_samples_at_target_rate))
        BY <1>2, <1>3, <2>1, CompleteFrameCountBounds
    <2>3. NextFrame = CompleteFrameCount(total_samples_at_target_rate)
        BY <1>1, <1>3, <2>2 DEF FramesComplete
    <2>4. NextFrame' = NextFrame
        BY <1>1 DEF NextFrame
    <2> QED BY <1>1, <1>3, <2>3, <2>4 DEF FramesComplete
<1>13. WindowsInOrder'
    BY <1>1 DEF IInv, WindowsInOrder, Returned
<1>14. FramesNeeded'
    BY <1>1 DEF IInv, FramesNeeded
<1>15. CallComplete'
    BY <1>1 DEF CallComplete
<1> QED BY <1>10, <1>11, <1>12, <1>13, <1>14, <1>15 DEF IInv

-----------------------------------------------------------------------------

\* The slice emit_windows takes exists.  The window's last frame ends within the
\* samples received, so it has been computed; its first has not been dropped.
LEMMA SliceExists ==
    ASSUME IInv, pc = "emit", WindowComplete, WindowHasFrames
    PROVE  SliceInRange
<1> DEFINE last == LastFrame(next_window_start, window_samples)
<1>1. /\ window_samples \in Nat /\ window_samples >= FRAME_SIZE /\ next_window_start \in Nat
      /\ total_samples_at_target_rate \in Nat
    BY Constants DEF IInv, TypeOK
<1>2. last \in Nat /\ last * HOP_SIZE + FRAME_SIZE <= next_window_start + window_samples
    BY <1>1, LastFrameBounds
<1>3. last * HOP_SIZE \in Nat
    BY <1>2, Constants
<1> HIDE DEF last
<1>4. last * HOP_SIZE + FRAME_SIZE <= total_samples_at_target_rate
    BY <1>1, <1>2, <1>3, Constants DEF WindowComplete
<1>5. last < CompleteFrameCount(total_samples_at_target_rate)
    BY <1>1, <1>2, <1>4, CompleteFrameCountBounds
<1>6. last < NextFrame
    BY <1>5 DEF IInv, FramesComplete
<1>7. first_frame_index \in Nat /\ Len(frames) \in Nat
    BY DEF IInv, TypeOK
<1>8. last - first_frame_index < Len(frames)
    BY <1>2, <1>6, <1>7 DEF NextFrame
<1> QED BY <1>8 DEF SliceInRange, IInv, FramesNeeded, last

\* What emit_windows hashes is the window's part of the grid.
LEMMA SliceOfGrid ==
    ASSUME IInv, pc = "emit", WindowComplete, WindowHasFrames
    PROVE  SubSeq(frames,
                  FirstFrame(next_window_start) - first_frame_index + 1,
                  LastFrame(next_window_start, window_samples) - first_frame_index + 1)
               = GridFrames(FirstFrame(next_window_start),
                            LastFrame(next_window_start, window_samples))
<1> DEFINE first == FirstFrame(next_window_start)
<1> DEFINE last == LastFrame(next_window_start, window_samples)
<1> DEFINE a == first - first_frame_index
<1> DEFINE b == last - first_frame_index + 1
<1>1. /\ first \in Nat /\ last \in Nat /\ first_frame_index \in Nat
      /\ frames \in Seq(Frame) /\ Len(frames) \in Nat
    BY Facts DEF IInv, TypeOK
<1>2. first <= last /\ first_frame_index <= first /\ last - first_frame_index < Len(frames)
    BY SliceExists DEF WindowHasFrames, SliceInRange
<1> HIDE DEF first, last
<1>3. a \in Nat /\ b \in Nat /\ a <= b /\ b <= Len(frames) /\ b - a = last - first + 1
    BY <1>1, <1>2
<1>4. \A i \in 1 .. b - a : a + i \in 1 .. Len(frames) /\ first_frame_index + (a + i) - 1 = first + i - 1
    BY <1>1, <1>2
<1> HIDE DEF a, b
<1>5. SubSeq(frames, a + 1, b) = [i \in 1 .. b - a |-> frames[a + i]]
    BY <1>1, <1>3, Slice
<1>6. \A i \in 1 .. b - a : frames[a + i] = GridFrame(first + i - 1)
    BY <1>4 DEF IInv, FramesOnGrid
<1>7. SubSeq(frames, a + 1, b) = GridFrames(first, last)
    BY <1>3, <1>5, <1>6 DEF GridFrames
<1> QED BY <1>7 DEF a, b, first, last

LEMMA EmitWindowInv ==
    ASSUME IInv, EmitWindow
    PROVE  IInv'
<1> DEFINE w == GridWindow(next_window_start, window_samples)
<1>1. /\ TypeOK /\ pc = "emit" /\ pc' = "emit" /\ WindowComplete
      /\ next_window_start' = next_window_start + interval_samples
      /\ UNCHANGED <<resampled, window_samples, interval_samples, pending, frames,
                     first_frame_index, total_samples_at_target_rate, offset,
                     emitted, acknowledged>>
    BY DEF IInv, EmitWindow, EmitWith, shape, history
<1>2. windows' = Append(windows, w)
    <2>1. CASE WindowHasFrames
        <3>1. windows' = Append(windows, Window(next_window_start, EncodeChromaFrames(
                    GridFrames(FirstFrame(next_window_start),
                               LastFrame(next_window_start, window_samples)))))
            BY <1>1, <2>1, SliceOfGrid DEF EmitWindow, EmitWith
        <3> QED BY <2>1, <3>1 DEF GridWindow, WindowHasFrames
    <2>2. CASE ~WindowHasFrames
        BY <2>2 DEF EmitWindow, EmitWith, GridWindow, WindowHasFrames
    <2> QED BY <2>1, <2>2
<1>3. /\ window_samples \in Nat /\ window_samples >= FRAME_SIZE
      /\ interval_samples \in Nat \ {0} /\ next_window_start \in Nat
      /\ next_window_start' \in Nat /\ next_window_start <= next_window_start'
    BY <1>1 DEF TypeOK
<1>4. w \in WindowType
    BY <1>3, GridWindowType DEF WindowType, Frame
<1> HIDE DEF w
<1>5. windows \in Seq(WindowType) /\ emitted \in Seq(WindowType)
    BY <1>1 DEF TypeOK
<1>6. TypeOK'
    BY <1>1, <1>2, <1>3, <1>4, <1>5 DEF TypeOK
<1>7. FramesOnGrid'
    BY <1>1 DEF IInv, FramesOnGrid, PendingStart
<1>8. FramesComplete'
    BY <1>1 DEF IInv, FramesComplete, NextFrame
<1>9. WindowsInOrder'
    <2>1. Returned = emitted \o windows /\ Returned' = emitted \o Append(windows, w)
        BY <1>1, <1>2 DEF Returned
    <2>2. Returned \in Seq(WindowType) /\ Returned' = Append(Returned, w)
        BY <1>4, <1>5, <2>1, Concat, ConcatAppend
    <2> DEFINE n == Len(Returned)
    <2>3. n \in Nat /\ Len(Returned') = n + 1 /\ Returned'[n + 1] = w
          /\ \A k \in 1 .. n : Returned'[k] = Returned[k]
        BY <1>4, <2>2
    <2>4. /\ next_window_start = n * interval_samples
          /\ \A k \in 1 .. n :
                /\ Returned[k] = GridWindow((k - 1) * interval_samples, window_samples)
                /\ (k - 1) * interval_samples + window_samples <= total_samples_at_target_rate
        BY DEF IInv, WindowsInOrder
    <2> HIDE DEF n
    <2>5. (n + 1) * interval_samples = n * interval_samples + interval_samples
        BY <1>3, <2>3
    <2>6. next_window_start' = Len(Returned') * interval_samples'
        BY <1>1, <2>3, <2>4, <2>5
    <2>7. ASSUME NEW k \in 1 .. Len(Returned')
          PROVE  /\ Returned'[k] = GridWindow((k - 1) * interval_samples, window_samples)
                 /\ (k - 1) * interval_samples + window_samples <= total_samples_at_target_rate
        <3>1. CASE k \in 1 .. n
            BY <2>3, <2>4, <3>1
        <3>2. CASE k = n + 1
            <4>1. k - 1 = n
                BY <2>3, <3>2
            <4>2. (k - 1) * interval_samples = next_window_start
                BY <2>4, <4>1
            <4> QED BY <1>1, <2>3, <3>2, <4>2 DEF w, WindowComplete
        <3> QED BY <2>3, <3>1, <3>2
    <2> QED BY <1>1, <2>6, <2>7 DEF WindowsInOrder
<1>10. FramesNeeded'
    <2>1. /\ FirstFrame(next_window_start) \in Nat /\ FirstFrame(next_window_start') \in Nat
          /\ FirstFrame(next_window_start) <= FirstFrame(next_window_start')
        BY <1>3, FirstFrameBounds, FirstFrameMonotone
    <2>2. first_frame_index \in Nat /\ first_frame_index <= FirstFrame(next_window_start)
        BY <1>1 DEF IInv, FramesNeeded, TypeOK
    <2> QED BY <1>1, <2>1, <2>2 DEF FramesNeeded
<1>11. CallComplete'
    BY <1>1 DEF CallComplete
<1> QED BY <1>6, <1>7, <1>8, <1>9, <1>10, <1>11 DEF IInv

LEMMA FinishEmitInv ==
    ASSUME IInv, FinishEmit
    PROVE  IInv'
<1> DEFINE needed_first == FirstFrame(next_window_start)
<1>1. /\ TypeOK /\ pc = "emit" /\ pc' = "idle" /\ ~WindowComplete
      /\ frames' = SubSeq(frames, Unreachable + 1, Len(frames))
      /\ first_frame_index' = first_frame_index + Unreachable
      /\ emitted' = emitted \o windows
      /\ acknowledged' = total_samples_at_target_rate
      /\ UNCHANGED <<resampled, window_samples, interval_samples, pending,
                     next_window_start, total_samples_at_target_rate, offset, windows>>
    BY DEF IInv, FinishEmit, shape
<1>2. /\ frames \in Seq(Frame) /\ Len(frames) \in Nat /\ first_frame_index \in Nat
      /\ needed_first \in Nat /\ first_frame_index <= needed_first
    BY <1>1, Facts DEF TypeOK, IInv, FramesNeeded
<1>3. /\ Unreachable \in 0 .. Len(frames)
      /\ Unreachable <= needed_first - first_frame_index
      /\ Unreachable < Len(frames) => Unreachable = needed_first - first_frame_index
    BY <1>2 DEF Unreachable, Least
<1> DEFINE u == Unreachable
<1> HIDE DEF needed_first, u
<1>4. u \in Nat /\ u <= Len(frames) /\ Len(frames) - u \in Nat
    BY <1>2, <1>3 DEF u
<1>5. /\ frames' \in Seq(Frame) /\ Len(frames') = Len(frames) - u
      /\ \A k \in 1 .. Len(frames') : frames'[k] = frames[u + k]
    <2>1. frames' = [i \in 1 .. Len(frames) - u |-> frames[u + i]]
        BY <1>1, <1>2, <1>4, Slice DEF u
    <2>2. \A i \in 1 .. Len(frames) - u : frames[u + i] \in Frame
        BY <1>2, <1>4, SeqElement
    <2> QED BY <1>4, <2>1, <2>2
<1>6. first_frame_index' = first_frame_index + u
    BY <1>1 DEF u
<1>7. NextFrame' = NextFrame
    BY <1>2, <1>4, <1>5, <1>6 DEF NextFrame
<1>8. TypeOK'
    <2>1. emitted \in Seq(WindowType) /\ windows \in Seq(WindowType)
        BY <1>1 DEF TypeOK
    <2>2. emitted' \in Seq(WindowType)
        BY <1>1, <2>1, Concat
    <2>3. total_samples_at_target_rate \in Nat
        BY <1>1, Constants DEF TypeOK
    <2>4. acknowledged' \in 0 .. total_samples_at_target_rate'
        BY <1>1, <2>3
    <2>5. frames' \in Seq(Frame) /\ first_frame_index' \in Nat
        BY <1>2, <1>4, <1>5, <1>6
    <2>6. /\ resampled' \in BOOLEAN
          /\ window_samples' \in Nat /\ window_samples' >= FRAME_SIZE
          /\ interval_samples' \in Nat \ {0}
          /\ pending' \in Seq(Nat) /\ next_window_start' \in Nat
          /\ total_samples_at_target_rate' \in 0 .. MAX_SAMPLES
          /\ pc' \in {"idle", "process", "emit"} /\ offset' \in Nat
          /\ windows' \in Seq(WindowType)
        BY <1>1, <2>1 DEF TypeOK
    <2> QED BY <2>2, <2>4, <2>5, <2>6 DEF TypeOK
<1>9. FramesOnGrid'
    <2>1. PendingStart' = PendingStart
        BY <1>1, <1>7 DEF PendingStart, NextFrame
    <2>2. ASSUME NEW k \in 1 .. Len(frames')
          PROVE  frames'[k] = GridFrame(first_frame_index' + k - 1)
        <3>1. u + k \in 1 .. Len(frames)
            BY <1>2, <1>4, <1>5
        <3>2. frames'[k] = GridFrame(first_frame_index + (u + k) - 1)
            BY <1>5, <3>1 DEF IInv, FramesOnGrid
        <3>3. k \in Nat
            BY <1>4, <1>5
        <3>4. first_frame_index + (u + k) - 1 = first_frame_index' + k - 1
            BY <1>2, <1>4, <1>6, <3>3
        <3> QED BY <3>2, <3>4
    <2> QED BY <1>1, <2>1, <2>2 DEF IInv, FramesOnGrid
<1>10. FramesComplete'
    BY <1>1, <1>7 DEF IInv, FramesComplete
<1>11. WindowsInOrder'
    <2>1. Returned' = Returned
        BY <1>1 DEF Returned
    <2> QED BY <1>1, <2>1 DEF IInv, WindowsInOrder
<1>12. FramesNeeded'
    <2>1. first_frame_index' <= needed_first
        BY <1>2, <1>3, <1>4, <1>6 DEF u
    <2>2. ASSUME frames' # <<>> PROVE first_frame_index' = needed_first
        <3>1. Len(frames') # 0
            BY <1>5, <2>2
        <3>2. u < Len(frames)
            BY <1>2, <1>4, <1>5, <3>1
        <3> QED BY <1>2, <1>3, <1>4, <1>6, <3>2 DEF u
    <2> QED BY <1>1, <2>1, <2>2 DEF FramesNeeded, needed_first
<1>13. CallComplete'
    BY <1>1 DEF CallComplete, WindowComplete
<1> QED BY <1>8, <1>9, <1>10, <1>11, <1>12, <1>13 DEF IInv

-----------------------------------------------------------------------------

LEMMA StepInv == IInv /\ [Next]_vars => IInv'
<1> SUFFICES ASSUME IInv, [Next]_vars PROVE IInv'
    OBVIOUS
<1>1. ASSUME NEW n \in 0 .. MAX_CHUNK PROVE n \in Nat
    BY Constants
<1>2. CASE PushSamples
    BY <1>1, <1>2, IngestInv DEF PushSamples
<1>3. CASE PushNoChannels
    BY <1>3, PushNoChannelsInv
<1>4. CASE FlushResampler
    BY <1>1, <1>4, IngestInv DEF FlushResampler
<1>5. CASE FlushPassthrough
    BY <1>5, FlushPassthroughInv
<1>6. CASE Reset
    BY <1>6, ResetInv
<1>7. CASE ProcessFrame
    BY <1>7, ProcessFrameInv
<1>8. CASE DrainPending
    BY <1>8, DrainPendingInv
<1>9. CASE EmitWindow
    BY <1>9, EmitWindowInv
<1>10. CASE FinishEmit
    BY <1>10, FinishEmitInv
<1>11. CASE UNCHANGED vars
    <2>1. UNCHANGED <<resampled, window_samples, interval_samples, pending, frames,
                      first_frame_index, next_window_start, total_samples_at_target_rate,
                      pc, offset, windows, emitted, acknowledged>>
        BY <1>11 DEF vars, shape, stream, history
    <2>2. TypeOK'
        BY <2>1 DEF IInv, TypeOK
    <2>3. FramesOnGrid'
        BY <2>1 DEF IInv, FramesOnGrid, PendingStart
    <2>4. FramesComplete'
        BY <2>1 DEF IInv, FramesComplete, NextFrame
    <2>5. WindowsInOrder'
        BY <2>1 DEF IInv, WindowsInOrder, Returned
    <2>6. FramesNeeded'
        BY <2>1 DEF IInv, FramesNeeded
    <2>7. CallComplete'
        BY <2>1 DEF IInv, CallComplete, WindowComplete
    <2> QED BY <2>2, <2>3, <2>4, <2>5, <2>6, <2>7 DEF IInv
<1> QED BY <1>2, <1>3, <1>4, <1>5, <1>6, <1>7, <1>8, <1>9, <1>10, <1>11
        DEF Next, Call, Step

\* The inductive invariant holds in every reachable state.
THEOREM Invariance == Spec => []IInv
    BY InitInv, StepInv, PTL DEF Spec

-----------------------------------------------------------------------------

\* Every field of a windowed stream keeps its type: in particular process_pending
\* never computes a frame over fewer than FRAME_SIZE samples.
THEOREM TypeCorrect == Spec => []TypeOK
<1>1. IInv => TypeOK
    BY DEF IInv
<1> QED BY <1>1, Invariance, PTL

\* The retained frames and the pending samples stay on the global grid through
\* every chunking, discard and reset.
THEOREM GridCorrect == Spec => []FramesOnGrid
<1>1. IInv => FramesOnGrid
    BY DEF IInv
<1> QED BY <1>1, Invariance, PTL

\* emit_windows never underflows first - first_frame_index and never slices past
\* the frames it retains.
THEOREM NoSliceOutOfRange == Spec => []SliceNeverOutOfRange
<1>1. IInv => SliceNeverOutOfRange
    BY SliceExists DEF SliceNeverOutOfRange
<1> QED BY <1>1, Invariance, PTL

-----------------------------------------------------------------------------

\* Between calls as many windows have been returned as fit into the samples
\* received: an unreturned one would be complete, and a returned one is.
LEMMA ReturnedCount ==
    ASSUME IInv, pc = "idle"
    PROVE  Len(emitted) = WindowCount(total_samples_at_target_rate,
                                      window_samples, interval_samples)
<1> DEFINE n == Len(emitted)
<1> DEFINE total == total_samples_at_target_rate
<1> DEFINE count == WindowCount(total, window_samples, interval_samples)
<1>1. /\ total \in Nat /\ window_samples \in Nat /\ interval_samples \in Nat \ {0}
      /\ n \in Nat
    BY Constants DEF IInv, TypeOK
<1>2. /\ count \in Nat
      /\ \A j \in Nat : j < count <=> j * interval_samples + window_samples <= total
    BY <1>1, WindowCountBounds
<1>3. Returned = emitted
    BY DEF Returned
<1>4. n * interval_samples = next_window_start
    BY <1>3 DEF IInv, WindowsInOrder
<1>5. ~(n * interval_samples + window_samples <= total)
    BY <1>4 DEF IInv, CallComplete, WindowComplete
<1>6. \A k \in 1 .. n : (k - 1) * interval_samples + window_samples <= total
    BY <1>3 DEF IInv, WindowsInOrder
<1> HIDE DEF n, total, count
<1>7. count <= n
    BY <1>1, <1>2, <1>5
<1>8. ASSUME n # 0 PROVE n <= count
    <2>1. n \in 1 .. n /\ n - 1 \in Nat
        BY <1>1, <1>8
    <2>2. n - 1 < count
        BY <1>2, <1>6, <2>1
    <2> QED BY <1>1, <1>2, <2>2
<1>9. n = count
    BY <1>1, <1>2, <1>7, <1>8
<1> QED BY <1>9 DEF n, count, total

\* What has been returned is a function of the samples received alone.
LEMMA ReturnedWindows ==
    ASSUME IInv, pc = "idle"
    PROVE  emitted = [k \in 1 .. WindowCount(total_samples_at_target_rate,
                                             window_samples, interval_samples) |->
                         GridWindow((k - 1) * interval_samples, window_samples)]
<1> DEFINE n == Len(emitted)
<1>1. emitted \in Seq(WindowType) /\ n \in Nat
    BY DEF IInv, TypeOK
<1>2. \A k \in 1 .. n : emitted[k] = GridWindow((k - 1) * interval_samples, window_samples)
    BY DEF IInv, WindowsInOrder, Returned
<1>3. emitted = [k \in 1 .. n |-> emitted[k]]
    BY <1>1
<1> HIDE DEF n
<1>4. emitted = [k \in 1 .. n |-> GridWindow((k - 1) * interval_samples, window_samples)]
    BY <1>2, <1>3
<1> QED BY <1>4, ReturnedCount DEF n

\* However the samples were chunked, and whatever was flushed in between, the
\* windows returned are those fingerprint_windows cuts from the whole recording.
THEOREM OneShotAgreement == Spec => []StreamMatchesOneShot
<1>1. ASSUME IInv PROVE StreamMatchesOneShot
    <2>1. /\ total_samples_at_target_rate \in Nat
          /\ window_samples \in Nat /\ window_samples >= FRAME_SIZE
          /\ interval_samples \in Nat \ {0}
        BY <1>1, Constants DEF IInv, TypeOK
    <2>2. ASSUME pc = "idle"
          PROVE  emitted = FingerprintWindows(StreamSamples(total_samples_at_target_rate),
                                              window_samples, interval_samples)
        BY <1>1, <2>1, <2>2, ReturnedWindows, OneShotWindowsOfStream
    <2> QED BY <2>2 DEF StreamMatchesOneShot
<1> QED BY <1>1, Invariance, PTL

\* A stream that runs for days keeps less than a frame of samples and no more
\* frames than one window needs.
THEOREM Bounded == Spec => []BufferBounded
<1>1. ASSUME IInv, pc = "idle"
      PROVE  /\ Len(pending) < FRAME_SIZE
             /\ Len(frames) <= DivCeil(window_samples - FRAME_SIZE, HOP_SIZE)
    <2> DEFINE total == total_samples_at_target_rate
    <2> DEFINE count == CompleteFrameCount(total)
    <2> DEFINE span == window_samples - FRAME_SIZE
    <2>1. /\ total \in Nat /\ window_samples \in Nat /\ window_samples >= FRAME_SIZE
          /\ next_window_start \in Nat /\ first_frame_index \in Nat
          /\ frames \in Seq(Frame) /\ Len(frames) \in Nat /\ Len(pending) \in Nat
          /\ FRAME_SIZE \in Nat /\ HOP_SIZE \in Nat \ {0}
        BY <1>1, Constants DEF IInv, TypeOK
    <2>2. /\ NextFrame = count /\ count \in Nat
          /\ \A j \in Nat : j < count <=> j * HOP_SIZE + FRAME_SIZE <= total
        BY <1>1, <2>1, CompleteFrameCountBounds DEF IInv, FramesComplete
    <2>3. count * HOP_SIZE + Len(pending) = total
        BY <1>1, <2>2, Facts DEF IInv, FramesOnGrid
    <2>4. total < next_window_start + window_samples
        BY <1>1, <2>1 DEF IInv, CallComplete, WindowComplete
    <2> HIDE DEF count, total
    <2>5. Len(pending) < FRAME_SIZE
        <3>1. ~(count * HOP_SIZE + FRAME_SIZE <= total)
            BY <2>2
        <3>2. count * HOP_SIZE \in Nat
            BY <2>1, <2>2
        <3> QED BY <2>1, <2>3, <3>1, <3>2
    <2>6. span \in Nat
        BY <2>1
    <2>7. FirstFrame(span) \in Nat /\ span <= FirstFrame(span) * HOP_SIZE
        BY <2>6, FirstFrameBounds
    <2>8. ASSUME frames # <<>> PROVE Len(frames) <= FirstFrame(span)
        <3> DEFINE first == first_frame_index
        <3> DEFINE j == count - 1
        <3>1. Len(frames) # 0 /\ count = first + Len(frames)
            BY <2>1, <2>2, <2>8 DEF NextFrame
        <3>2. j \in Nat /\ j < count /\ first <= j /\ Len(frames) = j - first + 1
            BY <2>1, <2>2, <3>1
        <3>3. j * HOP_SIZE + FRAME_SIZE <= total
            BY <2>2, <3>2
        <3>4. first = FirstFrame(next_window_start)
            BY <1>1, <2>8 DEF IInv, FramesNeeded
        <3>5. next_window_start <= first * HOP_SIZE
            BY <2>1, <3>4, FirstFrameBounds
        <3> HIDE DEF j, first
        <3>6. first \in Nat
            BY <2>1 DEF first
        <3>7. PICK m \in Nat : j = first + m
            BY <3>2, <3>6
        <3>8. /\ j * HOP_SIZE = first * HOP_SIZE + m * HOP_SIZE
              /\ first * HOP_SIZE \in Nat /\ m * HOP_SIZE \in Nat
            BY <2>1, <3>6, <3>7
        <3>9. m * HOP_SIZE < span
            BY <2>1, <2>4, <3>3, <3>5, <3>8
        <3>10. ~(FirstFrame(span) <= m)
            <4>1. ASSUME FirstFrame(span) <= m
                  PROVE  FirstFrame(span) * HOP_SIZE <= m * HOP_SIZE
                BY <2>1, <2>7, <3>7, <4>1, ProductMonotone
            <4>2. FirstFrame(span) * HOP_SIZE \in Nat
                BY <2>1, <2>7
            <4> HIDE DEF span
            <4> QED BY <2>6, <2>7, <3>8, <3>9, <4>1, <4>2
        <3> QED BY <2>1, <2>7, <3>2, <3>6, <3>7, <3>10
    <2>9. FirstFrame(span) = DivCeil(span, HOP_SIZE)
        BY DEF FirstFrame
    <2>10. frames = <<>> => Len(frames) = 0
        OBVIOUS
    <2> HIDE DEF span
    <2>11. Len(frames) <= DivCeil(span, HOP_SIZE)
        BY <2>1, <2>7, <2>8, <2>9, <2>10
    <2> QED BY <2>5, <2>11 DEF span
<1>2. IInv => BufferBounded
    BY <1>1 DEF BufferBounded
<1> QED BY <1>2, Invariance, PTL

-----------------------------------------------------------------------------

\* WindowStream's copy of FrameGrid is this one: its constants are the same.
LEMMA SameGrid ==
    /\ \A n, w, i : Abstract!WindowCount(n, w, i) = WindowCount(n, w, i)
    /\ \A start, w : Abstract!GridWindow(start, w) = GridWindow(start, w)
<1>1. \A n, w, i : Abstract!WindowCount(n, w, i) = WindowCount(n, w, i)
    BY DEF Abstract!WindowCount, WindowCount
<1>2. \A start : Abstract!FirstFrame(start) = FirstFrame(start)
    BY DEF Abstract!FirstFrame, FirstFrame, Abstract!DivCeil, DivCeil
<1>3. \A start, w : Abstract!LastFrame(start, w) = LastFrame(start, w)
    BY DEF Abstract!LastFrame, LastFrame
<1>4. \A first, last : Abstract!GridFrames(first, last) = GridFrames(first, last)
    BY DEF Abstract!GridFrames, GridFrames, Abstract!GridFrame, GridFrame
<1>5. \A s : Abstract!EncodeChromaFrames(s) = EncodeChromaFrames(s)
    BY DEF Abstract!EncodeChromaFrames, EncodeChromaFrames, Abstract!HashStarts, HashStarts,
           Abstract!ComputeHash, ComputeHash
<1>6. \A start, w : Abstract!GridWindow(start, w) = GridWindow(start, w)
    BY <1>2, <1>3, <1>4, <1>5
       DEF Abstract!GridWindow, GridWindow, Abstract!Window, Window
<1> QED BY <1>1, <1>6

\* At the level of the caller there are no buffers: each call that returns is a
\* delivery of WindowStream, each reset a restart, and every other step changes
\* nothing the caller sees.
THEOREM Refinement == Spec => ImplementsWindowStream
<1> DEFINE Delivered == pc = "idle" => emitted = Abstract!WindowsWithin(acknowledged)
<1> HIDE DEF Delivered
<1>1. ASSUME Init PROVE Abstract!Init
    BY <1>1, Constants DEF Init, Abstract!Init
<1>2. ASSUME IInv PROVE Delivered
    <2>1. CASE pc = "idle"
        <3>1. acknowledged = total_samples_at_target_rate
            BY <1>2, <2>1 DEF IInv, CallComplete
        <3>2. emitted = [k \in 1 .. WindowCount(acknowledged, window_samples, interval_samples) |->
                            GridWindow((k - 1) * interval_samples, window_samples)]
            BY <1>2, <2>1, <3>1, ReturnedWindows
        <3> QED BY <3>2, SameGrid DEF Delivered, Abstract!WindowsWithin
    <2> QED BY <2>1 DEF Delivered
<1>3. ASSUME IInv, Delivered', [Next]_vars PROVE [Abstract!Next]_(Abstract!vars)
    <2>1. CASE FinishEmit
        <3>1. /\ pc' = "idle" /\ acknowledged' = total_samples_at_target_rate
              /\ UNCHANGED <<window_samples, interval_samples, total_samples_at_target_rate>>
            BY <2>1 DEF FinishEmit, shape
        <3>2. acknowledged' \in Nat /\ acknowledged' >= acknowledged
            BY <1>3, <3>1, Constants DEF IInv, TypeOK
        <3>3. emitted' = Abstract!WindowsWithin(acknowledged')
            BY <1>3, <3>1 DEF Delivered, Abstract!WindowsWithin
        <3> QED BY <3>1, <3>2, <3>3 DEF Abstract!Next, Abstract!Deliver
    <2>2. CASE Reset
        BY <2>2 DEF Reset, shape, Abstract!Next, Abstract!Restart
    <2>3. ASSUME UNCHANGED <<window_samples, interval_samples, acknowledged, emitted>>
          PROVE  [Abstract!Next]_(Abstract!vars)
        BY <2>3 DEF Abstract!vars
    <2>4. CASE PushSamples \/ FlushResampler
        BY <2>3, <2>4 DEF PushSamples, FlushResampler, Ingest, shape, history
    <2>5. CASE PushNoChannels \/ FlushPassthrough
        BY <2>3, <2>5 DEF PushNoChannels, FlushPassthrough, shape, history
    <2>6. CASE ProcessFrame \/ DrainPending
        BY <2>3, <2>6 DEF ProcessFrame, DrainPending, shape, history
    <2>7. CASE EmitWindow
        BY <2>3, <2>7 DEF EmitWindow, EmitWith, shape, history
    <2>8. CASE UNCHANGED vars
        BY <2>3, <2>8 DEF vars, shape, history
    <2> QED BY <1>3, <2>1, <2>2, <2>4, <2>5, <2>6, <2>7, <2>8 DEF Next, Call, Step
<1> QED BY <1>1, <1>2, <1>3, Invariance, PTL DEF Spec, ImplementsWindowStream, Abstract!Spec
=============================================================================

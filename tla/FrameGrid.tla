------------------------------ MODULE FrameGrid ------------------------------
(***************************************************************************)
(* The frame grid of the fingerprint and the one-shot fingerprinting paths *)
(* that are cut from it (fingerprint/mod.rs and fingerprint/encoder.rs).   *)
(*                                                                         *)
(* A target-rate sample is known by its position in the stream, a chroma   *)
(* frame by the samples it was computed over, and a hash by the frames     *)
(* compute_hash reads.  The FFT, the chroma projection and the bits of a   *)
(* hash are functions of exactly these, so two hashes that are equal here  *)
(* are equal in the code.                                                  *)
(***************************************************************************)
EXTENDS Integers, Sequences

CONSTANTS
    FRAME_SIZE,           \* samples under one transform (4096)
    HOP_SIZE,             \* samples between the starts of two frames (1024)
    HASH_FRAME_COUNT,     \* frames handed to compute_hash (8)
    HASH_STRIDE_FRAMES,   \* frames between two hashes (2)
    HASH_FRAMES_READ      \* frames compute_hash looks at: frames.len().min(4)

ASSUME FrameGridAssumption ==
    /\ FRAME_SIZE \in Nat \ {0}
    /\ HOP_SIZE \in 1 .. FRAME_SIZE
    /\ HASH_FRAME_COUNT \in Nat \ {0}
    /\ HASH_STRIDE_FRAMES \in 1 .. HASH_FRAME_COUNT
    /\ HASH_FRAMES_READ \in 1 .. HASH_FRAME_COUNT

-----------------------------------------------------------------------------

\* The samples at positions 0 .. n - 1 of the stream, in order.
StreamSamples(n) == [i \in 1 .. n |-> i - 1]

\* usize::div_ceil
DivCeil(a, d) == (a + d - 1) \div d

\* complete_frame_count
CompleteFrameCount(sample_count) ==
    IF sample_count < FRAME_SIZE THEN 0
    ELSE (sample_count - FRAME_SIZE) \div HOP_SIZE + 1

\* Fault: the frame ends one sample early.
ChromaFrame_Short(samples, offset) == SubSeq(samples, offset + 1, offset + FRAME_SIZE - 1)

\* process_to_chroma over samples[offset .. offset + FRAME_SIZE]
ChromaFrame(samples, offset) == SubSeq(samples, offset + 1, offset + FRAME_SIZE)

\* compute_chroma_frames: at most frame_limit frames, at every complete
\* HOP_SIZE offset.
ComputeChromaFrames(samples, frame_limit) ==
    LET complete == CompleteFrameCount(Len(samples))
        available == IF complete < frame_limit THEN complete ELSE frame_limit
    IN  [index \in 1 .. available |-> ChromaFrame(samples, (index - 1) * HOP_SIZE)]

\* compute_hash: the bits come from the first HASH_FRAMES_READ frames only, and
\* fewer than two frames hash to the constant 0.
ComputeHash(frames) ==
    IF Len(frames) < 2 THEN <<>>
    ELSE SubSeq(frames, 1, IF Len(frames) < HASH_FRAMES_READ
                           THEN Len(frames) ELSE HASH_FRAMES_READ)

\* The starts a hash is computed at: every HASH_STRIDE_FRAMES frames, and once
\* more at last_start when the stride misses it.
HashStarts(last_start) ==
    LET strided == [k \in 1 .. last_start \div HASH_STRIDE_FRAMES + 1
                        |-> (k - 1) * HASH_STRIDE_FRAMES]
    IN  IF last_start % HASH_STRIDE_FRAMES = 0 THEN strided
        ELSE Append(strided, last_start)

\* encode_chroma_frames
EncodeChromaFrames(frames) ==
    IF Len(frames) < HASH_FRAME_COUNT THEN <<>>
    ELSE LET starts == HashStarts(Len(frames) - HASH_FRAME_COUNT)
         IN  [k \in 1 .. Len(starts) |->
                 ComputeHash(SubSeq(frames, starts[k] + 1, starts[k] + HASH_FRAME_COUNT))]

-----------------------------------------------------------------------------

\* fingerprint_samples: every complete frame of the recording, encoded at once.
FingerprintSamples(samples) ==
    EncodeChromaFrames(ComputeChromaFrames(samples, CompleteFrameCount(Len(samples))))

\* The first and the last frame that lie inside the window that begins at start.
FirstFrame(start) == DivCeil(start, HOP_SIZE)
LastFrame(start, window_samples) == (start + window_samples - FRAME_SIZE) \div HOP_SIZE

\* WindowedFingerprint, its time stamp kept as the sample it stands for.
\* window_duration_ms is copied unchanged into every window and left out.
Window(start, hashes) == [start |-> start, hashes |-> hashes]

\* The chroma frame at index j of the grid: the FRAME_SIZE samples from
\* j * HOP_SIZE on.
GridFrame(j) == [i \in 1 .. FRAME_SIZE |-> j * HOP_SIZE + i - 1]

GridFrames(first, last) == [k \in 1 .. last - first + 1 |-> GridFrame(first + k - 1)]

\* The window at start, from the frames of the grid that lie inside it.
GridWindow(start, window_samples) ==
    LET first == FirstFrame(start)
        last == LastFrame(start, window_samples)
    IN  Window(start, IF first <= last THEN EncodeChromaFrames(GridFrames(first, last))
                      ELSE <<>>)

\* The same of any recording: the window at start, over the samples that lie there
FramesOver(samples, first, last) ==
    [k \in 1 .. last - first + 1 |-> ChromaFrame(samples, (first + k - 1) * HOP_SIZE)]

WindowOver(samples, start, window_samples) ==
    LET first == FirstFrame(start)
        last == LastFrame(start, window_samples)
    IN  Window(start, IF first <= last THEN EncodeChromaFrames(FramesOver(samples, first, last))
                      ELSE <<>>)

\* The number of windows whose whole span lies within sample_count samples.
WindowCount(sample_count, window_samples, interval_samples) ==
    IF sample_count < window_samples THEN 0
    ELSE (sample_count - window_samples) \div interval_samples + 1

\* fingerprint_windows, past its argument checks.
FingerprintWindows(samples, window_samples, interval_samples) ==
    LET count == WindowCount(Len(samples), window_samples, interval_samples)
        needed_frames == LastFrame((count - 1) * interval_samples, window_samples) + 1
        frames == ComputeChromaFrames(samples, needed_frames)
        HashesAt(start) ==
            LET first == FirstFrame(start)
                last == LastFrame(start, window_samples)
            IN  IF first <= last
                THEN EncodeChromaFrames(SubSeq(frames, first + 1, last + 1))
                ELSE <<>>
    IN  [k \in 1 .. count |->
            LET start == (k - 1) * interval_samples
            IN  Window(start, HashesAt(start))]
=============================================================================

------------------------ MODULE StreamingFingerprinter ------------------------
(***************************************************************************)
(* StreamingFingerprinter of fingerprint/streaming.rs: samples arrive in    *)
(* chunks, are cut into chroma frames, and every HASH_STRIDE_FRAMES frames  *)
(* a hash is computed over the next HASH_FRAME_COUNT of them.               *)
(*                                                                          *)
(* As in StreamingWindowedFingerprinter, a call of the API is an action     *)
(* that begins it and one action per iteration of its loops, and brings any *)
(* number of target-rate samples.  StreamPipeline instantiates this module  *)
(* and says how many.                                                       *)
(***************************************************************************)
EXTENDS FrameGrid

CONSTANT
    MAX_SAMPLES         \* bound: target-rate samples between two resets

VARIABLES
    resampled,            \* is resampler Some, the source not at the target rate?
    pending,              \* samples awaiting framing
    chroma_frames,        \* frames awaiting hashing
    total_samples_at_target_rate,
    pc,                   \* the loop the current call is in
    offset,               \* process_pending's local
    hashes,               \* what the current call returns, or the last one did
    emitted               \* history: all hashes returned since the last reset

vars == <<resampled, pending, chroma_frames, total_samples_at_target_rate,
          pc, offset, hashes, emitted>>

-----------------------------------------------------------------------------

Init ==
    /\ resampled \in BOOLEAN
    /\ pending = <<>>
    /\ chroma_frames = <<>>
    /\ total_samples_at_target_rate = 0
    /\ pc = "idle"
    /\ offset = 0
    /\ hashes = <<>>
    /\ emitted = <<>>

\* The head of ingest, and of flush when there is a resampler.
Ingest(n) ==
    /\ pc = "idle"
    /\ total_samples_at_target_rate + n <= MAX_SAMPLES
    /\ total_samples_at_target_rate' = total_samples_at_target_rate + n
    /\ pending' = pending \o [i \in 1 .. n |-> total_samples_at_target_rate + i - 1]
    /\ pc' = "process"
    /\ offset' = 0
    /\ hashes' = <<>>
    /\ UNCHANGED <<resampled, chroma_frames, emitted>>

\* push_samples, and push_samples_f32 with at least one channel
PushSamples == \E n \in Nat : Ingest(n)

\* push_samples_f32 with channels = 0
PushNoChannels ==
    /\ pc = "idle"
    /\ hashes' = <<>>
    /\ UNCHANGED <<resampled, pending, chroma_frames, total_samples_at_target_rate,
                   pc, offset, emitted>>

FlushResampler ==
    /\ resampled
    /\ \E n \in Nat : Ingest(n)

FlushPassthrough ==
    /\ ~resampled
    /\ pc = "idle"
    /\ pc' = "emit"
    /\ hashes' = <<>>
    /\ UNCHANGED <<resampled, pending, chroma_frames, total_samples_at_target_rate,
                   offset, emitted>>

Reset ==
    /\ pc = "idle"
    /\ pending' = <<>>
    /\ chroma_frames' = <<>>
    /\ total_samples_at_target_rate' = 0
    /\ hashes' = <<>>
    /\ emitted' = <<>>
    /\ UNCHANGED <<resampled, pc, offset>>

-----------------------------------------------------------------------------

\* process_pending, an iteration of the loop
ProcessFrame ==
    /\ pc = "process"
    /\ offset + FRAME_SIZE <= Len(pending)
    /\ chroma_frames' = Append(chroma_frames, ChromaFrame(pending, offset))
    /\ offset' = offset + HOP_SIZE
    /\ UNCHANGED <<resampled, pending, total_samples_at_target_rate, pc, hashes, emitted>>

\* Fault: the samples under the last frame are drained with it.
DrainPending_WholeFrame ==
    /\ pc = "process"
    /\ offset + FRAME_SIZE > Len(pending)
    /\ pending' = IF offset = 0 THEN pending
                  ELSE SubSeq(pending, offset - HOP_SIZE + FRAME_SIZE + 1, Len(pending))
    /\ pc' = "emit"
    /\ UNCHANGED <<resampled, chroma_frames, total_samples_at_target_rate,
                   offset, hashes, emitted>>

\* process_pending, after the loop: pending.drain(..offset)
DrainPending ==
    /\ pc = "process"
    /\ offset + FRAME_SIZE > Len(pending)
    /\ pending' = SubSeq(pending, offset + 1, Len(pending))
    /\ pc' = "emit"
    /\ UNCHANGED <<resampled, chroma_frames, total_samples_at_target_rate,
                   offset, hashes, emitted>>

\* emit_hashes, an iteration of the loop
EmitHash ==
    /\ pc = "emit"
    /\ Len(chroma_frames) >= HASH_FRAME_COUNT
    /\ hashes' = Append(hashes, ComputeHash(SubSeq(chroma_frames, 1, HASH_FRAME_COUNT)))
    /\ chroma_frames' = SubSeq(chroma_frames, HASH_STRIDE_FRAMES + 1, Len(chroma_frames))
    /\ UNCHANGED <<resampled, pending, total_samples_at_target_rate, pc, offset, emitted>>

FinishEmit ==
    /\ pc = "emit"
    /\ Len(chroma_frames) < HASH_FRAME_COUNT
    /\ pc' = "idle"
    /\ emitted' = emitted \o hashes
    /\ UNCHANGED <<resampled, pending, chroma_frames, total_samples_at_target_rate,
                   offset, hashes>>

-----------------------------------------------------------------------------

Next ==
    \/ PushSamples \/ PushNoChannels \/ FlushResampler \/ FlushPassthrough \/ Reset
    \/ ProcessFrame \/ DrainPending \/ EmitHash \/ FinishEmit

Spec == Init /\ [][Next]_vars

-----------------------------------------------------------------------------

Frame == [1 .. FRAME_SIZE -> Nat]

\* The type invariant.
TypeOK ==
    /\ resampled \in BOOLEAN
    /\ pending \in Seq(Nat)
    /\ chroma_frames \in Seq(Frame)
    /\ total_samples_at_target_rate \in Nat
    /\ pc \in {"idle", "process", "emit"}
    /\ offset \in Nat
    /\ hashes \in Seq(Seq(Frame))
    /\ emitted \in Seq(Seq(Frame))

\* Whatever the chunks, no sample is framed twice or missed and no frame is hashed
\* at two places: the frames kept are those of the grid from the next hash on, the
\* samples kept are those from the next frame on, and between calls less than a
\* hash of the one and less than a frame of the other waits.
FramesInOrder ==
    LET next_frame == Len(emitted \o (IF pc = "idle" THEN <<>> ELSE hashes))
                          * HASH_STRIDE_FRAMES
        start == (next_frame + Len(chroma_frames)) * HOP_SIZE
                     - (IF pc = "process" THEN offset ELSE 0)
    IN  /\ \A k \in 1 .. Len(chroma_frames) :
              chroma_frames[k] = GridFrame(next_frame + k - 1)
        /\ pending = [k \in 1 .. total_samples_at_target_rate - start |-> start + k - 1]
        /\ pc = "idle" => Len(pending) < FRAME_SIZE /\ Len(chroma_frames) < HASH_FRAME_COUNT
=============================================================================

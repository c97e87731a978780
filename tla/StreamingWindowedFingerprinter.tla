-------------------- MODULE StreamingWindowedFingerprinter --------------------
(***************************************************************************)
(* StreamingWindowedFingerprinter of fingerprint/streaming.rs: samples      *)
(* arrive in chunks of any length, are cut into chroma frames on a global   *)
(* grid, and every window whose span has arrived is emitted with the hashes *)
(* of the frames inside it.  The frames no later window needs are dropped.  *)
(*                                                                          *)
(* Each call of the API is an action that starts it, followed by one action *)
(* per iteration of the loops it runs; pc says which loop is running.  A    *)
(* call's samples are already at the target rate: without a resampler they  *)
(* are the call's own mono samples, with one they are the next samples of   *)
(* the resampler's output, as many as StreamResampler releases.             *)
(***************************************************************************)
EXTENDS FrameGrid

CONSTANTS
    WindowSamples,      \* the window lengths new() is called with
    IntervalSamples,    \* the window intervals new() is called with
    MAX_CHUNK,          \* bound: target-rate samples of one call
    MAX_SAMPLES         \* bound: target-rate samples between two resets

ASSUME StreamingWindowedAssumption ==
    /\ WindowSamples \subseteq Nat
    /\ IntervalSamples \subseteq Nat
    /\ MAX_CHUNK \in Nat
    /\ MAX_SAMPLES \in Nat

VARIABLES
    resampled,            \* is resampler Some, the source not at the target rate?
    window_samples,
    interval_samples,
    pending,              \* samples awaiting framing
    frames,               \* retained chroma frames
    first_frame_index,    \* global index of the first retained frame
    next_window_start,
    total_samples_at_target_rate,
    pc,                   \* the loop the current call is in
    offset,               \* process_pending's local
    windows,              \* what the current call returns, or the last one did
    emitted,              \* history: all windows returned since the last reset
    acknowledged          \* history: the total when the last call returned

history == <<emitted, acknowledged>>
shape == <<resampled, window_samples, interval_samples>>
stream == <<pending, frames, first_frame_index, next_window_start,
            total_samples_at_target_rate>>
vars == <<shape, stream, pc, offset, windows, history>>

-----------------------------------------------------------------------------

\* new: a window shorter than a frame and an interval of zero are refused.
Init ==
    /\ resampled \in BOOLEAN
    /\ window_samples \in {w \in WindowSamples : w >= FRAME_SIZE}
    /\ interval_samples \in IntervalSamples \ {0}
    /\ pending = <<>>
    /\ frames = <<>>
    /\ first_frame_index = 0
    /\ next_window_start = 0
    /\ total_samples_at_target_rate = 0
    /\ pc = "idle"
    /\ offset = 0
    /\ windows = <<>>
    /\ emitted = <<>>
    /\ acknowledged = 0

\* The next n samples of the stream.
Arriving(n) == [i \in 1 .. n |-> total_samples_at_target_rate + i - 1]

\* Fault: the vector of returned windows outlives the call.
Ingest_KeepsWindows(n) ==
    /\ pc = "idle"
    /\ total_samples_at_target_rate + n <= MAX_SAMPLES
    /\ total_samples_at_target_rate' = total_samples_at_target_rate + n
    /\ pending' = pending \o Arriving(n)
    /\ pc' = "process"
    /\ offset' = 0
    /\ UNCHANGED <<shape, frames, first_frame_index, next_window_start, windows, history>>

\* The head of ingest, and of flush when there is a resampler: n samples join
\* pending and process_pending begins.
Ingest(n) ==
    /\ pc = "idle"
    /\ total_samples_at_target_rate + n <= MAX_SAMPLES
    /\ total_samples_at_target_rate' = total_samples_at_target_rate + n
    /\ pending' = pending \o Arriving(n)
    /\ pc' = "process"
    /\ offset' = 0
    /\ windows' = <<>>
    /\ UNCHANGED <<shape, frames, first_frame_index, next_window_start, history>>

\* push_samples, and push_samples_f32 with at least one channel
PushSamples == \E n \in 0 .. MAX_CHUNK : Ingest(n)

\* push_samples_f32 with channels = 0 returns before it looks at the samples.
PushNoChannels ==
    /\ pc = "idle"
    /\ windows' = <<>>
    /\ UNCHANGED <<shape, stream, pc, offset, history>>

\* flush with a resampler: its last samples are framed like any others.
FlushResampler ==
    /\ resampled
    /\ \E n \in 0 .. MAX_CHUNK : Ingest(n)

\* flush without a resampler goes straight to emit_windows.
FlushPassthrough ==
    /\ ~resampled
    /\ pc = "idle"
    /\ pc' = "emit"
    /\ windows' = <<>>
    /\ UNCHANGED <<shape, stream, offset, history>>

\* Fault: the grid is reset, the next window is not.
Reset_KeepsWindowStart ==
    /\ pc = "idle"
    /\ pending' = <<>>
    /\ frames' = <<>>
    /\ first_frame_index' = 0
    /\ total_samples_at_target_rate' = 0
    /\ windows' = <<>>
    /\ emitted' = <<>>
    /\ acknowledged' = 0
    /\ UNCHANGED <<shape, next_window_start, pc, offset>>

Reset ==
    /\ pc = "idle"
    /\ pending' = <<>>
    /\ frames' = <<>>
    /\ first_frame_index' = 0
    /\ next_window_start' = 0
    /\ total_samples_at_target_rate' = 0
    /\ windows' = <<>>
    /\ emitted' = <<>>
    /\ acknowledged' = 0
    /\ UNCHANGED <<shape, pc, offset>>

-----------------------------------------------------------------------------

\* process_pending, an iteration of the loop
ProcessFrame ==
    /\ pc = "process"
    /\ offset + FRAME_SIZE <= Len(pending)
    /\ frames' = Append(frames, ChromaFrame(pending, offset))
    /\ offset' = offset + HOP_SIZE
    /\ UNCHANGED <<shape, pending, first_frame_index, next_window_start,
                   total_samples_at_target_rate, pc, windows, history>>

\* Fault: every push starts a new frame, the tail of the last one is lost.
DrainPending_Clear ==
    /\ pc = "process"
    /\ offset + FRAME_SIZE > Len(pending)
    /\ pending' = <<>>
    /\ pc' = "emit"
    /\ UNCHANGED <<shape, frames, first_frame_index, next_window_start,
                   total_samples_at_target_rate, offset, windows, history>>

\* process_pending, after the loop: pending.drain(..offset)
DrainPending ==
    /\ pc = "process"
    /\ offset + FRAME_SIZE > Len(pending)
    /\ pending' = SubSeq(pending, offset + 1, Len(pending))
    /\ pc' = "emit"
    /\ UNCHANGED <<shape, frames, first_frame_index, next_window_start,
                   total_samples_at_target_rate, offset, windows, history>>

\* The condition of emit_windows' loop
WindowComplete ==
    next_window_start + window_samples <= total_samples_at_target_rate

\* The next window holds a frame: a short window between two grid points does not.
WindowHasFrames ==
    FirstFrame(next_window_start) <= LastFrame(next_window_start, window_samples)

\* frames[first - first_frame_index ..= last - first_frame_index] is within
\* frames.  Where it is not, the subtraction or the slice panics and the call
\* takes no further step.
SliceInRange ==
    /\ first_frame_index <= FirstFrame(next_window_start)
    /\ LastFrame(next_window_start, window_samples) - first_frame_index < Len(frames)

EmitWith(hashes) ==
    /\ windows' = Append(windows, Window(next_window_start, hashes))
    /\ next_window_start' = next_window_start + interval_samples
    /\ UNCHANGED <<shape, pending, frames, first_frame_index,
                   total_samples_at_target_rate, pc, offset, history>>

\* Fault: a window without a frame is skipped before the start moves on.
EmitWindow_SkipsEmpty ==
    /\ pc = "emit"
    /\ WindowComplete
    /\ IF WindowHasFrames
       THEN /\ SliceInRange
            /\ EmitWith(EncodeChromaFrames(
                  SubSeq(frames,
                         FirstFrame(next_window_start) - first_frame_index + 1,
                         LastFrame(next_window_start, window_samples)
                             - first_frame_index + 1)))
       ELSE UNCHANGED vars

\* emit_windows, an iteration of the loop
EmitWindow ==
    /\ pc = "emit"
    /\ WindowComplete
    /\ IF WindowHasFrames
       THEN /\ SliceInRange
            /\ EmitWith(EncodeChromaFrames(
                  SubSeq(frames,
                         FirstFrame(next_window_start) - first_frame_index + 1,
                         LastFrame(next_window_start, window_samples)
                             - first_frame_index + 1)))
       ELSE EmitWith(<<>>)

Least(a, b) == IF a < b THEN a ELSE b

\* Fault: rounds past the frame the next window begins with.
Unreachable_RoundsUp ==
    LET needed_first == next_window_start \div HOP_SIZE + 1
    IN  IF needed_first > first_frame_index
        THEN Least(needed_first - first_frame_index, Len(frames)) ELSE 0

\* Fault: frames are dropped only when every one of them is unreachable.
Unreachable_AllOrNone ==
    IF FirstFrame(next_window_start) >= first_frame_index + Len(frames)
    THEN Len(frames) ELSE 0

\* How many frames discard_unreachable_frames drops.
Unreachable ==
    LET needed_first == FirstFrame(next_window_start)
    IN  IF needed_first > first_frame_index
        THEN Least(needed_first - first_frame_index, Len(frames)) ELSE 0

\* emit_windows, after the loop: discard_unreachable_frames, and return
FinishEmit ==
    /\ pc = "emit"
    /\ ~WindowComplete
    /\ frames' = SubSeq(frames, Unreachable + 1, Len(frames))
    /\ first_frame_index' = first_frame_index + Unreachable
    /\ pc' = "idle"
    /\ emitted' = emitted \o windows
    /\ acknowledged' = total_samples_at_target_rate
    /\ UNCHANGED <<shape, pending, next_window_start,
                   total_samples_at_target_rate, offset, windows>>

-----------------------------------------------------------------------------

Call == PushSamples \/ PushNoChannels \/ FlushResampler \/ FlushPassthrough \/ Reset
Step == ProcessFrame \/ DrainPending \/ EmitWindow \/ FinishEmit
Next == Call \/ Step

\* A call that has begun runs on: nothing in it waits.  A caller need not call.
Spec == Init /\ [][Next]_vars /\ WF_vars(Step)

-----------------------------------------------------------------------------

Frame == [1 .. FRAME_SIZE -> Nat]
WindowType == [start : Nat, hashes : Seq(Seq(Frame))]

\* The type invariant.  Every frame is complete: the loop of process_pending
\* transforms FRAME_SIZE samples, never a shorter tail.
TypeOK ==
    /\ resampled \in BOOLEAN
    /\ window_samples \in Nat /\ window_samples >= FRAME_SIZE
    /\ interval_samples \in Nat \ {0}
    /\ pending \in Seq(Nat)
    /\ frames \in Seq(Frame)
    /\ first_frame_index \in Nat
    /\ next_window_start \in Nat
    /\ total_samples_at_target_rate \in 0 .. MAX_SAMPLES
    /\ pc \in {"idle", "process", "emit"}
    /\ offset \in Nat
    /\ windows \in Seq(WindowType)
    /\ emitted \in Seq(WindowType)
    /\ acknowledged \in 0 .. total_samples_at_target_rate

\* The global index of pending[0], as the field's comment gives it; the loop of
\* process_pending is offset samples ahead of it.
PendingStart ==
    (first_frame_index + Len(frames)) * HOP_SIZE - (IF pc = "process" THEN offset ELSE 0)

\* The comments on pending and frames: frames[0] is the frame first_frame_index
\* of the grid, those after it follow without a gap, and pending holds exactly
\* the samples from the next frame's start to the last one received, whatever
\* the chunks, the discards and the resets before.
FramesOnGrid ==
    /\ \A k \in 1 .. Len(frames) : frames[k] = GridFrame(first_frame_index + k - 1)
    /\ \A k \in 1 .. Len(pending) : pending[k] = PendingStart + k - 1
    /\ PendingStart + Len(pending) = total_samples_at_target_rate

\* "Every needed frame exists": emit_windows never underflows the subtraction
\* of first_frame_index and never slices past the retained frames.
SliceNeverOutOfRange ==
    pc = "emit" /\ WindowComplete /\ WindowHasFrames => SliceInRange

\* "One-shot and streaming windows agree for identical input": when a call has
\* returned, the windows returned since the last reset are those that
\* fingerprint_windows cuts from all the samples received since then.
StreamMatchesOneShot ==
    pc = "idle" =>
        emitted = FingerprintWindows(StreamSamples(total_samples_at_target_rate),
                                     window_samples, interval_samples)

\* What a stream keeps between calls is bounded by its window, however much it
\* has received: less than a frame of samples and the frames of one window.
BufferBounded ==
    pc = "idle" =>
        /\ Len(pending) < FRAME_SIZE
        /\ Len(frames) <= DivCeil(window_samples - FRAME_SIZE, HOP_SIZE)

\* The abstract stream: what the caller has handed over and received.
Abstract == INSTANCE WindowStream WITH received <- acknowledged, delivered <- emitted

\* A call delivers the windows its samples complete, all of them and once each,
\* at the moment it returns.
ImplementsWindowStream == Abstract!Spec

(***************************************************************************)
(* Why the invariants hold: the strengthening that every step preserves.    *)
(***************************************************************************)

\* The global index of the next frame
NextFrame == first_frame_index + Len(frames)

\* Every complete frame of the samples received has been computed, once
\* process_pending is through.
FramesComplete ==
    /\ NextFrame <= CompleteFrameCount(total_samples_at_target_rate)
    /\ pc # "process" => NextFrame = CompleteFrameCount(total_samples_at_target_rate)

\* The windows returned since the last reset and those the current call will return
Returned == IF pc = "idle" THEN emitted ELSE emitted \o windows

\* They are the windows of the grid from the first on, and the next one follows.
WindowsInOrder ==
    /\ next_window_start = Len(Returned) * interval_samples
    /\ \A k \in 1 .. Len(Returned) :
          /\ Returned[k] = GridWindow((k - 1) * interval_samples, window_samples)
          /\ (k - 1) * interval_samples + window_samples <= total_samples_at_target_rate

\* No frame the next window needs has been dropped, and between calls no other
\* frame is kept.
FramesNeeded ==
    /\ first_frame_index <= FirstFrame(next_window_start)
    /\ pc = "idle" /\ frames # <<>> => first_frame_index = FirstFrame(next_window_start)

\* Between calls no complete window is held back.
CallComplete ==
    pc = "idle" => ~WindowComplete /\ acknowledged = total_samples_at_target_rate

IInv ==
    /\ TypeOK
    /\ FramesOnGrid
    /\ FramesComplete
    /\ WindowsInOrder
    /\ FramesNeeded
    /\ CallComplete

\* Every call returns: the loops of process_pending and emit_windows end.
CallsReturn == (pc # "idle") ~> (pc = "idle")
=============================================================================

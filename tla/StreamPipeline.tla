----------------------------- MODULE StreamPipeline -----------------------------
(***************************************************************************)
(* A StreamingFingerprinter as its caller has it: interleaved samples are   *)
(* downmixed to mono, resampled to the target rate by a StreamResampler     *)
(* unless they are at it, framed and hashed.                                *)
(*                                                                          *)
(* The two components are instances that share the variables below.  A call *)
(* runs the resampler's loop and hands what it returns to the framing in    *)
(* the step in which it returns.                                            *)
(***************************************************************************)
EXTENDS FrameGrid

CONSTANTS
    Kernels,            \* the kernels of the source rates new() is called with
    Channels,           \* the channel counts of new() and of push_samples_f32
    MILLISECONDS,       \* in a second (1000)
    MAX_MS,             \* u32::MAX
    MAX_PUSH,           \* bound: interleaved samples of one push
    MAX_SOURCE,         \* bound: mono samples between two resets, to resample
    MAX_SAMPLES,        \* bound: target-rate samples between two resets
    MAX_FLUSHES         \* bound: flushes with a resampler between two resets

VARIABLES
    \* the resampler; where source and target rate are equal there is none
    kernel, history, history_start, next_output, resampling,
    output, source, released, flushes,
    \* the framing
    resampled, pending, chroma_frames, total_samples_at_target_rate,
    pc, offset, hashes, emitted,
    \* the stream
    channels,
    whole,              \* history: was no frame of channels samples cut by two pushes?
    interleaved         \* history: if so, the samples pushed since the last reset

resampler == <<kernel, history, history_start, next_output, resampling,
               output, source, released, flushes>>
framing == <<resampled, pending, chroma_frames, total_samples_at_target_rate,
             pc, offset, hashes, emitted>>
pushes == <<whole, interleaved>>
vars == <<resampler, framing, channels, pushes>>

R == INSTANCE StreamResampler WITH pc <- resampling, MAX_CHUNK <- MAX_PUSH
F == INSTANCE StreamingFingerprinter

ASSUME StreamPipelineAssumption ==
    /\ Kernels \subseteq R!Kernel
    /\ \A k \in Kernels : k.source_rate <= k.half_width * k.target_rate
    /\ Channels \subseteq Nat
    /\ MILLISECONDS \in Nat \ {0} /\ MAX_MS \in Nat
    /\ MAX_PUSH \in Nat /\ MAX_SOURCE \in Nat /\ MAX_SAMPLES \in Nat /\ MAX_FLUSHES \in Nat

-----------------------------------------------------------------------------

\* new, with stream_resampler_for: no resampler at the target rate, and no
\* stream without channels.
Init ==
    /\ R!Init
    /\ F!Init
    /\ resampled = (kernel.source_rate # kernel.target_rate)
    /\ channels \in Channels \ {0}
    /\ whole = TRUE
    /\ interleaved = 0

Idle == resampling = "idle" /\ pc = "idle"

\* Fault: the samples of an incomplete frame are taken for one.
MonoFrames_RoundsUp(n, c) == DivCeil(n, c)

\* downmix_to_mono and downmix_i16_to_mono: the mono samples made of n
\* interleaved ones.  Those of an incomplete frame at the end are dropped.
MonoFrames(n, c) == n \div c

\* The head of ingest
Ingest(mono) ==
    /\ Idle
    /\ IF resampled THEN R!Push(mono) /\ UNCHANGED framing
                    ELSE F!Ingest(mono) /\ UNCHANGED resampler

Push(n, c) ==
    /\ Ingest(MonoFrames(n, c))
    /\ whole' = (whole /\ (n = 0 \/ (c = channels /\ interleaved % channels = 0)))
    /\ interleaved' = IF whole' THEN interleaved + n ELSE 0
    /\ UNCHANGED channels

\* push_samples_f32, and with its channels equal to the stream's push_samples
PushSamples == \E n \in 0 .. MAX_PUSH, c \in Channels \ {0} : Push(n, c)

\* push_samples_f32 with channels = 0
PushNoChannels ==
    /\ Idle
    /\ 0 \in Channels
    /\ F!PushNoChannels
    /\ UNCHANGED <<resampler, channels, pushes>>

Flush ==
    /\ Idle
    /\ IF resampled THEN R!Flush /\ UNCHANGED framing
                    ELSE F!FlushPassthrough /\ UNCHANGED resampler
    /\ UNCHANGED <<channels, pushes>>

ResetResampler == IF resampled THEN R!Reset ELSE UNCHANGED resampler

Reset ==
    /\ Idle
    /\ ResetResampler
    /\ F!Reset
    /\ whole' = TRUE
    /\ interleaved' = 0
    /\ UNCHANGED channels

-----------------------------------------------------------------------------

\* An output of the resampler's push or flush
Resample ==
    /\ R!PushOutput \/ R!FlushOutput
    /\ UNCHANGED <<framing, channels, pushes>>

\* The resampler returns, and its output joins pending.
Release ==
    /\ R!FinishPush \/ R!FinishFlush
    /\ F!Ingest(Len(output))
    /\ UNCHANGED <<channels, pushes>>

\* Framing and hashing, to the return of the call
Hash ==
    /\ F!ProcessFrame \/ F!DrainPending \/ F!EmitHash \/ F!FinishEmit
    /\ UNCHANGED <<resampler, channels, pushes>>

Next ==
    \/ PushSamples \/ PushNoChannels \/ Flush \/ Reset
    \/ Resample \/ Release \/ Hash

Spec == Init /\ [][Next]_vars

-----------------------------------------------------------------------------

\* The type invariant.
TypeOK ==
    /\ R!TypeOK
    /\ F!TypeOK
    /\ channels \in Nat \ {0}
    /\ whole \in BOOLEAN
    /\ interleaved \in Nat
    /\ resampling # "idle" => pc = "idle" /\ resampled

\* What is kept between two calls of a stream is the gapless end of what arrived,
\* see StreamingFingerprinter.
FramesInOrder == F!FramesInOrder

\* The mono samples of the stream, by its pushes or by what came of them
Mono ==
    IF whole THEN interleaved \div channels
    ELSE IF resampled THEN source ELSE total_samples_at_target_rate

\* resample_to_mono of as many source samples
OneShotSamples(mono) == IF resampled THEN R!ResampleToMono(mono) ELSE StreamSamples(mono)

\* The target-rate samples the framing has received
ArrivedSamples ==
    IF resampled THEN released ELSE StreamSamples(total_samples_at_target_rate)

\* The hashes returned, over the samples that stand at the positions they name
EmittedHashes ==
    [h \in 1 .. Len(emitted) |->
        [f \in 1 .. Len(emitted[h]) |->
            [i \in 1 .. FRAME_SIZE |-> ArrivedSamples[emitted[h][f][i] + 1]]]]

\* The one-shot hashes of samples, short of the terminal one where the last
\* possible start is not aligned to the stride.
AlignedHashes(samples) ==
    LET one_shot == FingerprintSamples(samples)
        frame_count == CompleteFrameCount(Len(samples))
        aligned == frame_count >= HASH_FRAME_COUNT
                      => (frame_count - HASH_FRAME_COUNT) % HASH_STRIDE_FRAMES = 0
    IN  IF aligned THEN one_shot ELSE SubSeq(one_shot, 1, Len(one_shot) - 1)

\* "Chunk boundaries do not affect the produced hashes", which docs/implementation.md
\* makes precise: the streaming path "emits stride-aligned hashes as data arrives;
\* the one-shot encoder can add an extra terminal hash".  When a call has
\* returned, the hashes since the last reset are those of the one-shot path over
\* the target-rate samples so far; those samples are the beginning of the one-shot
\* resampling of the caller's audio, and all of it once the stream is flushed.
\* The caller's audio is every frame pushed, as long as no two pushes cut one; the
\* incomplete frame at its end is nobody's.
HashesMatchOneShot ==
    Idle =>
        LET one_shot == OneShotSamples(Mono)
        IN  /\ EmittedHashes = AlignedHashes(ArrivedSamples)
            /\ flushes = <<>> =>
                  /\ Len(ArrivedSamples) <= Len(one_shot)
                  /\ ArrivedSamples = SubSeq(one_shot, 1, Len(ArrivedSamples))
            /\ ~resampled \/ (Len(flushes) = 1 /\ flushes[1].at = source) =>
                  ArrivedSamples = one_shot

-----------------------------------------------------------------------------

\* Fault: the remainder of the division is cut off.
DurationMs_Truncated(samples) ==
    LET ms == (samples * MILLISECONDS) \div kernel.target_rate
    IN  IF ms < MAX_MS THEN ms ELSE MAX_MS

\* duration_ms_for_samples: rounded to the nearest millisecond, at most u32::MAX
DurationMs(samples) ==
    LET ms == (samples * MILLISECONDS + kernel.target_rate \div 2) \div kernel.target_rate
    IN  IF ms < MAX_MS THEN ms ELSE MAX_MS

duration_ms == DurationMs(total_samples_at_target_rate)

\* Source samples that may have arrived and are not yet in the duration: those
\* under the right half of the next output's filter, or after a flush those that
\* do not make a whole output.  In units of 1 / target_rate.
Withheld ==
    IF ~resampled THEN 0
    ELSE IF flushes # <<>> /\ flushes[Len(flushes)].at = source THEN kernel.source_rate
    ELSE (kernel.half_width + 1) * kernel.target_rate

\* The duration reported between two calls is that of the audio pushed, to half a
\* millisecond: never more, and less by no more than what the filter withholds.
\* It sticks at its maximum, it does not wrap.
DurationTracksSource ==
    LET rate == kernel.source_rate
        played == 2 * Mono * MILLISECONDS
    IN  Idle =>
          /\ 2 * duration_ms * rate <= played + rate
          /\ duration_ms < MAX_MS =>
                (2 * duration_ms * rate + rate) * kernel.target_rate
                    >= played * kernel.target_rate - 2 * Withheld * MILLISECONDS

\* The doc comments of pushSamples and pushSamplesF32 in Sources/Fingerprint, and
\* README.md: durationMs() "always advances when samples are actually ingested", so
\* that it tells a stream that warms up from one whose input is ignored.  Then it
\* is past zero as soon as whole frames have been pushed.
DurationAdvances ==
    Idle /\ whole /\ Mono > 0 => duration_ms > 0
=============================================================================

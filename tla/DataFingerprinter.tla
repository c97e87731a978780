--------------------------- MODULE DataFingerprinter ---------------------------
(***************************************************************************)
(* Fingerprinter::fingerprint_data_windowed (fingerprint/mod.rs): one call, *)
(* from the bytes of a file to the windows of its audio.  The decoder runs  *)
(* first; the shape of what it returns is checked, the samples are brought  *)
(* to the target rate and cut into windows.                                 *)
(***************************************************************************)
EXTENDS AudioDecoder, FrameGrid

CONSTANTS
    Durations,              \* window durations and intervals, in milliseconds
    MILLISECONDS,           \* in a second (1000)
    TARGET_SAMPLE_RATE,
    MAX_SAMPLE_RATE

ASSUME DataFingerprinterAssumption ==
    /\ Durations \subseteq Nat
    /\ MILLISECONDS \in Nat \ {0}
    /\ TARGET_SAMPLE_RATE \in Nat \ {0} /\ MAX_SAMPLE_RATE \in Nat

VARIABLES
    asked,          \* the durations of the call, once they are looked at
    error,          \* what the call failed with, or "none"
    windows         \* what it returned, a sequence of at most one list of windows

call == <<asked, error, windows>>

CallInit ==
    /\ Init
    /\ asked = [window_ms |-> 0, interval_ms |-> 0]
    /\ error = "none"
    /\ windows = <<>>

\* decode_audio_bytes
Decode == Next /\ UNCHANGED call

\* samples_for_milliseconds
SamplesForMilliseconds(ms) == (ms * TARGET_SAMPLE_RATE) \div MILLISECONDS

\* validate_audio_shape
ValidShape == spec.rate \in 1 .. MAX_SAMPLE_RATE /\ spec.channels > 0

\* Fault: the interleaved samples are framed as they are.
MonoSamples_Interleaved(interleaved, channels) ==
    [k \in 1 .. Len(interleaved) |-> <<interleaved[k]>>]

\* downmix_to_mono: a mono sample is the interleaved ones it averages.
MonoSamples(interleaved, channels) ==
    [k \in 1 .. Len(interleaved) \div channels |->
        SubSeq(interleaved, (k - 1) * channels + 1, k * channels)]

\* resample_to_mono: a resampled value is its index and what it was made from.
\* Of the quotients by a power of two, which are exact in f64; StreamResampler
\* has the others.
ResampleToMono(interleaved, rate, channels) ==
    LET mono == MonoSamples(interleaved, channels)
    IN  IF rate = TARGET_SAMPLE_RATE THEN mono
        ELSE [k \in 1 .. (Len(mono) * TARGET_SAMPLE_RATE) \div rate |->
                 [output |-> k - 1, source |-> mono]]

\* fingerprint_windows checks its arguments when the audio is decoded.
ValidWindow(durations) ==
    /\ SamplesForMilliseconds(durations.window_ms) >= FRAME_SIZE
    /\ SamplesForMilliseconds(durations.interval_ms) > 0

WindowsOf(target_samples, durations) ==
    FingerprintWindows(target_samples, SamplesForMilliseconds(durations.window_ms),
                       SamplesForMilliseconds(durations.interval_ms))

\* The rest of fingerprint_data_windowed
Fingerprint ==
    /\ pc = "done" /\ error = "none" /\ windows = <<>>
    /\ asked' \in [window_ms : Durations, interval_ms : Durations]
    /\ IF result # "ok" THEN error' = result /\ UNCHANGED windows
       ELSE IF ~ValidShape \/ ~ValidWindow(asked')
       THEN error' = "invalid" /\ UNCHANGED windows
       ELSE /\ windows' = <<WindowsOf(ResampleToMono(samples, spec.rate, spec.channels),
                                      asked')>>
            /\ UNCHANGED error
    /\ UNCHANGED vars

CallNext == Decode \/ Fingerprint

\* The call runs on its caller's thread and waits for nobody.
CallSpec == CallInit /\ [][CallNext]_<<vars, call>> /\ WF_<<vars, call>>(CallNext)

-----------------------------------------------------------------------------

Answered == error # "none" \/ windows # <<>>

\* A file of one fmt chunk that can be played and one data chunk, in any order,
\* among other chunks and after any tags
PlainWave ==
    /\ file.container = "wave" /\ file.cut = 0
    /\ \E f, d \in DOMAIN file.chunks :
          /\ LastOf("fmt", Len(file.chunks)) = {f} /\ LastOf("data", Len(file.chunks)) = {d}
          /\ \A k \in DOMAIN file.chunks : k = f \/ file.chunks[k].id # "fmt"
          /\ file.chunks[f].size >= 16 /\ file.chunks[f].channels > 0
          /\ <<file.chunks[f].format, file.chunks[f].bits>> \in Supported

\* docs/implementation.md on the one-shot path: it decodes, validates the shape,
\* resamples and windows.  From the file as it was written: a playable WAVE file
\* of an acceptable rate gives every window whose whole span lies in its audio and
\* no other, each hashed over the samples that stand there, which are the bytes of
\* the file or, at another rate, all that can be resampled from them; a file that
\* cannot be decoded fails with the decoder's error whatever the durations, and of
\* one that can an unusable rate or duration is an invalid input, never an empty
\* answer.
AnswerFollowsFile ==
    Answered =>
        /\ PlainWave =>
              \E f \in LastOf("fmt", Len(file.chunks)), d \in LastOf("data", Len(file.chunks)) :
                  LET format == file.chunks[f]
                      sample_bytes == format.bits \div 8
                      frame_bytes == format.channels * sample_bytes
                      written ==
                          [i \in 1 .. file.chunks[d].size \div frame_bytes |->
                              [c \in 1 .. format.channels |->
                                  ChunkPosition(d) + ChunkHeader
                                      + (i - 1) * frame_bytes + (c - 1) * sample_bytes]]
                      recording ==
                          IF format.rate = TARGET_SAMPLE_RATE THEN written
                          ELSE [k \in 1 .. (Len(written) * TARGET_SAMPLE_RATE) \div format.rate |->
                                   [output |-> k - 1, source |-> written]]
                      window_samples == SamplesForMilliseconds(asked.window_ms)
                      interval_samples == SamplesForMilliseconds(asked.interval_ms)
                  IN  IF format.rate \notin 1 .. MAX_SAMPLE_RATE \/ ~ValidWindow(asked)
                      THEN error = "invalid"
                      ELSE /\ error = "none"
                           /\ windows =
                                 <<[k \in 1 .. WindowCount(Len(recording), window_samples,
                                                          interval_samples) |->
                                       WindowOver(recording, (k - 1) * interval_samples,
                                                  window_samples)]>>
        /\ result # "ok" => error = result
=============================================================================

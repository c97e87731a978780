---------------------------- MODULE StreamResampler ----------------------------
(***************************************************************************)
(* StreamResampler of audio/resampler.rs and the polyphase kernel under it. *)
(* A source sample is known by its position in the source stream and an     *)
(* output value by its index and by what each tap of the filter read; the   *)
(* coefficients follow from the index alone, so equal values here are equal *)
(* bits in the code.                                                        *)
(*                                                                          *)
(* push and flush are an action that begins the call, one action per output *)
(* of its loop, and an action that returns.                                 *)
(***************************************************************************)
EXTENDS Integers, Sequences

CONSTANTS
    Kernels,        \* the kernels new() builds, see Kernel
    MAX_CHUNK,      \* bound: source samples of one push
    MAX_SOURCE,     \* bound: source samples between two resets
    MAX_FLUSHES     \* bound: flushes between two resets

(***************************************************************************)
(* A kernel has a ratio source_rate / target_rate and a half_width, which   *)
(* the code makes at least 6.6 ratios wide.  n * ratio and n / ratio are    *)
(* computed in f64 and floored: where the exact result is an integer the    *)
(* computed one may fall just under it, and short_positions and             *)
(* short_lengths are the integers n for which it does.                      *)
(***************************************************************************)
Kernel == [source_rate : Nat \ {0}, target_rate : Nat \ {0}, half_width : Nat \ {0},
           short_positions : SUBSET Nat, short_lengths : SUBSET Nat]

ASSUME StreamResamplerAssumption ==
    /\ Kernels \subseteq Kernel
    /\ \A k \in Kernels : k.source_rate <= k.half_width * k.target_rate
    /\ MAX_CHUNK \in Nat /\ MAX_SOURCE \in Nat /\ MAX_FLUSHES \in Nat

VARIABLES
    kernel,
    history,          \* source samples not yet consumed
    history_start,    \* the position of the first of them
    next_output,
    pc,
    output,           \* what the current call returns, or the last one did
    source,           \* history: source samples pushed since the last reset
    released,         \* history: the output of the calls that returned since then
    flushes           \* history: the flushes since then, see FinishFlush

buffer == <<kernel, history, history_start, next_output>>
past == <<source, released, flushes>>
vars == <<buffer, pc, output, past>>

-----------------------------------------------------------------------------

ZERO == -1          \* what a tap outside the source reads

\* The source samples at positions 0 .. n - 1.
SourceSamples(n) == [i \in 1 .. n |-> i - 1]

\* floor(x / y) as the code computes it: one short of an exact quotient when
\* the f64 result fell under it.
FloorF64(x, y, short) ==
    x \div y - (IF short /\ x % y = 0 /\ x > 0 THEN 1 ELSE 0)

\* (output as f64 * ratio).floor()
Position(n) ==
    FloorF64(n * kernel.source_rate, kernel.target_rate, n \in kernel.short_positions)

\* output_len
OutputLen(frame_count) ==
    FloorF64(frame_count * kernel.target_rate, kernel.source_rate,
             frame_count \in kernel.short_lengths)

LastSourceIndex(n) == Position(n) + kernel.half_width + 1
FirstSourceIndex(n) == Position(n) - kernel.half_width

Taps == 0 .. 2 * kernel.half_width + 1

\* sample_at: what each tap of output n reads from samples, whose first element
\* is at position source_start.
SampleAt(samples, n, source_start) ==
    LET first == FirstSourceIndex(n) - source_start
    IN  [index |-> n,
         reads |-> [tap \in Taps |-> IF first + tap \in 0 .. Len(samples) - 1
                                     THEN samples[first + tap + 1] ELSE ZERO]]

\* resample_to_mono of frame_count mono samples
ResampleToMono(frame_count) ==
    [k \in 1 .. OutputLen(frame_count) |->
        SampleAt(SourceSamples(frame_count), k - 1, 0)]

-----------------------------------------------------------------------------

Init ==
    /\ kernel \in Kernels
    /\ history = <<>>
    /\ history_start = 0
    /\ next_output = 0
    /\ pc = "idle"
    /\ output = <<>>
    /\ source = 0
    /\ released = <<>>
    /\ flushes = <<>>

\* The position after the last sample held: history_start + history.len()
Total == history_start + Len(history)

Push(n) ==
    /\ pc = "idle"
    /\ source + n <= MAX_SOURCE
    /\ history' = history \o [i \in 1 .. n |-> source + i - 1]
    /\ source' = source + n
    /\ pc' = "push"
    /\ output' = <<>>
    /\ UNCHANGED <<kernel, history_start, next_output, released, flushes>>

\* An output of either loop
Emit ==
    /\ output' = Append(output, SampleAt(history, next_output, history_start))
    /\ next_output' = next_output + 1
    /\ UNCHANGED <<kernel, history, history_start, pc, past>>

\* Fault: an output is made while its last tap is still missing.
PushOutput_OneTapEarly ==
    /\ pc = "push"
    /\ LastSourceIndex(next_output) <= Total
    /\ Emit

\* push, an iteration of the loop: the output's last tap has arrived.
PushOutput ==
    /\ pc = "push"
    /\ LastSourceIndex(next_output) < Total
    /\ Emit

\* Fault: the samples left of the next output's center are dropped too.
Consumed_DropsLeftContext ==
    LET surplus == Position(next_output) - history_start
    IN  IF surplus <= 0 THEN 0
        ELSE IF surplus < Len(history) THEN surplus ELSE Len(history)

\* The samples before the next output's first tap are dropped.
Consumed ==
    LET first == FirstSourceIndex(next_output)
        keep_from == IF first > 0 THEN first ELSE 0
        surplus == keep_from - history_start
    IN  IF surplus <= 0 THEN 0
        ELSE IF surplus < Len(history) THEN surplus ELSE Len(history)

FinishPush ==
    /\ pc = "push"
    /\ LastSourceIndex(next_output) >= Total
    /\ history' = SubSeq(history, Consumed + 1, Len(history))
    /\ history_start' = history_start + Consumed
    /\ pc' = "idle"
    /\ released' = released \o output
    /\ UNCHANGED <<kernel, next_output, output, source, flushes>>

Flush ==
    /\ pc = "idle"
    /\ Len(flushes) < MAX_FLUSHES
    /\ pc' = "flush"
    /\ output' = <<>>
    /\ UNCHANGED <<buffer, past>>

\* flush, an iteration of the loop: no context is waited for.
FlushOutput ==
    /\ pc = "flush"
    /\ next_output < OutputLen(Total)
    /\ Emit

\* Fault: the history is cleared and its start stays.
FinishFlush_KeepsStart ==
    /\ pc = "flush"
    /\ next_output >= OutputLen(Total)
    /\ history' = <<>>
    /\ pc' = "idle"
    /\ released' = released \o output
    /\ flushes' = Append(flushes, [at |-> source, from |-> Len(released),
                                   upto |-> Len(released) + Len(output)])
    /\ UNCHANGED <<kernel, history_start, next_output, output, source>>

\* flush forgets the source so far: output from here on sees zeros before Total.
FinishFlush ==
    /\ pc = "flush"
    /\ next_output >= OutputLen(Total)
    /\ history' = <<>>
    /\ history_start' = Total
    /\ pc' = "idle"
    /\ released' = released \o output
    /\ flushes' = Append(flushes, [at |-> source, from |-> Len(released),
                                   upto |-> Len(released) + Len(output)])
    /\ UNCHANGED <<kernel, next_output, output, source>>

\* Fault: the history is cleared and its start stays.
Reset_KeepsStart ==
    /\ pc = "idle"
    /\ history' = <<>>
    /\ next_output' = 0
    /\ output' = <<>>
    /\ source' = 0
    /\ released' = <<>>
    /\ flushes' = <<>>
    /\ UNCHANGED <<kernel, history_start, pc>>

Reset ==
    /\ pc = "idle"
    /\ history' = <<>>
    /\ history_start' = 0
    /\ next_output' = 0
    /\ output' = <<>>
    /\ source' = 0
    /\ released' = <<>>
    /\ flushes' = <<>>
    /\ UNCHANGED <<kernel, pc>>

-----------------------------------------------------------------------------

Next ==
    \/ \E n \in 0 .. MAX_CHUNK : Push(n)
    \/ PushOutput \/ FinishPush
    \/ Flush \/ FlushOutput \/ FinishFlush
    \/ Reset

Spec == Init /\ [][Next]_vars

-----------------------------------------------------------------------------

Value == [index : Nat, reads : [Taps -> Nat \cup {ZERO}]]

\* The type invariant.
TypeOK ==
    /\ kernel \in Kernels
    /\ history \in Seq(Nat)
    /\ history_start \in 0 .. source
    /\ next_output \in Nat
    /\ pc \in {"idle", "push", "flush"}
    /\ output \in Seq(Value)
    /\ source \in 0 .. MAX_SOURCE
    /\ released \in Seq(Value)
    /\ flushes \in Seq([at : Nat, from : Nat, upto : Nat])

\* The comment on history: history[0] is at position history_start, the rest
\* follows without a gap, up to the last sample pushed; between calls it is
\* shorter than a filter is wide.
HistoryAligned ==
    /\ \A k \in 1 .. Len(history) : history[k] = history_start + k - 1
    /\ Total = source
    /\ pc = "idle" => Len(history) <= 2 * kernel.half_width + 1

\* The values of the current call among those already returned
AllReleased == IF pc = "idle" THEN released ELSE released \o output

\* What tap reads for output n: its own source sample, but nothing from beyond
\* the flush that released the output and nothing from before a flush it follows.
ContextOf(n, tap) ==
    LET a == FirstSourceIndex(n) + tap
    IN  IF /\ a \in 0 .. source - 1
           /\ \A f \in 1 .. Len(flushes) :
                 IF n < flushes[f].upto THEN a < flushes[f].at ELSE a >= flushes[f].at
        THEN a ELSE ZERO

\* Outputs are released in order, none twice and none left out, and each reads
\* every source sample under its filter that lies between the flushes around it:
\* no chunk boundary and no discard costs an output any of its context.
ReadsBetweenFlushes ==
    \A k \in 1 .. Len(AllReleased) :
        /\ AllReleased[k].index = k - 1
        /\ \A tap \in Taps : AllReleased[k].reads[tap] = ContextOf(k - 1, tap)

\* "A signal streamed in arbitrary chunk sizes resamples to the same values as
\* the same signal resampled in one shot once flush is called": until the first
\* flush what was released is a prefix of the one-shot output, and that flush
\* releases the rest.  However often a stream is flushed, it is never longer than
\* the one-shot output of its source, and as long when a flush returns.
StreamMatchesOneShot ==
    /\ Len(AllReleased) <= OutputLen(source)
    /\ flushes = <<>> =>
          \A k \in 1 .. Len(AllReleased) :
              AllReleased[k] = ResampleToMono(source)[k]
    /\ pc = "idle" /\ flushes # <<>> /\ flushes[Len(flushes)].at = source =>
          /\ Len(released) = OutputLen(source)
          /\ Len(flushes) = 1 => released = ResampleToMono(source)

\* The doc comment of flush() in Sources/Fingerprint: it "does not finalize the
\* stream; pushing more samples afterwards continues where the stream left off".
\* Were it so, what push releases after a flush would be what it releases for
\* the same source without one.
PushAfterFlushContinues ==
    \A k \in 1 .. Len(released) :
        (\A f \in 1 .. Len(flushes) : k > flushes[f].upto)
            => released[k] = SampleAt(SourceSamples(source), k - 1, 0)
=============================================================================

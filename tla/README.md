# A TLA+ model of the Fingerprint package

The repository is an audio-fingerprinting library: a Rust core that decodes,
resamples and hashes audio and compares the hashes, a C interface, and a Swift
package on top. This directory holds TLA+ modules translated from its source,
the TLC configurations that check them on small instances, and theorems checked
by TLAPS about all of the state machines. `PROJECT.json` ties every definition to the
lines it models, every property to the run that checks it and to a faulty
variant of the code that it catches, and lists the hazards the properties are
for.

## 1. Inventory

Paths are below `rust/crates/` unless they say otherwise.

| Component | State | Operations | Talks to |
|---|---|---|---|
| Audio decoder, `fingerprint-core/src/audio/{decoder,wav}.rs` | none beyond one call | `decode_audio_bytes`: skip ID3v2 tags, scan WAVE chunks, or loop over MPEG packets (Symphonia) | called by `fingerprint_data_windowed` |
| Resampler, `audio/resampler.rs` | `history`, `history_start`, `next_output` | `push`, `flush`, `reset`; one-shot `resample_to_mono`; downmix | its output feeds both streams |
| Frame grid and encoder, `fingerprint/{mod,encoder}.rs` | none | `fingerprint_windows`, `fingerprint_samples`, `fingerprint_data_windowed`, `encode_chroma_frames`, `compute_hash` | the reference the streams must agree with |
| FFT and chroma, `fingerprint/{fft,chroma}.rs` | scratch buffers, overwritten by each frame | `process_to_chroma` | called per frame, by rayon's workers with the `parallel` feature |
| `StreamingFingerprinter`, `fingerprint/streaming.rs` | `pending`, `chroma_frames`, a sample count | `push_samples(_f32)`, `flush`, `reset`, `duration_ms` | resampler, encoder |
| `StreamingWindowedFingerprinter`, same file | `pending`, `frames`, `first_frame_index`, `next_window_start`, a sample count | the same | resampler, encoder |
| Fingerprint bytes, `lib.rs` | none | `fingerprint_to_bytes`, `fingerprint_from_bytes` | what an application stores and loads |
| Hash comparison, `matching.rs` | none | `compare_hashes`, `compare_hashes_with_drift(_detailed)` | used by the matcher |
| `CheckpointMatcher`, `matching.rs` | `checkpoints`, `max_drift` | `add`, `clear`, `set_drift`, `find_top_matches` | drift search |
| C interface, `fingerprint-ffi/src/lib.rs` | per handle a `Box<Mutex<T>>`; buffers forgotten for the caller | entry points of three classes and of the functions without an object, `ffi_guard`, `lock_recover`, `*_free` | Swift below the ABI, core above |
| Swift wrapper, `Sources/Fingerprint` | one raw handle per object | methods, `deinit`, `take*` helpers | C interface; several threads may share an object |
| Release workflow, `.github/workflows/fingerprint-release.yml`, `docs/release.md` | a tag, a GitHub Release and its asset | build, tag, publish, wait, consume; withdraw | packages that resolve the tag |
| Scripts, CI, fuzz targets, benchmarks, tests | files | build, verify | |

What is hard in it, and what makes each part correct:

* **Chunking.** The streams and the resampler receive a signal in pieces of any
  size, keep what they need of it and drop the rest. Correct means: the caller
  cannot tell from the output how the signal was cut, the output is that of the
  one-shot path, nothing is dropped that a later output needs, and what is kept
  stays bounded. Flushes and resets may come at any time.
* **Two implementations of one thing.** One-shot and streaming paths compute
  the same windows and the same resampled values by different arithmetic.
* **Composition.** A sample passes the downmix, the filter's history and the
  pending frame before it counts; what each part withholds shows in the duration.
* **Sharing and failure in the C interface.** Threads share a handle; a panic
  in the middle of an operation unwinds through the lock; the next caller
  recovers the poisoned value; buffers cross the boundary by hand.
* **Ties.** An unstable selection and a search over alignments, with documented
  tie rules, over scores that are rounded.
* **Layouts that count bytes.** Tags with optional footers, padded chunks,
  files cut anywhere, packets that fail.
* **Release.** The tag is pushed before its asset exists; any step may fail and
  be run again, by the workflow or by hand, while consumers resolve the tag; what
  is withdrawn goes in several commands.

The hazards, at their lines, are in `PROJECT.json`, each with the properties that
would catch it. Three have none and say why: an interleaved frame cut
by two pushes, a stream of packets whose spec changes, and a failed release
withdrawn under those who resolved it.

## 2. Modules

```
FrameGrid ─┬─ StreamingWindowedFingerprinter ── MCStreamingWindowedFingerprinter
           │      │  implements WindowStream
           │      └─ StreamingWindowedProofs
           ├─ StreamingFingerprinter
           ├─ StreamPipeline ── MCStreamPipeline
           │      │  R == INSTANCE StreamResampler, F == INSTANCE StreamingFingerprinter
           │      └─ StreamPipelineProofs (with StreamingFingerprinter)
           └─ DataFingerprinter ─┬─ OneShotProofs
AudioDecoder ─────┘              └─ MCDataFingerprinter
StreamResampler ─┬─ MCStreamResampler
                 └─ StreamResamplerProofs
HashComparison ──┬─ DriftSearch ─┬─ MCDriftSearch
                 │               └─ MatchingProofs ─┐
FingerprintBytes ┴─ CheckpointMatcher ─┬────────────┘
                                       └─ MCCheckpointMatcher
FrameGrid, FingerprintBytes ── FingerprintProofs (extended by the other proofs)
FfiHandle (implements AtomicHandle) ── FfiHandleProofs
ReleaseWorkflow ── ReleaseWorkflowProofs
```

`DriftSearch` names its specification `SearchSpec` (and its type invariant
`SearchTypeOK`), and `DataFingerprinter` its own `CallSpec`, since a module extends
each together with another state machine.

**FrameGrid** holds the pure part: the frames of a signal and the one-shot
fingerprints cut from them, as operators. A sample is its position in the
stream (or what the resampler made), a chroma frame the sequence of samples it
was computed over, a hash the sequence of frames `compute_hash` reads. FFT,
chroma projection and hash bits are functions of exactly these, so values that
are equal in the model are equal in the program.

**StreamingWindowedFingerprinter** and **StreamingFingerprinter** model the two
streams. A call is an action that begins it (`Ingest`, `FlushPassthrough`,
`Reset`, ...), one action per iteration of `process_pending` and of
`emit_windows`/`emit_hashes`, and one that returns; `pc` says which loop runs.
Variables have the names of the fields. `emitted` and `acknowledged` are
history. The samples a call brings are at the target rate: those of the caller,
or what the resampler releases, any number of them. A slice out of range is a
panic in the program and a state without a next step in the model;
`SliceNeverOutOfRange` says it never happens, and deadlock is checked.

**WindowStream** is the abstract stream: samples are handed over, and each call
delivers the windows they complete.

**StreamResampler** models `push`, `flush` and `reset` of the polyphase
resampler and the one-shot path. An output is its index and the source sample
each tap of its filter read, zero where there is none. The filter's
coefficients follow from the index and are left out. Positions and lengths are
floors of f64 expressions, which may come out one short where the exact result
is an integer: a kernel has a set of indices where they do, so that the
properties hold whatever the rounding. That the half width is at least one
ratio is the assumption; the code makes it at least 6.6.

**StreamPipeline** is a `StreamingFingerprinter` as its caller has it. The
resampler and the framing are instances over shared variables; a push downmixes
its interleaved samples (dropping what is left of the last frame, as the code
does at every push), runs the resampler and hands its output to the framing in
the step in which it returns. A flush and a reset go through both. The duration
in milliseconds, rounded and saturating, is an operator over the sample count.

**DataFingerprinter** is `fingerprint_data_windowed` over **AudioDecoder**. The
decoder takes a file as its writer laid it out (tags, then chunks or an MPEG
stream, the last bytes possibly missing). Lengths and paddings are real byte
counts; a sample is the position it was read from; where no header was written,
any may be read. `AudioDecoderAssumption` says no more of a file than that lengths
and fields are natural numbers. What Symphonia finds is external: each packet may turn out in
every way its interface allows. A chunk size has 32 bits and `usize` 64, so the
`checked_add` cannot fail and is left out. The call then checks the shape of
what was decoded, brings it to the target rate and cuts the windows; every error
on the way is an outcome.

**HashComparison** compares two hash sequences at one alignment, two hashes to a
word as the code does; a hash is the set of its one bits. A score is the nearest
binary fraction of `F32_DIGITS` digits to the exact quotient, ties to even, as an
f32 is. **DriftSearch** is the loop over alignments, one step for each.
**CheckpointMatcher** is the store and its ranked query, over sequences that were
written and read back through **FingerprintBytes**; `select_nth_unstable_by` may
leave any arrangement its contract allows, so `TopMatches` is a set of results.

**FfiHandle** follows an object of any of the three classes from Swift to the
Rust value. Callers share the object, enter and leave calls, and let go of it;
the last reference frees the handle. A call locks the mutex, changes the value
in several steps, unlocks, converts its result into buffers, and the wrapper
copies and frees them. A panic may happen at any step of an operation: it is the
event `ffi_guard` and `lock_recover` are written for, and the model does not say
which operations can raise it. Functions that need no object own the same
buffers, on success and on error. **AtomicHandle** is what callers are promised.

**ReleaseWorkflow** numbers the builds of one version; the tag and the asset are
each the number of one. The workflow and an operator's manual sequence take the
same steps, each of which may fail; building and testing change nothing that others
see and are part of the time between two steps. Consumers resolve the tag at any
time. An operator may withdraw what a failed run left: a tag
alone once no consumer has resolved it, a release with its tag if it has not been
announced. Nobody announces what failed, so every failed release counts as
unannounced, whoever has resolved it. To look, to delete the release, and to delete
the tag are three steps, any of which may be the last, and runs and consumers come
in between. A release outlives the deletion of its tag alone, as it does at GitHub.

Operators whose comment begins with *Fault* are faulty variants of the
definition after them, one for each property; nothing uses them, and each
property fails when its variant replaces the definition.

## 3. Runs

| Run | Configuration | Shows | Bounds |
|---|---|---|---|
| `windowed` | `StreamingWindowedFingerprinter.cfg` | the windows of any chunking, with flushes and resets, are those of the one-shot path, each delivered by the call that completes it; the buffers stay on the grid and bounded; every slice is in range; calls return | frame 4, hop 2, two frames to a hash, windows 3 (refused), 4 and 8, intervals 0 (refused), 3 and 7, 18 samples, chunks of at most 7 |
| `resampler` | `StreamResampler.cfg` | until a flush the output is a prefix of the one-shot output and the flush completes it; afterwards every output still reads all its context between the flushes around it; the history is aligned and bounded | ratios 3:2, 3:1 and 2:3, 12 source samples, chunks of at most 5, two flushes |
| `pipeline` | `StreamPipeline.cfg` | from interleaved samples to hashes: the hashes are those of the one-shot path over the same audio up to its terminal hash, no frame is missed or hashed twice, the duration is that of the audio pushed up to rounding and to what the filter withholds | frame 4, hop 2, three frames to a hash of which two are read, stride 2; one and two channels (and a refused zero); source at the target rate, 6:4 and 3:4; pushes of at most 9 interleaved samples, 18 source and 24 target-rate samples, one flush; four samples to a millisecond, at most 5 ms |
| `drift` | `DriftSearch.cfg` | the search finds the first best alignment of those it tries, counted bit by bit, and the score is symmetric | hashes of two bits, up to four against up to three, drifts 0, 1, 2 and 4, scores of two binary digits |
| `matcher` | `CheckpointMatcher.cfg` | the results are the best, ranked, independent of the selection and of the order of insertion, asking for fewer truncates; hashes are matched as they were saved | three checkpoints, two time stamps, four sequences, three queries, drifts 0 and 1 |
| `handle` | `FfiHandle.cfg` | the handle outlives its calls, no buffer leaks, calls are atomic, the mutex is always released | two callers, pushes of two steps begun while the value has fewer than three changes |
| `decoder` | `DataFingerprinter.cfg` | headers are read only where they were written; a WAVE file decodes as written or fails; truncation is reported; an MPEG stream has every packet before its end; the windows are those of the audio written, each over its own span; calls return | up to two tags, three chunks or packets, six cuts, rates 0 to 3 of which 0 and 3 are refused, three durations |
| `release` | `ReleaseWorkflow.cfg` | the asset is the binary the tag names; what a run validated stays, with its tag, release and binary; a run ends | two consumers, six polls, four builds |

Why the bounds are enough. Frames, hops and strides keep the relations of the
real ones (a hop divides a frame, a hash spans several strides), at sizes where
windows fall on and off the grid, overlap, leave gaps, hold no frame, one hash
or a strided and a terminal one, and where a chunk is shorter than a hop, longer
than a frame, or empty. 18 samples see several discards; 24 target-rate samples
in the pipeline see several hashes and a discard between them. The resampler's
kernels go down and up, its twelve samples exceed twice a filter's width, so that
history has been dropped before the second flush. In the pipeline pushes of odd
length cut stereo frames, and the last millisecond is past the maximum. For the
matcher every kind of tie occurs at every cut; with two binary digits fractions
that differ are one score. In the decoder every parity, order, damage and limit
is met; `MAX_PACKETS` of three reaches the sample limit exactly and beyond. In
the release four builds are enough for a failed run, a withdrawal, and two
releasers at once after it. `MAX_*` constants bound counters and nothing else,
except those that name a constant of the code (`MAX_MS`, `MAX_SAMPLE_RATE`,
`MAX_MP3_*`).

**Fairness.** A call that has begun runs on its caller's thread to its end: weak
fairness of the steps of a call (`StreamingWindowedFingerprinter`, `DriftSearch`,
`AudioDecoder`, `DataFingerprinter`), for each caller in `FfiHandle`. Nothing is
fair about callers calling, about who gets a mutex, or about panics. In
`ReleaseWorkflow` the steps of the workflow's run are fair, since GitHub keeps
running the job; nothing makes a person act or the asset become available. In
`DriftSearch` and `DataFingerprinter` a behaviour is one call
and stops when it returns, and in `ReleaseWorkflow` a version that is out needs
no more, so deadlock is not checked there; everywhere else it is.

### Where the documentation differs from the code

Each of these is a run that ends in a counterexample.

* `flush_continues`: after `flush` a resampled stream does *not* "continue where
  the stream left off" (Swift doc comment): the filter history is cleared, and
  the outputs after it read zeros in place of samples from before the flush.
* `duration_advances`: the duration does not always advance "when samples are
  actually ingested" (`README.md`, Swift doc comment): it counts what left the
  resampler, so a push its filter withholds leaves it at zero.
* `poisoned_handle`: a call on a poisoned mutex is not a no-op
  (`docs/implementation.md`); `lock_recover` lets it change the value.
* `unsupported_wave`: an unsupported format is not always `UnsupportedFormat`
  (`docs/implementation.md`): the format is looked at once per sample, so a file
  whose data chunk has no whole sample decodes as empty. `WaveDecodesAsWritten`
  says what does hold: the format is supported wherever there is room for a sample.

Noted and not stated by a run: the end of a stream is zero-padded, by `flush`
(`docs/implementation.md` says never); a hash spans four of its eight frames,
about 0.65 s, not a second (`README.md`); the drift search stops at the shorter
length and may compare fewer than the `2 * max_drift + 1` alignments its doc
comment counts; to withdraw a release "if it has not been announced"
(`docs/release.md`) deletes the tag of whoever has resolved it unannounced, and the
rerun of the version has another binary: in `ReleaseWorkflow` the invariant
`\A c \in Consumers : pinned[c] # NONE => tag = pinned[c]` fails, and the
documentation does not promise it.

## 4. Theorems

The proofs hold for every value of the constants that satisfies the assumptions
named, and every safety property of a passing run is the conclusion of one of them.
In each module none of the properties is inductive alone: there is a strengthening,
a lemma or a step for each action that preserves it, and a theorem whose name ends
in `Invariance` that it always holds.

**FingerprintProofs**: facts about the grid, and the bytes. From
`FrameGridAssumption` (a hop is at least one sample and at most a frame, a stride
at most a hash). `OneShotWindows`: of any recording, whatever its samples are, the
one-shot path returns the windows whose span lies in it, each over the frames
inside that span, although it computes no frame past the last one. `RoundTrip`:
reading the bytes of a fingerprint gives it back. `CutIsRefused`: a fingerprint cut
off anywhere is refused. Here is also what the other modules need for induction: `NatInd`, stated
for sets of numbers, `LeastElement`, and `PartialExists` (the partial sums of a
sequence exist and obey their recurrence).

**StreamingWindowedProofs**, also from `StreamingWindowedAssumption` (the
arguments are natural numbers). That a slice is in range after a push depends on
what every earlier discard left, so `IInv` says, next to the type invariant,

* `FramesOnGrid`: frames and pending samples are one gapless run of the stream,
* `FramesComplete`: after `process_pending` every complete frame is there,
* `WindowsInOrder`: the windows returned are the grid's from the first on and
  `next_window_start` is the one after them,
* `FramesNeeded`: no discard has passed the first frame of the next window, and
  between calls nothing else is kept,
* `CallComplete`: between calls no complete window is held back.

`TypeCorrect`, `GridCorrect`, `NoSliceOutOfRange`, `Bounded`, and with
`OneShotWindows` also `OneShotAgreement` and `Refinement` to `WindowStream` follow.

**StreamResamplerProofs**, from `StreamResamplerAssumption` (a filter's half width
is at least one ratio). `IInv` has, next to the type invariant, `HistoryAligned`
and `ReadsBetweenFlushes`: how many outputs there are (`Counted`), that the
history reaches back to the first sample the next output needs (`HistoryHeld`),
that no flush lies ahead of the source (`FlushesPast`), that an output no flush
released had all of its taps (`Arrived`), and that a flush at the end of the
source released all there is (`FlushComplete`). Nothing is assumed of where the
f64 results fall short. `TypeCorrect`, `HistoryCorrect`, `ContextCorrect` and
`OneShotAgreement` follow, and `DrainedCorrect`: between calls the next output
still lacks a tap, unless a flush has seen the last sample.

**StreamPipelineProofs**, from `StreamPipelineAssumption`, has the framing and the
composition. For the framing: `FramesKept` and `SamplesKept` (the buffers are one
gapless run of the stream), `LoopsDone` (between calls neither loop has work
left), `HashesInOrder` (the hashes returned are those of the grid, in order) and
`Arrived`; `HashesOfGrid`: between calls the hashes are exactly the aligned ones
of the samples so far. `Composition`: every behaviour of the pipeline is one of
the resampler and one of the framing, so that their invariants hold of it. Three
conjuncts tie them together: at most one of the two is in a call (`OnePart`), the
framing received as many samples as the resampler released (`Handed`), and as
many source samples arrived as frames were pushed (`Counted`). `TypeCorrect`,
`FramesCorrect` and `OneShotAgreement` (the hashes of the stream are those of the
one-shot path, for every chunking) follow. `DurationCorrect` turns `DrainedCorrect`,
a bound in source samples, into one in output samples and then in milliseconds,
through both roundings.

**MatchingProofs**, from `HashComparisonAssumption`, `DriftSearchAssumption` and
`CheckpointMatcherAssumption` (sequences of hashes; for the matcher hashes of at most
32 bits, and as many of them as a `u32` counts). `SearchInv`:
`best` is the first best of the alignments tried so far, and these are the first of
the order 0, +1, -1, +2, ...; a later alignment replaces it only by comparing
greater. `SearchTypeCorrect`, `SearchFindsBest` and `SearchSymmetric` follow; the
last needs that swapping the sequences mirrors the alignments (and so changes the
order in which they are tried), and that rounding to f32 is monotone. `MatcherInv`:
what is kept of the last query is an answer to it under the checkpoints and the
drift of now, since every other call forgets it. That an answer is determined,
although the selection is not, comes from the place of a result: the number of
checkpoints that rank before it is the same in every arrangement, so position by
position the results agree up to checkpoints that cannot be told apart.
`MatcherTypeCorrect`, `MatcherReturnsBest`, `MatcherAnswerDetermined` and
`MatcherLoadedAsSaved` follow, the last from `RoundTrip` and `CutIsRefused`.

**OneShotProofs** has the call from bytes to windows. From `AudioDecoderAssumption`: `TagLayout` and `ChunkLayout` say where each
tag and chunk begins, given those before it, and `DecoderInv` says, next to the type
invariant and the properties,

* `TagsSkipped`: `data` is where a tag was written or where the tags end, and each
  `pc` past the tags is at the container that is really there;
* `ChunksScanned`: `offset` is behind some written chunk, all chunks before it are
  whole, and `fmt` and `data_range` are the last of their kinds among these;
* `SamplesRead`: the samples are those of that data chunk up to `offset`, and no
  chunk header is left behind the scan;
* `AllDecoded`: the samples are those of all audio packets so far, in order;
* `WholeWave`: an undamaged WAVE file never reaches the MPEG path.

`DecoderTypeCorrect`, `HeadersCorrect`, `WaveCorrect`, `TruncationCorrect` and
`Mp3Correct` follow, and with the assumptions of `DataFingerprinter` also
`AnswerCorrect`: `PlainWaveDecodes` finds the only data chunk of a playable file,
`DownmixIs` that taking its samples frame by frame gives the bytes of each channel, and
`OneShotWindows` what the windows of these are.
An earlier form of `WaveDecodesAsWritten`, which TLC had accepted, could not be
proved: it said that a file that lost its last byte decodes with its last chunk,
but if that chunk is empty the lost byte is one of its header and the scan ends
before it, as the code has it. The property now names the chunks that are whole,
and the run has such a file.

**FfiHandleProofs**, from `FfiHandleAssumption` (the result values and `Nobody`
are distinct from what they stand beside). The handle lives while there is a
reference and a caller in a call has one (`ReferencesKeepAlive`), what a caller
owns at each point of its call (`CallState`), and the value is what the holder's
steps made of the value it locked (`OnlyTheHolderWrites`). `HandleSafe`, `NoLeak`
and `Refinement` to `AtomicHandle` follow: a call takes effect when it leaves the
mutex, and until then the abstract value is the one from before it.

**ReleaseWorkflowProofs**, from `ReleaseAssumption`. `IInv` has, next to the type
invariant and the two properties, that no two runs make the same zip
(`BuildsDiffer`), that a run past the tag has its build in it and past the upload in
the asset (`RunOwns`), and that what is about to be deleted is of a run that is over
(`WithdrawsFailed`): a deletion may come long after the look that decided it, and it
must still be right then. `BinaryMatchesTag` and `ReleaseStays` follow.

Only model-checked: liveness (`CallsReturn`, `MutexReleased`, `Returns`,
`RunEnds`), which with fairness and `ENABLED` is outside what the prover does; and the
four runs that end in a counterexample. The library's induction theorems take an
operator as a parameter, which the installed provers cannot instantiate; induction
is done over sets of numbers instead (`NatInd`), and every recursive definition is
a function, of which the proofs use the recurrence.

## 5. Not modelled

* The numbers: the arithmetic of the FFT and of the chroma projection, filter
  coefficients, hash bits, sample values. They are deterministic functions of
  what the model names.
* The `parallel` feature: every worker has its own `FftProcessor`, whose buffers a
  frame overwrites before it reads them, and rayon collects by index. Safe Rust
  leaves no interleaving of the workers to check.
* That a buffer of the C interface is not freed twice: a caller's buffers are a set,
  so `NothingLeaks` says that each is freed, not how often.
* Of the C interface, the conversion of arguments, which changes no state. Of the
  Swift package, the value types and `init(unsafeFromRawPointer:)`, which adopts a
  pointer of unknown origin.
* Packaging scripts: build steps over files one after the other. CI workflows,
  fuzz targets, benchmarks and tests: they run the program and hold none of its
  logic. What compiles a release is a number in `ReleaseWorkflow`.

## 6. Plan

Written in the order of importance: the windowed stream and its proofs, the
resampler, the hash stream, comparison, matcher, handle, decoder; then the
composition of downmix, resampler and framing, the call from bytes to windows,
the release; then the proofs about all of them. What is left:

1. **One-shot path at other rates**: in `AnswerFollowsFile` a resampled value is its
   index and the recording it was made from; which samples of it a value reads takes
   `ResampleToMono` with the taps of `StreamResampler`.
2. **Refinement of the decoder**: an abstract call that answers in one step, and a
   theorem that the scan implements it.

## 7. Running

```
tlc -workers 2 -config StreamingWindowedFingerprinter.cfg MCStreamingWindowedFingerprinter.tla
tlapm OneShotProofs.tla
```

Each configuration belongs to the module of its run in `PROJECT.json`; no run
takes more than a minute or two, each proof module a few minutes.

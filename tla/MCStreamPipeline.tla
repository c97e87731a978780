---------------------------- MODULE MCStreamPipeline ----------------------------
(***************************************************************************)
(* Mono and stereo; four target-rate samples to a millisecond; a source at  *)
(* the target rate, one 3/2 times as fast and one 3/4 as fast, these with   *)
(* f64 results that fall short of an exact position and an exact length.    *)
(***************************************************************************)
EXTENDS StreamPipeline

MCKernels == {
    [source_rate |-> 4, target_rate |-> 4, half_width |-> 2,
     short_positions |-> {}, short_lengths |-> {}],
    [source_rate |-> 6, target_rate |-> 4, half_width |-> 2,
     short_positions |-> {4}, short_lengths |-> {9}],
    [source_rate |-> 3, target_rate |-> 4, half_width |-> 1,
     short_positions |-> {8}, short_lengths |-> {6}] }

\* The rates that need a resampler
MCResampledKernels == {k \in MCKernels : k.source_rate # k.target_rate}
=============================================================================

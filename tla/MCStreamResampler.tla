--------------------------- MODULE MCStreamResampler ---------------------------
(***************************************************************************)
(* Three kernels: down by 3/2 and by 3, and up by 2/3 (a source slower than *)
(* the target rate), the first and the last with f64 results that fall      *)
(* short of an exact position and of an exact length.                       *)
(***************************************************************************)
EXTENDS StreamResampler

MCKernels == {
    [source_rate |-> 3, target_rate |-> 2, half_width |-> 2,
     short_positions |-> {4}, short_lengths |-> {6, 9}],
    [source_rate |-> 3, target_rate |-> 1, half_width |-> 3,
     short_positions |-> {}, short_lengths |-> {}],
    [source_rate |-> 2, target_rate |-> 3, half_width |-> 2,
     short_positions |-> {3, 6}, short_lengths |-> {4}] }
=============================================================================

------------------- MODULE MCStreamingWindowedFingerprinter -------------------
(***************************************************************************)
(* A grid of four-sample frames every two samples, two frames to a hash and *)
(* a stride of two, so that a window of eight samples has three frames when *)
(* it begins on the grid (a strided hash and the terminal one) and two when *)
(* it does not.  A window of four samples that begins off the grid has no   *)
(* frame.  Intervals: 3 overlaps windows and leaves the grid, 7 leaves a    *)
(* gap after every window of 4 (frames are dropped that no window used).    *)
(***************************************************************************)
EXTENDS StreamingWindowedFingerprinter

MCWindowSamples == {3, 4, 8}
MCIntervalSamples == {0, 3, 7}
=============================================================================

----------------------------- MODULE WindowStream -----------------------------
(***************************************************************************)
(* What a windowed streaming fingerprinter promises its caller, with no     *)
(* buffers and no loops: a window belongs to a span of the stream alone,    *)
(* and is delivered by the call that hands over the last sample of it.      *)
(***************************************************************************)
EXTENDS FrameGrid

VARIABLES
    window_samples,
    interval_samples,
    received,       \* samples handed over by the calls that have returned
    delivered       \* windows those calls returned, since the last reset

vars == <<window_samples, interval_samples, received, delivered>>

\* Every window that fits into the first n samples.  Its hashes depend on the
\* frames inside it and on nothing else.
WindowsWithin(n) ==
    [k \in 1 .. WindowCount(n, window_samples, interval_samples) |->
        GridWindow((k - 1) * interval_samples, window_samples)]

Init ==
    /\ window_samples \in Nat /\ window_samples >= FRAME_SIZE
    /\ interval_samples \in Nat \ {0}
    /\ received = 0
    /\ delivered = <<>>

\* A call hands over some samples and gets the windows they complete.
Deliver ==
    /\ received' \in Nat /\ received' >= received
    /\ delivered' = WindowsWithin(received')
    /\ UNCHANGED <<window_samples, interval_samples>>

Restart ==
    /\ received' = 0
    /\ delivered' = <<>>
    /\ UNCHANGED <<window_samples, interval_samples>>

Next == Deliver \/ Restart

Spec == Init /\ [][Next]_vars
=============================================================================

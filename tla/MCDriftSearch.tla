----------------------------- MODULE MCDriftSearch -----------------------------
(***************************************************************************)
(* Hashes of two bits, three of the four values of them, in sequences of up *)
(* to four and up to three: an even and an odd count of packed hashes, and  *)
(* shifts up to and past either length.                                     *)
(***************************************************************************)
EXTENDS DriftSearch

Values == {{}, {0}, {0, 1}}
UpTo(n) == UNION {[1 .. k -> Values] : k \in 0 .. n}

MCFirstSequences == UpTo(4)
MCSecondSequences == UpTo(3)
=============================================================================

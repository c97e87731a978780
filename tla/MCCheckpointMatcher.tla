-------------------------- MODULE MCCheckpointMatcher --------------------------
(***************************************************************************)
(* Three checkpoints over two time stamps and sequences of which pairs      *)
(* score the same against a query without drift or with it, one of them by  *)
(* a comparison of no hashes: ties of score, of time stamp and of both, at  *)
(* every cut of the list.                                                   *)
(***************************************************************************)
EXTENDS CheckpointMatcher

MCTimestamps == {1, 2}
MCStoredSequences == { <<>>, <<{}>>, <<{0, 1}, {0}>>, <<{}, {0, 1}>> }
MCQueries == { <<>>, <<{0, 1}, {0, 1}>>, <<{0}, {0, 1}, {}>> }
=============================================================================

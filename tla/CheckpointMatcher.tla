--------------------------- MODULE CheckpointMatcher ---------------------------
(***************************************************************************)
(* CheckpointMatcher (matching.rs): a store of timestamped hash sequences,  *)
(* ranked against a query.  The score of a checkpoint is that of its best   *)
(* alignment, which DriftSearch shows the drift search to find.             *)
(***************************************************************************)
EXTENDS HashComparison, SequencesExt, FingerprintBytes

CONSTANTS
    Timestamps,          \* time stamps checkpoints are added with
    StoredSequences,     \* hash sequences they are added with
    Durations,           \* durations they are added with, which nothing reads
    Queries,             \* hash sequences they are ranked against
    Drifts,              \* values of max_drift
    MAX_CHECKPOINTS      \* bound: checkpoints between two clears

\* x < 2^32
FitsU32(x) == x \div 65536 < 65536

\* A hash and a duration are u32 in the code, and a fingerprint of no more hashes
\* than a u32 counts is stored whole, see FingerprintBytes.
ASSUME CheckpointMatcherAssumption ==
    /\ WORD_BITS <= 32
    /\ Timestamps \subseteq Int
    /\ StoredSequences \subseteq Seq(Hash)
    /\ \A hashes \in StoredSequences : FitsU32(Len(hashes))
    /\ Queries \subseteq Seq(Hash)
    /\ Durations \subseteq Nat
    /\ \A duration \in Durations : FitsU32(duration)
    /\ Drifts \subseteq Nat
    /\ MAX_CHECKPOINTS \in Nat

VARIABLES
    checkpoints,
    max_drift,
    results,       \* what the last call of find_top_matches returned
    asked          \* history: its arguments

vars == <<checkpoints, max_drift, results, asked>>

NoQuestion == [query |-> <<>>, max_results |-> 0]

\* with_drift
Init ==
    /\ checkpoints = <<>>
    /\ max_drift \in Drifts
    /\ results = <<>>
    /\ asked = NoQuestion

\* A call that is not a query leaves nothing of the last one to compare with.
Forget == results' = <<>> /\ asked' = NoQuestion

AddCheckpoint ==
    /\ Len(checkpoints) < MAX_CHECKPOINTS
    /\ \E checkpoint \in [timestamp : Timestamps, hashes : StoredSequences,
                           duration : Durations] :
          checkpoints' = Append(checkpoints, checkpoint)
    /\ Forget
    /\ UNCHANGED max_drift

ClearCheckpoints ==
    /\ checkpoints' = <<>>
    /\ Forget
    /\ UNCHANGED max_drift

SetDrift ==
    /\ max_drift' \in Drifts
    /\ Forget
    /\ UNCHANGED checkpoints

\* compare_hashes_with_drift, of which only the score is read
BestScore(query, hashes) ==
    BestAlignment(query, hashes, LesserOf(max_drift, LesserOf(Len(query), Len(hashes)))).score

Scored(store, query) ==
    [index \in 1 .. Len(store) |->
        [index |-> index, timestamp |-> store[index].timestamp,
         score |-> BestScore(query, store[index].hashes)]]

\* Fault: the insertion index decides before the time stamp.
Precedes_IndexFirst(left, right) ==
    \/ Higher(left.score, right.score)
    \/ /\ ~Higher(right.score, left.score)
       /\ left.index < right.index

\* Fault: the time stamp decides before the score.
Precedes_TimestampFirst(left, right) ==
    \/ left.timestamp < right.timestamp
    \/ /\ left.timestamp = right.timestamp
       /\ \/ Higher(left.score, right.score)
          \/ /\ ~Higher(right.score, left.score)
             /\ left.index < right.index

\* The comparator: left comes before right.
Precedes(left, right) ==
    \/ Higher(left.score, right.score)
    \/ /\ ~Higher(right.score, left.score)
       /\ \/ left.timestamp < right.timestamp
          \/ left.timestamp = right.timestamp /\ left.index < right.index

\* What select_nth_unstable_by and truncate may leave of scored: keep of them,
\* none of which comes after one that is dropped.
Selections(scored, keep) ==
    {kept \in kSubset(keep, ToSet(scored)) :
        \A left \in kept, right \in ToSet(scored) \ kept : ~Precedes(right, left)}

\* The orders sort_by may leave kept in
Sortings(kept) ==
    {s \in [1 .. Cardinality(kept) -> kept] :
        /\ ToSet(s) = kept
        /\ \A i, j \in DOMAIN s : i < j => ~Precedes(s[j], s[i])}

\* Fault: the entry the selection stopped at is kept with those before it.
TopMatches_KeepsNth(store, query, max_results) ==
    LET scored == Scored(store, query)
        keep == LesserOf(max_results + 1, Len(scored))
        Reported(s) == [k \in 1 .. Len(s) |-> [timestamp |-> s[k].timestamp,
                                               score |-> s[k].score]]
    IN  {Reported(s) : s \in UNION {Sortings(kept) : kept \in Selections(scored, keep)}}

\* Every result find_top_matches may return
TopMatches(store, query, max_results) ==
    LET scored == Scored(store, query)
        keep == LesserOf(max_results, Len(scored))
        Reported(s) == [k \in 1 .. Len(s) |-> [timestamp |-> s[k].timestamp,
                                               score |-> s[k].score]]
    IN  {Reported(s) : s \in UNION {Sortings(kept) : kept \in Selections(scored, keep)}}

FindTopMatches ==
    \E query \in Queries, max_results \in 0 .. MAX_CHECKPOINTS + 1 :
        /\ results' \in TopMatches(checkpoints, query, max_results)
        /\ asked' = [query |-> query, max_results |-> max_results]
        /\ UNCHANGED <<checkpoints, max_drift>>

Next == AddCheckpoint \/ ClearCheckpoints \/ SetDrift \/ FindTopMatches

Spec == Init /\ [][Next]_vars

-----------------------------------------------------------------------------

Match == [timestamp : Timestamps, score : [mantissa : Nat, exponent : Nat]]

\* The type invariant.  A query returns as many results as were asked for and
\* as there are checkpoints.
TypeOK ==
    /\ checkpoints \in Seq([timestamp : Timestamps, hashes : StoredSequences,
                             duration : Durations])
    /\ Len(checkpoints) <= MAX_CHECKPOINTS
    /\ max_drift \in Drifts
    /\ results \in Seq(Match)
    /\ Len(results) = LesserOf(asked.max_results, Len(checkpoints))

\* The position a match may have in a complete ranking: better scores come
\* first, and of equal ones the earlier time stamps.
RanksBelow(left, right) ==
    \/ Higher(right.score, left.score)
    \/ /\ ~Higher(left.score, right.score)
       /\ left.timestamp > right.timestamp

\* "sorted by score (descending), then timestamp (ascending)", and nothing
\* better was left out: the results are in rank order, and no checkpoint that
\* is not among them ranks above one that is.
ResultsAreTheBest ==
    /\ \A i, j \in DOMAIN results : i < j => ~RanksBelow(results[i], results[j])
    /\ results # <<>> =>
          Cardinality({i \in DOMAIN checkpoints :
              RanksBelow(results[Len(results)],
                         [timestamp |-> checkpoints[i].timestamp,
                          score |-> BestScore(asked.query, checkpoints[i].hashes)])})
              < Len(results)

\* "the result is identical to fully sorting": what a query returns follows from
\* the checkpoints, never from the arrangement the selection left them in, and
\* not even from the order they were added in; and max_results only truncates,
\* asking for fewer gives the beginning of the same list.
AnswerIsDetermined ==
    \A store \in {checkpoints, Reverse(checkpoints)}, n \in 0 .. asked.max_results :
        TopMatches(store, asked.query, n) = {SubSeq(results, 1, LesserOf(n, Len(results)))}

\* A hash as a number
Word(hash) ==
    SumTo([k \in 1 .. WORD_BITS |-> IF k - 1 \in hash THEN 2^(k - 1) ELSE 0], WORD_BITS)

\* Fingerprint.toBytes and fromBytes in Sources/Fingerprint: a fingerprint of a
\* checkpoint's hashes that is stored and loaded is the same fingerprint, whatever
\* follows it, and one that lost its end is refused, never loaded short.
LoadedAsSaved ==
    \A k \in DOMAIN checkpoints :
        LET hashes == [i \in DOMAIN checkpoints[k].hashes |-> Word(checkpoints[k].hashes[i])]
            duration == checkpoints[k].duration
            saved == ToBytes(hashes, duration)
        IN  /\ \A trailing \in {<<>>, <<255>>, SubSeq(saved, 1, 8)} :
                  FromBytes(saved \o trailing)
                      = <<[hashes |-> hashes, duration_ms |-> duration]>>
            /\ \A length \in 0 .. Len(saved) - 1 : FromBytes(SubSeq(saved, 1, length)) = <<>>
=============================================================================

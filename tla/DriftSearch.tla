----------------------------- MODULE DriftSearch -----------------------------
(***************************************************************************)
(* compare_hashes_with_drift_detailed (matching.rs): one call, an alignment *)
(* at a time.                                                               *)
(***************************************************************************)
EXTENDS HashComparison

CONSTANTS
    FirstSequences, SecondSequences,    \* the sequences a call compares
    SearchDrifts                        \* the values of max_drift

ASSUME DriftSearchAssumption ==
    /\ FirstSequences \subseteq Seq(Hash)
    /\ SecondSequences \subseteq Seq(Hash)
    /\ SearchDrifts \subseteq Nat

VARIABLES
    first, second, search_drift,    \* the arguments: search_drift is max_drift
    offset,                         \* the alignment tried next
    best,                           \* the best comparison so far
    pc

arguments == <<first, second, search_drift>>
search_vars == <<arguments, offset, best, pc>>

Nothing == Comparison(0, 0, 0)

\* Two empty inputs return at once; otherwise the search starts from offset 0.
SearchInit ==
    /\ first \in FirstSequences
    /\ second \in SecondSequences
    /\ search_drift \in SearchDrifts
    /\ offset = 1
    /\ IF first = <<>> \/ second = <<>>
       THEN best = Nothing /\ pc = "done"
       ELSE best = ComparisonAt(first, second, 0) /\ pc = "search"

drift_limit == LesserOf(search_drift, LesserOf(Len(first), Len(second)))

\* Fault: the negative offset of each drift is left out.
OffsetAfter_OneSided(o) == o + 1

\* 0, +1, -1, +2, -2, ...
OffsetAfter(o) == IF o > 0 THEN -o ELSE 1 - o

\* Fault: a later alignment with the same score replaces the best one.
Better_OrEqual(a, b) == ~ScoresHigher(b, a)

Better(a, b) == ScoresHigher(a, b)

\* An iteration of the inner loop
Try ==
    /\ pc = "search"
    /\ offset <= drift_limit
    /\ LET candidate == ComparisonAt(first, second, offset)
       IN  best' = IF Better(candidate, best) THEN candidate ELSE best
    /\ offset' = OffsetAfter(offset)
    /\ UNCHANGED <<arguments, pc>>

Finish ==
    /\ pc = "search"
    /\ offset > drift_limit
    /\ pc' = "done"
    /\ UNCHANGED <<arguments, offset, best>>

SearchNext == Try \/ Finish

SearchSpec == SearchInit /\ [][SearchNext]_search_vars /\ WF_search_vars(SearchNext)

-----------------------------------------------------------------------------

\* The type invariant.  The evidence reported is that of the reported offset: a
\* comparison of as many hashes as overlap there, with no more agreeing bits
\* than they have, and the offset never exceeds max_drift.
SearchTypeOK ==
    /\ first \in FirstSequences /\ second \in SecondSequences /\ search_drift \in SearchDrifts
    /\ offset \in Int
    /\ best.best_offset \in -search_drift .. search_drift
    /\ best.compared_hashes = Cardinality(Overlap(first, second, best.best_offset))
    /\ best.matching_bits \in 0 .. best.compared_hashes * WORD_BITS
    /\ best.score = Score(best.matching_bits, best.compared_hashes)
    /\ pc \in {"search", "done"}

\* "the first offset attaining the maximum score wins ties": the comparison a
\* call returns is the best alignment within drift_limit, counted bit by bit.  An
\* alignment at which a greater part of the bits agrees is passed over only where
\* the two fractions are the same f32.
FindsBestAlignment ==
    pc = "done" =>
        /\ best = BestAlignment(first, second, drift_limit)
        /\ \A o \in -drift_limit .. drift_limit :
              LET other == Agreement(first, second, o)
              IN  other.matching_bits * best.compared_hashes
                      > best.matching_bits * other.compared_hashes
                      => other.score = best.score

\* The score does not depend on which sequence is called the first: the best of
\* the swapped alignments scores neither higher nor lower.
ScoreSymmetric ==
    pc = "done" =>
        LET swapped == BestAlignment(second, first, drift_limit)
        IN  ~ScoresHigher(swapped, best) /\ ~ScoresHigher(best, swapped)
=============================================================================

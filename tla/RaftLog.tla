------------------------------- MODULE RaftLog -------------------------------
(***************************************************************************)
(* The operations of RaftLog, LogReplication and LeaderElection that the    *)
(* consensus node is built from, on a log without compacted prefix: the     *)
(* vector's element 0 is the sentinel (index 0, term 0), so a log is the    *)
(* sequence of the entries after it and an entry's index is its position.   *)
(***************************************************************************)
EXTENDS Sequences, FiniteSetsExt

\* An absent std::optional<Term>; no entry other than the sentinel has term 0.
NoTerm == 0

lastIndex(lg) == Len(lg)

\* termAt for an index the log holds; the sentinel answers for index 0.
termAt(lg, index) == IF index = 0 THEN 0 ELSE lg[index].term

lastTerm(lg) == termAt(lg, lastIndex(lg))

\* Up to count entries starting at index (none when index is past the end).
entriesFrom(lg, index, count) ==
  SubSeq(lg, index, Min({lastIndex(lg), index + count - 1}))

\* The indices that hold a term; the C++ scans include the sentinel.
IndicesOfTerm(lg, term) == {i \in 0..Len(lg) : termAt(lg, i) = term}

firstIndexOfTerm(lg, term) == Min(IndicesOfTerm(lg, term))

lastIndexOfTerm(lg, term) == Max(IndicesOfTerm(lg, term))

\* The positions of the incoming batch that have a local counterpart.
Overlap(lg, prev, incoming) == {k \in 1..Len(incoming) : prev + k <= Len(lg)}

TermConflicts(lg, prev, incoming) ==
  {k \in Overlap(lg, prev, incoming) :
     lg[prev + k].term # incoming[k].term}

\* The scan stops at the first term conflict; a differing payload under an
\* equal term before that point makes appendFrom fail without any change.
appendFromFails(lg, prev, incoming) ==
  \E k \in Overlap(lg, prev, incoming) :
    /\ \A j \in TermConflicts(lg, prev, incoming) : k < j
    /\ lg[prev + k] # incoming[k]

\* Where the first conflict truncates the log, or the log's end without one.
KeptLength(lg, prev, incoming) ==
  LET conflicts == TermConflicts(lg, prev, incoming)
  IN  IF conflicts = {} THEN Len(lg) ELSE prev + Min(conflicts) - 1

\* Mutant of appendFrom: the log is cut at prev without looking for a conflict.
appendFromTruncating(lg, prev, incoming) == SubSeq(lg, 1, prev) \o incoming

appendFrom(lg, prev, incoming) ==
  LET kept == KeptLength(lg, prev, incoming)
  IN  SubSeq(lg, 1, kept)
        \o SubSeq(incoming, kept - prev + 1, Len(incoming))

isCandidateLogUpToDate(lastLogIndex, lastLogTerm, lg) ==
  \/ lastLogTerm > lastTerm(lg)
  \/ lastLogTerm = lastTerm(lg) /\ lastLogIndex >= lastIndex(lg)

quorumSize(members) == members \div 2 + 1

hasQuorum(count, members) == count >= quorumSize(members)

\* Mutant of nextIndexAfterConflict: the hint is raised to the log's end.
nextIndexAfterConflictHigh(lg, conflictIndex, conflictTerm) ==
  Max({1, conflictIndex, lastIndex(lg) + 1})

\* The leader's next index after a rejection, clamped to the entries it holds.
nextIndexAfterConflict(lg, conflictIndex, conflictTerm) ==
  LET sameTerm  == IF conflictTerm = NoTerm THEN {}
                   ELSE IndicesOfTerm(lg, conflictTerm)
      candidate == IF sameTerm = {} THEN conflictIndex
                   ELSE lastIndexOfTerm(lg, conflictTerm) + 1
  IN  Min({Max({1, candidate}), lastIndex(lg) + 1})

=============================================================================

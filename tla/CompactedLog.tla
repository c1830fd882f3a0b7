---------------------------- MODULE CompactedLog ----------------------------
(***************************************************************************)
(* The vector of RaftLog with a compacted prefix. entries_[0] is no entry:  *)
(* it carries index and term of the last entry that was given up, with a    *)
(* blank command, and every access goes through its absolute index. A call  *)
(* that fails changes nothing, and is no step here.                         *)
(***************************************************************************)
EXTENDS Integers, Sequences

CONSTANTS
  Term, Payload,
  Blank,     \* EntryType::kNoOp with an empty command
  Batch,     \* the batches of AppendEntries, without the indices
  MaxIndex   \* std::numeric_limits<LogIndex>::max(), made small

Item == [term : Term, payload : Payload]

ASSUME LogAssumption ==
  /\ Term \subseteq Nat \ {0}
  /\ Blank \in Payload
  /\ Batch \subseteq Seq(Item)
  /\ MaxIndex \in Nat

VARIABLE entries

firstIndex == entries[1].index
lastIndex == entries[Len(entries)].index
Holds(index) == firstIndex <= index /\ index <= lastIndex

\* The position of an index that is held; positions of the C++ vector start at 0.
offsetOf(index) == index - firstIndex + 1

Boundary(index, term) == [index |-> index, term |-> term, payload |-> Blank]

\* RaftLog::RaftLog
LogInit == entries = <<Boundary(0, 0)>>

\* propose, becomeLeader and the membership entries.
append(term, payload) ==
  /\ lastIndex < MaxIndex
  /\ entries' = Append(entries,
                       [index |-> lastIndex + 1, term |-> term, payload |-> payload])

\* The batch as entries: appendFrom accepts no other numbering.
Numbered(prev, batch) ==
  [k \in 1..Len(batch) |->
     [index |-> prev + k, term |-> batch[k].term, payload |-> batch[k].payload]]

\* The scan finds k in the log with the same term, respectively with another one.
SameTerm(incoming, k) ==
  incoming[k].index <= lastIndex
    /\ entries[offsetOf(incoming[k].index)].term = incoming[k].term
OtherTerm(incoming, k) ==
  incoming[k].index <= lastIndex
    /\ entries[offsetOf(incoming[k].index)].term # incoming[k].term

\* The scan comes past the first n entries of the batch.
Scanned(incoming, n) ==
  \A k \in 1..n : SameTerm(incoming, k) /\ entries[offsetOf(incoming[k].index)] = incoming[k]

truncateFrom(index) == SubSeq(entries, 1, offsetOf(index) - 1)

\* Mutant of appendFrom: the log ends with the batch, conflict or not.
appendFromTruncating(prev, batch, n) ==
  /\ Holds(prev) /\ prev + Len(batch) <= MaxIndex
  /\ entries' = truncateFrom(prev + 1) \o Numbered(prev, batch)

\* n entries of the batch are in the log already. The scan ends with the batch, at
\* the end of the log, or at a conflict, where the log is cut off.
appendFrom(prev, batch, n) ==
  LET incoming == Numbered(prev, batch)
      rest == SubSeq(incoming, n + 1, Len(incoming))
  IN /\ Holds(prev) /\ prev + Len(batch) <= MaxIndex
     /\ Scanned(incoming, n)
     /\ \/ /\ n < Len(batch) => incoming[n + 1].index > lastIndex
           /\ entries' = entries \o rest
        \/ /\ n < Len(batch) /\ OtherTerm(incoming, n + 1)
           /\ entries' = truncateFrom(incoming[n + 1].index) \o rest

\* Mutant of compactTo: the entry at the boundary stays as it was.
compactToEntry(index) ==
  /\ Holds(index)
  /\ entries' = SubSeq(entries, offsetOf(index), Len(entries))

\* compactLogPrefix and applySnapshotBoundary, with the term the log has there.
compactTo(index) ==
  /\ Holds(index)
  /\ entries' = <<Boundary(index, entries[offsetOf(index)].term)>>
                  \o SubSeq(entries, offsetOf(index) + 1, Len(entries))

\* replaceLogWithSnapshotBoundary
replaceLogWithSnapshotBoundary(index, term) == entries' = <<Boundary(index, term)>>

\* What restore accepts: a blank boundary, with term 0 exactly at index 0, and entries
\* numbered on from it.
restoreAccepts(saved) ==
  /\ Len(saved) > 0
  /\ saved[1].payload = Blank
  /\ saved[1].index = 0 <=> saved[1].term = 0
  /\ \A k \in 2..Len(saved) :
       /\ saved[k].index = saved[1].index + (k - 1)
       /\ saved[k].index <= MaxIndex
       /\ saved[k].term # 0

LogNext ==
  \/ \E term \in Term, payload \in Payload : append(term, payload)
  \/ \E prev \in 0..MaxIndex, batch \in Batch :
       \E n \in 0..Len(batch) : appendFrom(prev, batch, n)
  \/ \E index \in 0..MaxIndex : compactTo(index)
  \/ \E index \in 1..MaxIndex, term \in Term : replaceLogWithSnapshotBoundary(index, term)

LogSpec == LogInit /\ [][LogNext]_entries

-----------------------------------------------------------------------------
(* Properties. *)

\* RaftLog::restore accepts what persistentEntries has saved, whatever was appended,
\* cut off and compacted before: a node can always start from its journal.
Restorable == restoreAccepts(entries)

Shown(entry) == [term |-> entry.term, payload |-> entry.payload]

Held == [i \in (firstIndex + 1)..lastIndex |-> Shown(entries[offsetOf(i)])]

Window ==
  INSTANCE LogWindow WITH
    low <- firstIndex, lowTerm <- entries[1].term, high <- lastIndex, held <- Held

\* The vector with its offsets behaves like the plain log from the boundary on: no
\* operation loses, shifts or mixes up an entry, on either side of the boundary.
ImplementsWindow == Window!Spec

=============================================================================

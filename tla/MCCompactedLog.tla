--------------------------- MODULE MCCompactedLog ---------------------------
(* An instance of CompactedLog for TLC. *)
EXTENDS CompactedLog, SequencesExt

\* Empty batches, batches of one and of two items.
ShortBatches == BoundedSeq([term : Term, payload : Payload], 2)

=============================================================================

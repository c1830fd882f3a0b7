------------------------------ MODULE LogWindow ------------------------------
(***************************************************************************)
(* What RaftLog promises its users: the items of a log from just above a    *)
(* boundary up to its end, by absolute index, and the term of the boundary. *)
(***************************************************************************)
EXTENDS Integers, Sequences

CONSTANTS
  Term,      \* the terms entries are written in
  Payload,   \* type and command of an entry
  Batch,     \* the batches of items a leader sends
  MaxIndex   \* the last index there is

Item == [term : Term, payload : Payload]

VARIABLES
  low,       \* the boundary
  lowTerm,   \* the term of the entry at the boundary, 0 at index 0
  high,      \* the end
  held       \* the items above the boundary
vars == <<low, lowTerm, high, held>>

Init == low = 0 /\ lowTerm = 0 /\ high = 0 /\ held \in [{} -> Item]

Push(item) ==
  /\ high < MaxIndex
  /\ high' = high + 1
  /\ held' = [i \in (low + 1)..(high + 1) |-> IF i = high + 1 THEN item ELSE held[i]]
  /\ UNCHANGED <<low, lowTerm>>

Differs(prev, batch, k) == prev + k <= high /\ held[prev + k].term # batch[k].term

\* After prev the log holds the batch, and nothing beyond it once a term differed;
\* items with equal terms have to be equal as far as the terms agree.
Merge(prev, batch) ==
  /\ prev \in low..high /\ prev + Len(batch) <= MaxIndex
  /\ \A k \in DOMAIN batch :
       (prev + k <= high /\ \A j \in 1..k : ~Differs(prev, batch, j))
         => held[prev + k] = batch[k]
  /\ high' = IF (\E k \in DOMAIN batch : Differs(prev, batch, k)) \/ prev + Len(batch) > high
             THEN prev + Len(batch) ELSE high
  /\ held' = [i \in (low + 1)..high' |->
                IF i \in (prev + 1)..(prev + Len(batch)) THEN batch[i - prev] ELSE held[i]]
  /\ UNCHANGED <<low, lowTerm>>

\* The items up to i are given up.
Cut(i) ==
  /\ i \in low..high
  /\ low' = i
  /\ lowTerm' = IF i = low THEN lowTerm ELSE held[i].term
  /\ held' = [j \in (i + 1)..high |-> held[j]]
  /\ UNCHANGED high

\* Nothing is kept but the knowledge that the entry at i had term t.
Reset(i, t) ==
  /\ low' = i /\ lowTerm' = t /\ high' = i
  /\ held' \in [{} -> Item]

Next ==
  \/ \E item \in Item : Push(item)
  \/ \E prev \in 0..MaxIndex, batch \in Batch : Merge(prev, batch)
  \/ \E i \in 0..MaxIndex : Cut(i)
  \/ \E i \in 1..MaxIndex, t \in Term : Reset(i, t)

Spec == Init /\ [][Next]_vars

=============================================================================

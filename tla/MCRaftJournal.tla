---------------------------- MODULE MCRaftJournal ----------------------------
(* Instances of RaftJournal for TLC. *)
EXTENDS RaftJournal, TLC

\* Logs that grow, are cut, change their end, or start at a compacted boundary.
Boundary(i) == [index |-> i, payload |-> "boundary"]
Put(i, x) == [index |-> i, payload |-> x]

Logs ==
  {<<Boundary(0)>>, <<Boundary(0), Put(1, "a")>>, <<Boundary(0), Put(1, "b")>>,
   <<Boundary(0), Put(1, "a"), Put(2, "b")>>, <<Boundary(1), Put(2, "b")>>}

\* A log is compacted at a committed index only; configurations change within
\* a term.
MCState ==
  {[term |-> t, commit |-> lg[1].index, entries |-> lg, config |-> "x"] :
     t \in 1..2, lg \in Logs}
  \cup {[term |-> 2, commit |-> 0, entries |-> lg, config |-> "y"] :
           lg \in {l \in Logs : Len(l) = 2 /\ l[1].index = 0}}

=============================================================================

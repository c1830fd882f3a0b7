---------------------------- MODULE ReplicatedLog ----------------------------
(***************************************************************************)
(* What the consensus nodes promise to the state machines above them: there *)
(* is one sequence of committed entries, it only ever grows, and each node   *)
(* knows a prefix of it that only ever grows.                                *)
(***************************************************************************)
EXTENDS Sequences, Integers

CONSTANT Server

VARIABLES
  chosen,  \* the committed entries
  known    \* known[s]: how many of them s may apply

vars == <<chosen, known>>

Init == chosen = <<>> /\ known = [s \in Server |-> 0]

\* s learns of more committed entries; the first to learn of one commits it.
Learn(s) ==
  /\ known'[s] > known[s]
  /\ known' = [known EXCEPT ![s] = known'[s]]
  /\ SubSeq(chosen', 1, Len(chosen)) = chosen
  /\ Len(chosen') = IF known'[s] > Len(chosen) THEN known'[s] ELSE Len(chosen)

Spec == Init /\ [][\E s \in Server : Learn(s)]_vars

=============================================================================

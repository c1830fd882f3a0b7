--------------------------- MODULE MCClientServer ---------------------------
(* An instance of ClientServer for TLC. *)
EXTENDS ClientServer

CONSTANTS s1, s2

\* A descriptor is reused for a second connection; a client pipelines two
\* requests; a thread fails.
MCBudgets ==
  {[sockets |-> {s1, s2}, requests |-> 1, faults |-> 0],
   [sockets |-> {s1}, requests |-> 2, faults |-> 0],
   [sockets |-> {s1}, requests |-> 1, faults |-> 1]}

=============================================================================

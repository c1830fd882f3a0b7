---------------------------- MODULE MCNodeService ----------------------------
(* Scenarios of NodeService for TLC. *)
EXTENDS NodeService

CONSTANTS n1, n2, n3, t1, t2, c1, c2, k, a, b

set(v) == [type |-> "set", key |-> k, value |-> v]
delete == [type |-> "delete", key |-> k]
get == [type |-> "get"]

\* The terms of n1, n2 and n3.
Terms(of1, of2, of3) == (n1 :> of1) @@ (n2 :> of2) @@ (n3 :> of3)

\* What the two threads call.
Calls(of1, of2) == (t1 :> of1) @@ (t2 :> of2)

OwnClients == (t1 :> c1) @@ (t2 :> c2)
SharedClient == (t1 :> c1) @@ (t2 :> c1)

\* n1 leads, then n2; a client writes twice, with a retry.
Retries ==
  [threshold |-> 0, attempts |-> 2, script |-> Calls(<<set(a), delete>>, <<>>),
   endpoints |-> Calls({n1, n2}, {}), leads |-> Terms({1}, {2}, {}),
   up |-> {n1, n2}, restarting |-> {}, survive |-> FALSE, losing |-> {n1, n2}, contexts |-> 0]

\* n1 leads, then n2, then n1 again, with a write of each of two clients.
Takeover ==
  [Retries EXCEPT !.attempts = 1, !.script = Calls(<<set(a)>>, <<delete>>),
                  !.endpoints = Calls({n1, n2}, {n1, n2}), !.leads = Terms({1, 3}, {2}, {}),
                  !.up = {n1, n2, n3}, !.losing = {}]

\* n1 restarts from its snapshot.
Recovery ==
  [Retries EXCEPT !.attempts = 1, !.threshold = 2, !.restarting = {n1},
                  !.up = {n1, n2, n3}, !.losing = {}]

\* One client writes, the other reads, and n1 restarts.
Reading ==
  [Takeover EXCEPT !.script = Calls(<<set(a)>>, <<get>>), !.leads = Terms({1}, {2}, {}),
                   !.restarting = {n1}, !.losing = {n2}, !.contexts = 1]

MCScenarios == {Retries, Takeover, Recovery, Reading}

=============================================================================

--------------------------- MODULE MCRaftSnapshot ---------------------------
(* Scenarios of RaftSnapshot for TLC. *)
EXTENDS RaftSnapshot

CONSTANTS n1, n2, n3

\* n1 leads in term 1.
OneLeader == (n1 :> {1}) @@ (n2 :> {}) @@ (n3 :> {})
\* n1 leads, then n3.
TwoLeaders == (n1 :> {1}) @@ (n2 :> {}) @@ (n3 :> {2})
\* n1 leads twice.
Again == (n1 :> {1, 2}) @@ (n2 :> {}) @@ (n3 :> {})
\* n1 leads twice, then n3.
Returning == (n1 :> {1, 2}) @@ (n2 :> {}) @@ (n3 :> {3})

\* n2 lags and heartbeats fall into its transfer of several chunks.
Transfer ==
  [threshold |-> 2, chunks |-> 3, leads |-> OneLeader, log |-> 4, link |-> 3,
   breaks |-> 0, crashes |-> 0, crashing |-> {}, points |-> {},
   lagging |-> {n2}, eager |-> TRUE, fair |-> FALSE]

\* A connection breaks and a process dies, also in a publication.
Restarts ==
  [Transfer EXCEPT !.chunks = 2, !.log = 4, !.link = 2, !.breaks = 1, !.crashes = 1,
                   !.crashing = {n1, n2}, !.points = {"idle", "published"}]

\* Another leader takes over, and a process dies wherever it can; connections end
\* with the process only.
Takeover ==
  [Restarts EXCEPT !.leads = TwoLeaders, !.log = 3, !.breaks = 0, !.eager = FALSE,
                   !.crashing = {n2}, !.points = {"idle", "published", "renamed"}]

\* The leader dies between the file and the compaction, and leads again.
Reelection ==
  [Restarts EXCEPT !.threshold = 1, !.chunks = 1, !.leads = Again, !.log = 3,
                   !.breaks = 0, !.crashing = {n1}, !.eager = FALSE]

\* Connections break, and the leader stays.
CatchUp ==
  [Transfer EXCEPT !.chunks = 2, !.log = 4, !.link = 2, !.breaks = 2,
                   !.eager = FALSE, !.fair = TRUE]

MCScenarios == {Transfer, Restarts, Takeover, Reelection, CatchUp}

=============================================================================

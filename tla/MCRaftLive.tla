----------------------------- MODULE MCRaftLive -----------------------------
(***************************************************************************)
(* Progress for TLC, in two clusters between which the initial state        *)
(* chooses: three servers, where n1 and then n2 lead and n3 restarts, and   *)
(* the lone voter n1, which dies between the persists of its operations.    *)
(***************************************************************************)
EXTENDS RaftNode, TLC

CONSTANTS n1, n2, n3

VARIABLE alone

Succession == n1 :> {1} @@ n2 :> {2} @@ n3 :> {}

Lone ==
  INSTANCE RaftNode WITH
    Server <- {n1}, Command <- {"a", "b"}, Candidacy <- n1 :> 1..3,
    Crashing <- {n1}, MaxLog <- 4

LiveInit == (alone = TRUE /\ Lone!Init) \/ (alone = FALSE /\ Init)

LiveNext == UNCHANGED alone /\ ((alone /\ Lone!Next) \/ (~alone /\ Next))

\* Of the three servers: the Raft thread ticks for ever, so a leader keeps
\* sending; the transport reconnects, so of what a peer sends again and again some
\* arrives; and the transport's fault injection does not repeat frames for ever.
LiveFairness ==
  /\ <>[][alone \/ DeliveredOnce]_vars
  /\ \A s \in Server :
       /\ WF_vars(~alone /\ heartbeat(s) /\ InFlightBound')
       /\ \A p \in peers(s) : SF_vars(~alone /\ Received(s, p) /\ InFlightBound')

LiveSpec == LiveInit /\ [][LiveNext]_<<vars, alone>> /\ LiveFairness

\* A leader that stays in office brings every peer's log and commit index up to
\* its own, however far their logs had diverged and whatever was lost: backing
\* off by the conflict hint ends, and the last commit index reaches everyone.  (DOMAIN
\* role is the set of the voters.)
StableLeaderReplicates ==
  \A l \in Server :
    <>[](l \in DOMAIN role /\ role[l] = "Leader") =>
      <>[](/\ l \in DOMAIN role
           /\ \A p \in DOMAIN role :
                log[p] = log[l] /\ commitIndex[p] = lastIndex(log[l]))

\* In a cluster of one voter a leader commits every entry before it answers,
\* also what a crash between two persists of startElection or propose left.
LoneVoterCommitsAtOnce == alone => Lone!LoneLeaderCommitsAtOnce

=============================================================================

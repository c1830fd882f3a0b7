----------------------------- MODULE MCRaftNode -----------------------------
(***************************************************************************)
(* The cluster of three servers for TLC.  One run covers three scenarios,   *)
(* each with bounds of its own; the scenario is chosen in the initial state.*)
(* In "rivals" two servers stand in terms 1 and 2 and all restart, with     *)
(* three messages in flight and no answers to AppendEntries: votes of an    *)
(* earlier election arrive in a later one.  In "succession" a leader with a *)
(* client's command is deposed.  In "return" the deposed leader comes back  *)
(* with the entries of its first term, each message arriving once.          *)
(***************************************************************************)
EXTENDS RaftNode, RaftCluster, TLC

CONSTANTS n1, n2, n3

VARIABLE scenario

Scenarios == {"rivals", "succession", "return"}

\* The terms each server stands in.
Standing ==
  [rivals     |-> (n1 :> {1, 2} @@ n2 :> {}  @@ n3 :> {1, 2}),
   succession |-> (n1 :> {1}    @@ n2 :> {2} @@ n3 :> {}),
   return     |-> (n1 :> {1, 3} @@ n2 :> {2} @@ n3 :> {})]

\* The servers that restart at any time.
Restarting == [rivals |-> Server, succession |-> {n1, n2}, return |-> {}]

\* The messages in flight at a time.
InFlight == [rivals |-> 3, succession |-> 2, return |-> 2]

AnyStanding == [s \in Server |-> UNION {Standing[c][s] : c \in Scenarios}]

\* Nobody leads and nothing is under way: a moment at which, in every
\* scenario, any server may restart.
Quiet ==
  /\ \A s \in Server : role[s] # "Leader"
  /\ requestVotes \cup voteResponses \cup appendRequests \cup appendResponses = {}

\* A step within the bounds of the scenario.
WithinScenario ==
  /\ Cardinality(requestVotes') + Cardinality(voteResponses')
       + Cardinality(appendRequests') + Cardinality(appendResponses')
       <= InFlight[scenario]
  /\ scenario = "rivals" => appendResponses' = {}
  /\ scenario # "succession" =>
       \A s \in Server : \A i \in DOMAIN log'[s] : log'[s][i].cmd = NoOp
  /\ \A s \in Server :
       role'[s] = "Candidate" =>
         currentTerm'[s] \in Standing[scenario][s] \cup {currentTerm[s]}
  /\ Quiet \/ \A s \in Server \ Restarting[scenario] : leaderId'[s] = None => ~restart(s)

ScenarioInit == Init /\ scenario \in Scenarios

ScenarioNext ==
  /\ \/ scenario = "return" /\ DeliveredOnce
     \/ scenario # "return" /\ Next
  /\ UNCHANGED scenario
  /\ WithinScenario

ScenarioSpec == ScenarioInit /\ [][ScenarioNext]_<<vars, scenario>>

=============================================================================

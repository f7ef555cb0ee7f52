------------------------------ MODULE MCVoting ------------------------------
(* Small instance of the two-list state machine: a nonce per voter, and a   *)
(* second one for those who draw a new one for a change or another cast.    *)
EXTENDS VotingBallotBox

CONSTANTS Renewing, a, b

MCBallots == (Voters \X {1}) \cup (Renewing \X {2})
MCOwner == [x \in MCBallots |-> x[1]]

\* Devices may name any ballot.
MCNamed == Voters \X MCBallots
\* Devices name their own ballots.
MCOwnNamed == {<<x[1], x>> : x \in MCBallots}
MCOptions == {a, b}

\* A first choice each, and a two-entry list that tells the methods apart.
MCChoiceLists == {<<a>>, <<b, a>>}

Config(m, k) == [method |-> m, start |-> 0, end |-> 1, authority |-> k]

MCPollConfigs == {Config("plurality", FALSE), Config("plurality", TRUE),
                  Config("approval", TRUE), Config("ranked", TRUE)}

=============================================================================

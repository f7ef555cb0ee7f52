---------------------------- MODULE MCVotingApp ----------------------------
(* Small instance of the application.                                        *)
EXTENDS VotingApp

CONSTANTS Renewing, a

\* One nonce each, and a second one for voters who draw a new one for a
\* change or another cast.
MCBallots == (Voters \X {1}) \cup (Renewing \X {2})
MCOwner == [x \in MCBallots |-> x[1]]

\* Devices name their own ballots.
MCOwnNamed == {<<x[1], x>> : x \in MCBallots}
\* Those that draw no second nonce may also name the first ballots of others.
MCNamed == MCOwnNamed \cup ((Voters \ Renewing) \X (Voters \X {1}))
MCOptions == {a}
MCChoiceLists == {<<a>>}
MCPollConfigs ==
    {[method |-> "plurality", start |-> 0, end |-> 1, authority |-> TRUE]}

\* No authority: nothing is rescinded or restored.
MCNoAuthority ==
    {[method |-> "plurality", start |-> 0, end |-> 1, authority |-> FALSE]}

=============================================================================

----------------------------- MODULE MCGateway -----------------------------
(* Small instance of the gateway and the relay.                             *)
EXTENDS Gateway

CONSTANTS v1, v2, f1, f2

\* The first voter's client may draw a second nonce.
MCVoters == {v1, v2}
MCBallots == {<<v1, 1>>, <<v1, 2>>, <<v2, 1>>}
MCOwner == [b \in MCBallots |-> b[1]]
\* The gateway's name for a voter is the ledger's.
MCKey == MCOwner
MCViaRelay == {<<v2, 1>>}

MCFlushers == {f1, f2}

=============================================================================

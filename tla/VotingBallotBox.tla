-------------------------- MODULE VotingBallotBox --------------------------
(***************************************************************************)
(* The two-list state machine implements the ballot box.  The refinement   *)
(* mapping uses Owner, which the state machine itself never sees.          *)
(***************************************************************************)
EXTENDS VotingState

\* Voters whom a restore grant or an update across two voters lets have more
\* papers than one, or none.
Spoilt == restores \cup crossed

PaperOf(v) ==
    IF v \in voterRegistry \ Spoilt
    THEN voteDirections[CHOOSE b \in BallotsOf(v) : TRUE].choices
    ELSE None

Box == INSTANCE BallotBox WITH
    phase <- IF poll.status = "pending" THEN "open" ELSE poll.status,
    method <- poll.method,
    box <- [v \in Voters |-> PaperOf(v)],
    counts <- IF tally = None THEN None ELSE tally.counts,
    spoilt <- Spoilt

\* Every step of the two-list state machine is a step of the ballot box or
\* leaves it alone: no paper is lost, doubled or changed between the lists but
\* those of spoilt voters, and while there are none the published counts are
\* the counts of the papers, also after rescissions.
ImplementsBallotBox == Box!Spec

=============================================================================

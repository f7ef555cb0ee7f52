----------------------------- MODULE BallotBox -----------------------------
(***************************************************************************)
(* What the two lists promise together: one box with at most one paper per *)
(* voter, as if ballots and identities had never been separated.  Voters   *)
(* may become spoilt: the box promises nothing about their papers, and     *)
(* nothing about the counts from then on, but the others keep theirs.      *)
(***************************************************************************)
EXTENDS Integers, FiniteSets, Sequences

CONSTANTS Voters, Options, ChoiceLists, None

VARIABLES
    phase,    \* "none", "open" or "closed"
    method,   \* how papers are counted
    box,      \* the paper of each voter, or None
    counts,   \* the published result, or None
    spoilt    \* voters about whose papers nothing is promised

boxVars == <<phase, method, box, counts, spoilt>>

Counts(m, b) ==
    [o \in Options |->
        Cardinality({v \in Voters :
            /\ b[v] # None
            /\ IF m = "approval"
               THEN \E i \in 1..Len(b[v]) : b[v][i] = o
               ELSE b[v][1] = o})]

Init ==
    /\ phase = "none" /\ method = "plurality" /\ counts = None
    /\ box = [v \in Voters |-> None] /\ spoilt = {}

Open ==
    /\ phase = "none" /\ phase' = "open"
    /\ method' \in {"plurality", "approval", "ranked"}
    /\ UNCHANGED <<box, counts, spoilt>>

\* Papers of voters who have none, all at once.
Deposit ==
    /\ phase = "open"
    /\ \E vs \in SUBSET {v \in Voters \ spoilt : box[v] = None} :
          \E papers \in [vs -> ChoiceLists] :
             box' = [v \in Voters |-> IF v \in vs THEN papers[v] ELSE box[v]]
    /\ UNCHANGED <<phase, method, counts, spoilt>>

Replace(v) ==
    /\ phase = "open" /\ box[v] # None
    /\ \E c \in ChoiceLists : box' = [box EXCEPT ![v] = c]
    /\ UNCHANGED <<phase, method, counts, spoilt>>

\* The counts of the papers are published, or some counts if voters are spoilt.
Publish(b) ==
    /\ counts' \in [Options -> Int]
    /\ spoilt = {} => counts' = Counts(method, b)

\* A withdrawal while open, or a rescission at any time; a published result
\* is corrected in the same step.
TakeOut(v) ==
    /\ phase # "none" /\ box[v] # None
    /\ box' = [box EXCEPT ![v] = None]
    /\ IF phase = "closed" THEN Publish(box') ELSE UNCHANGED counts
    /\ UNCHANGED <<phase, method, spoilt>>

Close ==
    /\ phase = "open" /\ phase' = "closed"
    /\ Publish(box)
    /\ UNCHANGED <<method, box, spoilt>>

\* Voters become spoilt: their papers are no longer the box's concern.
Spoil ==
    /\ phase # "none"
    /\ \E vs \in SUBSET Voters :
          /\ spoilt' = spoilt \cup vs
          /\ box' = [v \in Voters |-> IF v \in vs THEN None ELSE box[v]]
    /\ UNCHANGED <<phase, method, counts>>

\* The result is corrected for the papers of spoilt voters.
Correct ==
    /\ phase = "closed" /\ spoilt # {}
    /\ Publish(box)
    /\ UNCHANGED <<phase, method, box, spoilt>>

Next ==
    \/ Open \/ Deposit \/ Close \/ Spoil \/ Correct
    \/ \E v \in Voters : Replace(v) \/ TakeOut(v)

Spec == Init /\ [][Next]_boxVars

=============================================================================

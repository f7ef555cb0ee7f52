------------------------------ MODULE MCDomain -----------------------------
(* Small instance of the chat and store state machines.                     *)
EXTENDS DomainApp, TLC

\* Two submissions for the first participant, one for the others.
CONSTANTS p1, p2, k1, k2

MCParticipants == {p1, p2}
MCSubmissions == {<<p1, 1>>, <<p1, 2>>, <<p2, 1>>}
MCOwner == [s \in MCSubmissions |-> s[1]]
MCValidatorKeys == {k1, k2}
MCTraffics ==
    {{"MailboxCreate", "MessageDispatch", "MailboxClose", "MessageUpdate",
      "MessageWithdraw"},
     {"SecretStore", "SecretReveal", "SecretRotate", "BucketClose",
      "AdverseAction"},
     {"MailboxCreate", "MessageDispatch", "ChatValidator", "SecretStore",
      "StoreValidator"}}
MCGenesis == {k1, k2}

\* Both validators are in the genesis set, so they are interchangeable.
ValidatorSymmetry == Permutations(MCValidatorKeys)

=============================================================================

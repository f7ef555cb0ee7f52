------------------------------- MODULE MCWire -------------------------------
(* Small instance of the shywire node: an empty ledger that is set up, one  *)
(* that carries transfers and adverse actions, one with contracts and one   *)
(* with custody.                                                            *)
EXTENDS WireApp

CONSTANTS a1, c1, c2, n1, n2, k1, k2, tk, val, o1, w1, s1, p1, p2, r1, r2,
          st1, st2, d1, ct

MCProfiles == {"setup", "transfers", "contracts", "custody"}

Transfer(from, to, amount, nullifier, nonce) ==
    [type |-> "Transfer", asset |-> a1, from |-> from, to |-> to,
     amount |-> amount, nullifier |-> nullifier, nonce |-> nonce]

Adverse(action, kind, scope, ref) ==
    [type |-> "AdverseAction", action |-> action, target |-> c1,
     scope |-> scope, kind |-> kind, ref |-> ref,
     signed |-> {"eligibility", "reconciliation"}]

Mint(c) == [type |-> "Mint", asset |-> a1, account |-> c, amount |-> 1]
Burn(c) == [type |-> "Burn", asset |-> a1, account |-> c, amount |-> 1]

Setup ==
    [type : {"RegisterAsset"}, asset : {a1}, name : {1, 2}]
    \cup [type : {"RegisterAccount"}, account : {c1, c2}, wallet : {c1, c2},
          token : {tk, None}]
    \cup {Mint(c1), Mint(c2), Burn(c1)}
    \cup [type : {"RegisterValidator"}, key : {val}, power : {0, 1}]
    \cup {Adverse(k1, "disable", None, None)}

Transfers ==
    {Transfer(c1, c2, 2, n1, k1), Transfer(c1, c2, 1, n2, k2),
     Transfer(c1, c2, 1, n1, k2), Transfer(c2, c1, 1, n2, k1),
     Transfer(c1, c1, 1, n2, k2),
     Mint(c1), Burn(c1),
     Adverse(k1, "freeze", None, None), Adverse(k1, "disable", a1, None),
     Adverse(k1, "redeem_forced", None, None), Adverse(k2, "rescind", None, None),
     Adverse(k2, "restore", None, k1)}

Execute(amount, counterparty, nullifier, nonce) ==
    [type |-> "ExecuteContract", contract |-> ct, asset |-> a1, party |-> c1,
     counterparty |-> counterparty, amount |-> amount, nullifier |-> nullifier,
     nonce |-> nonce, late |-> FALSE]

ContractTraffic ==
    [type : {"RegisterContract"}, contract : {ct}, asset : {a1},
     parties : {{c1, c2}}, pending : BOOLEAN, expires : {TRUE}]
    \cup {[type |-> "ActivateContract", contract |-> ct],
          Execute(2, c2, n1, k1), Execute(1, None, n2, k2),
          Execute(1, c2, n2, k1), Execute(-1, c2, n2, k2),
          [Execute(1, c2, n1, k1) EXCEPT !.late = TRUE],
          Adverse(k1, "disable", None, None),
          Transfer(c1, c2, 2, n1, k2)}

Custody ==
    [type : {"RegisterWarehouseOperator"}, operator : {o1}, warehouse : {w1},
     status : {"active"}]
    \cup [type : {"RegisterAcceptedSkuClass"}, sku : {s1}, status : {"active"}]
    \cup [type : {"RegisterConsortiumPolicy"}, policy : {p1, p2}, asset : {a1},
          operators : {{o1}}, skus : {{s1}}]
    \cup {[type |-> "RecordCustodyIntakeLot", lot |-> l, policy |-> p1,
           asset |-> a1, operator |-> o1, warehouse |-> w1, account |-> c1,
           sku |-> s1, quantity |-> l] : l \in {1, 2}}
    \cup {[type |-> "RequestCustodyRedemption", request |-> q, asset |-> a1,
           account |-> c1, warehouse |-> w1, sku |-> s1, silo |-> 2,
           quantity |-> 2] : q \in {r1, r2}}
    \cup {[type |-> "SettleCustodyRedemption", settlement |-> s, request |-> q,
           operator |-> o1, warehouse |-> w1, burn |-> 1,
           quantity |-> IF s = st1 THEN 2 ELSE 1] :
             s \in {st1, st2}, q \in {r1, r2}}
    \cup {[type |-> "ApplyCustodyDemurrage", assessment |-> d1, asset |-> a1,
           account |-> c1, policy |-> p1, amount |-> 1]}

MCTraffic == [p \in MCProfiles |->
                 CASE p = "setup" -> Setup [] p = "transfers" -> Transfers
                   [] p = "contracts" -> ContractTraffic
                   [] p = "custody" -> Custody]
MCOpening == [p \in MCProfiles |->
                 CASE p = "setup" -> None
                   [] OTHER -> [c \in {c1, c2} |-> IF c = c1 THEN 2 ELSE 1]]
MCMaxTxs == [p \in MCProfiles |-> CASE p = "custody" -> 9
                                    [] p = "transfers" -> 4 [] OTHER -> 5]
MCEnrolled == {<<c1, tk>>, <<c2, tk>>}

=============================================================================

---------------------------- MODULE MCFutuRefresh ----------------------------
(* Three versions of the account: one position held, none, and two, with   *)
(* another one; each moves the fund.                                       *)
EXTENDS FutuRefresh

MCBroker(v) ==
    CASE v = 1 -> [a \in Assets |-> IF a = "b" THEN 0 ELSE 1]
      [] v = 2 -> [a \in Assets |-> 0]
      [] v = 3 -> [a \in Assets |-> IF a = "a" THEN 2 ELSE 1]

Budget(requests, edits, faults, others) ==
    [requests |-> requests, edits |-> edits, faults |-> faults, others |-> others]

MCBudgets ==
    {Budget({"r", "s"}, 0, 1, {}), Budget({"r"}, 0, 2, {"t"}),
     Budget({"r"}, 1, 0, {}), Budget({"r"}, 0, 1, {"n"})}
=============================================================================

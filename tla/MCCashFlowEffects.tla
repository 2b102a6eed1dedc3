------------------------- MODULE MCCashFlowEffects --------------------------
EXTENDS CashFlowEffects

F1 == [id |-> 1, amt |-> 2, when |-> "current"]
F2 == [id |-> 2, amt |-> 3, when |-> "current"]
F3 == [id |-> 1, amt |-> 2, when |-> "future"]
F4 == [id |-> 2, amt |-> 3, when |-> "historic"]
MCFlows == {F1, F2}
MCOneFlow == {F1}
F5 == [id |-> 1, amt |-> 5, when |-> "current"]
MCCorrections == {F1, F2, F5}
MCDatedFlows == {F3, F4}
MCTrades == {100}
MCOpening == [i \in Ids |-> 10]
MCRoles == [p \in Procs |-> IF p = "op" THEN {"operator"}
                           ELSE IF p = "op2" THEN {"operator", "scan"}
                           ELSE {"scan", "nav", "audit"}]
=============================================================================

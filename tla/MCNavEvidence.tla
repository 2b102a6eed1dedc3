---------------------------- MODULE MCNavEvidence ----------------------------
(***************************************************************************)
(* The chain of a NAV's flows, shares and earlier rows: three days, of     *)
(* which a month and a year end with the first; two flows and a repair of  *)
(* the rows, an edit of a flow, or a move of the market and a closing.     *)
(***************************************************************************)
EXTENDS NavChain

Days     == 1 .. 3
Month(d) == IF d = 1 THEN 1 ELSE 2
Year(d)  == Month(d)

\* Amounts that do not divide evenly at a unit value of 2 or 1/2.
FlowAmount(f) == CASE f = "in" -> 57 [] f = "out" -> -33

SomePrices  == {30, 60}
NoBudget    == [entries |-> 2, moves |-> 0, edits |-> 0, closings |-> 0, backfills |-> 0]
SomeBudgets == {[NoBudget EXCEPT !.backfills = 1],
                [NoBudget EXCEPT !.entries = 1, !.edits = 1],
                [NoBudget EXCEPT !.entries = 1, !.moves = 1, !.closings = 1]}
=============================================================================

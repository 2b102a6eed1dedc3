---------------------------- MODULE MCHoldingCases ----------------------------
(* Instances of the holding cases: the event of the holding's arrival and  *)
(* that of one edit, with two operators, or with a second worker (a        *)
(* listener restarted before the old one ended).                           *)
EXTENDS HoldingCases, TLC

MCEvents == {1, 2}

(* Operators are interchangeable in the safety run.                        *)
MCSymmetry == Permutations(Operators)
=============================================================================

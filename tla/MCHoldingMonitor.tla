---------------------------- MODULE MCHoldingMonitor ----------------------------
(* Two records of a monitored identity, with two quantities, zero and one  *)
(* that cannot be compared, and of an excluded identity.                   *)
EXTENDS HoldingMonitor

MCRow ==
    {[asset |-> "a", unit |-> "u", quantity |-> q] : q \in {-1, 0, 1}}
        \cup {[asset |-> "x", unit |-> "u", quantity |-> 1]}
=============================================================================

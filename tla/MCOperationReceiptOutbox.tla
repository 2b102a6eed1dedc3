---------------------- MODULE MCOperationReceiptOutbox ----------------------
(* Instances of the operation receipt outbox: the timer and the monitor as *)
(* two dispatchers, a lease of one tick and one retry delay.               *)
EXTENDS OperationReceiptOutbox, TLC

MCRetryDelay == [n \in {1} |-> n]

(* Receipt keys and dispatchers are interchangeable in the safety run.     *)
MCSymmetry == Permutations(Receipts) \cup Permutations(Dispatchers)
=============================================================================

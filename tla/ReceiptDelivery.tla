--------------------------- MODULE ReceiptDelivery ---------------------------
(***************************************************************************)
(* What an outbox promises of a receipt, whatever its leases, statuses and *)
(* retries: a receipt that is owed is sent by senders charged with it, it  *)
(* counts as settled only when the channel has accepted it, and once       *)
(* settled it is settled for good and nobody is charged with it again.  A  *)
(* sender charged before that may still get the message through.  Where    *)
(* receipts may be in doubt, nobody sends one that is: an operator puts it *)
(* back or declares it settled.                                            *)
(***************************************************************************)
EXTENDS Naturals

CONSTANTS Receipts, Senders,
          MayDoubt       \* a receipt may be put before an operator

VARIABLES state,         \* none, owed, doubted or settled, per receipt
          charged,       \* the senders that may still transmit it, per receipt
          accepted       \* the messages the channel has accepted, per receipt

vars == <<state, charged, accepted>>

Init ==
  /\ state = [r \in Receipts |-> "none"]
  /\ charged = [r \in Receipts |-> {}]
  /\ accepted = [r \in Receipts |-> 0]

Queue(r) ==
  /\ state[r] = "none"
  /\ state' = [state EXCEPT ![r] = "owed"]
  /\ UNCHANGED <<charged, accepted>>

\* A sender takes the receipts of a batch.
Charge(d, batch) ==
  /\ \A r \in batch : state[r] = "owed" /\ d \notin charged[r]
  /\ charged' = [r \in Receipts |-> IF r \in batch THEN charged[r] \cup {d} ELSE charged[r]]
  /\ UNCHANGED <<state, accepted>>

\* A sender is done with a batch; at most one message of it gets through.
Release(d, batch, through) ==
  /\ \A r \in batch : d \in charged[r]
  /\ through \subseteq batch
  /\ \A r, s \in through : r = s
  /\ charged' = [r \in Receipts |-> IF r \in batch THEN charged[r] \ {d} ELSE charged[r]]
  /\ accepted' = [r \in Receipts |-> IF r \in through THEN accepted[r] + 1 ELSE accepted[r]]
  /\ UNCHANGED state

\* Nobody knows what has become of some receipts.
Doubt(batch) ==
  /\ MayDoubt
  /\ \A r \in batch : state[r] = "owed"
  /\ state' = [r \in Receipts |-> IF r \in batch THEN "doubted" ELSE state[r]]
  /\ UNCHANGED <<charged, accepted>>

PutBack(r) ==
  /\ state[r] = "doubted"
  /\ state' = [state EXCEPT ![r] = "owed"]
  /\ UNCHANGED <<charged, accepted>>

Settle(r) ==
  /\ state[r] = "owed" => accepted[r] > 0
  /\ state[r] \in {"owed", "doubted"}
  /\ state' = [state EXCEPT ![r] = "settled"]
  /\ UNCHANGED <<charged, accepted>>

Next ==
  \/ \E r \in Receipts : Queue(r) \/ PutBack(r) \/ Settle(r)
  \/ \E batch \in SUBSET Receipts : Doubt(batch)
  \/ \E d \in Senders, batch \in SUBSET Receipts :
       Charge(d, batch) \/ \E through \in SUBSET batch : Release(d, batch, through)

Spec == Init /\ [][Next]_vars
=============================================================================

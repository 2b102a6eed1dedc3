-------------------------- MODULE MCReceiptProgress --------------------------
(***************************************************************************)
(* Does a receipt whose sender dies come out again?  One of the outboxes   *)
(* runs and the other stands still: that of the NAV receipts, with a run   *)
(* and a drain of the queue, or that of the operations, with one receipt,  *)
(* two dispatchers and two crashes.                                        *)
(***************************************************************************)
EXTENDS NavReceiptOutbox

VARIABLES part, typedRow, typedDisp, typedAccepted, retries, typedCrashes

SomeDelays == <<1>>

O == INSTANCE OperationReceiptOutbox WITH
    Receipts <- {1}, Dispatchers <- {"d1", "d2"}, ClaimIds <- {1, 2, 3, 4},
    Lease <- 2, RetryDelay <- <<1>>, Limit <- 1, MaxOperatorRetries <- 1, MaxCrashes <- 2,
    row <- typedRow, disp <- typedDisp, accepted <- typedAccepted, crashes <- typedCrashes

typed == <<typedRow, typedDisp, typedAccepted, retries, typedCrashes>>
all == <<part, vars, typed>>

MCInit == Init /\ O!Init /\ part \in {"nav", "operations"}

NavStep       == part = "nav" /\ Next /\ UNCHANGED <<part, typed>>
OperationStep == part = "operations" /\ O!Next /\ UNCHANGED <<part, vars>>

\* What each outbox's specification asks of its part.
MCFairness ==
    /\ WF_vars(part = "nav" /\ Tick)
    /\ \A d \in Drainers : WF_vars(part = "nav" /\ Drain(d))
    /\ \A d \in Dispatchers : WF_vars(part = "nav" /\ (SendOf(d) \/ Settle(d)))
    /\ WF_typed(part = "operations" /\ O!Tick)
    /\ \A d \in {"d1", "d2"} :
         /\ WF_typed(part = "operations" /\ \E c \in 1 .. 4 : O!Claim(d, c, {1}))
         /\ WF_typed(part = "operations" /\ O!DispatchStep(d))

MCSpec == MCInit /\ [][NavStep \/ OperationStep]_all /\ MCFairness

(* A sender that dies cannot hide a receipt: a claim of the NAV outbox     *)
(* whose call has ended does not hold its row back, and a row of the       *)
(* operation outbox leaves "sending" for its outcome or for the operator.  *)
InterruptedSendSurfaces ==
    \A r \in Receipts : []<>(~ Abandoned(r) /\ (r = 1 => typedRow[r].status # "sending"))
=============================================================================

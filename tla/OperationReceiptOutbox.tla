----------------------- MODULE OperationReceiptOutbox -----------------------
(***************************************************************************)
(* The typed operation receipt outbox: the table operation_receipt_outbox  *)
(* (operation_state/_operation_receipt_mixin.py, _receipt_tx.py) and the   *)
(* dispatchers that drain it (operation_receipt_outbox_service.py).        *)
(*                                                                         *)
(* Several processes dispatch at once: the five-minute systemd timer, and  *)
(* the holding monitor, which dispatches the one key it has just queued.   *)
(* Each call claims a batch in one SQLite transaction, then sends row by   *)
(* row outside any transaction, so a lease may run out, an operator may    *)
(* decide or another dispatcher may claim between any two of its steps.    *)
(*                                                                         *)
(* Time is relative: `age` counts the ticks since the claim (status        *)
(* "claimed") or since the send started ("sending") and saturates at       *)
(* Lease; `due` counts down to next_attempt_at.  A claim id is a uuid4:    *)
(* uuids are told apart and nothing more, so the least id nothing refers   *)
(* to any more stands for a fresh one.                                     *)
(***************************************************************************)
EXTENDS Integers, FiniteSets

CONSTANTS
    Receipts,       \* receipt keys
    Dispatchers,    \* processes that may run dispatch_pending
    ClaimIds,       \* uuid4 values, numbered
    None,           \* SQL NULL, and "no receipt in hand"
    Lease,          \* _CLAIM_LEASE_MINUTES in ticks
    RetryDelay,     \* _RETRY_MINUTES in ticks, a function of the capped attempt
    Limit,          \* the batch limit
    MaxOperatorRetries, \* bound: operator decisions "retry" per receipt
    MaxCrashes      \* bound: process crashes

Steps == DOMAIN RetryDelay

ASSUME FiniteAssumption == IsFiniteSet(Dispatchers) /\ IsFiniteSet(Receipts)
ASSUME NoneAssumption == None \notin Receipts \cup ClaimIds /\ ClaimIds \subseteq Nat
ASSUME TimeAssumption ==
    /\ Lease \in Nat
    /\ Steps \subseteq Nat \ {0}
    /\ RetryDelay \in [Steps -> Nat]

VARIABLES
    row,        \* the table, one record per receipt key
    disp,       \* the local state of each dispatcher process
    accepted,   \* messages the Feishu channel has accepted, per receipt
    retries,    \* "retry" decisions of the operator, per receipt
    crashes     \* crashes so far

vars == <<row, disp, accepted, retries, crashes>>

Status == {"absent", "pending", "claimed", "sending", "sent", "failed", "unknown"}
Outcome == {"sent", "failed", "unknown"}

Idle == [stage |-> "idle", claim |-> None, batch |-> {}, at |-> None,
         outcome |-> None]

Row == [status : Status, claim : ClaimIds \cup {None}, age : 0 .. Lease,
        due : Nat, attempt : Nat, created : Nat]

Dispatcher == [stage : {"idle", "batch", "send", "mark"},
               claim : ClaimIds \cup {None}, batch : SUBSET Receipts,
               at : Receipts \cup {None}, outcome : Outcome \cup {None}]

Init ==
    /\ row = [r \in Receipts |-> [status |-> "absent", claim |-> None, age |-> 0,
                                  due |-> 0, attempt |-> 0, created |-> 0]]
    /\ disp = [d \in Dispatchers |-> Idle]
    /\ accepted = [r \in Receipts |-> 0]
    /\ retries = [r \in Receipts |-> 0]
    /\ crashes = 0

-----------------------------------------------------------------------------
(* The producers insert a row once per key, in the transaction of the fact  *)
(* it reports.                                                              *)
Enqueue(r) ==
    /\ row[r].status = "absent"
    /\ row' = [row EXCEPT ![r].status = "pending",
                          ![r].created = Cardinality({s \in Receipts : row[s].status # "absent"})]
    /\ UNCHANGED <<disp, accepted, retries, crashes>>

(* The first two UPDATEs of claim_due_operation_receipts: a claim that was  *)
(* never sent goes back to the queue, a send that may have reached the      *)
(* channel does not.                                                        *)
ReturnLost(x) ==
    [x EXCEPT !.status = "failed", !.claim = None, !.due = 0]

MakeUnknown(x) ==
    [x EXCEPT !.status = "unknown", !.claim = None]

(* Mutant: the sweep forgets the rows that are being sent.                  *)
Expire_ForgetsSending(x) ==
    IF x.status = "claimed" /\ x.age = Lease THEN ReturnLost(x) ELSE x

Expire(x) ==
    CASE x.status = "claimed" /\ x.age = Lease -> ReturnLost(x)
      [] x.status = "sending" /\ x.age = Lease -> MakeUnknown(x)
      [] OTHER -> x

IsDue(x) == x.status \in {"pending", "failed"} /\ x.due = 0

(* ORDER BY created_at LIMIT ?                                              *)
OldestBatch(due, rows, batch) ==
    /\ batch \subseteq due
    /\ \A r \in batch, s \in due \ batch : rows[r].created < rows[s].created
    /\ Cardinality(batch) = IF Cardinality(due) <= Limit THEN Cardinality(due) ELSE Limit

Unused(c) ==
    /\ \A r \in Receipts : row[r].claim # c
    /\ \A d \in Dispatchers : disp[d].claim # c

FreshClaim(c) == Unused(c) /\ \A b \in ClaimIds : Unused(b) => c <= b

(* The loop over the claimed rows goes on, or dispatch_pending returns.     *)
Resume(x) ==
    IF x.batch = {} THEN Idle
    ELSE [x EXCEPT !.stage = "batch", !.at = None, !.outcome = None]

(* dispatch_pending claims every due row among `keys`: all of them, or the  *)
(* one receipt_key it was called with.                                      *)
Claim(d, c, keys) ==
    LET swept == [r \in Receipts |-> Expire(row[r])]
        due   == {r \in keys : IsDue(swept[r])}
    IN  /\ disp[d].stage = "idle"
        /\ FreshClaim(c)
        /\ \E batch \in SUBSET due :
             /\ OldestBatch(due, swept, batch)
             /\ row' = [r \in Receipts |->
                          IF r \in batch
                          THEN [swept[r] EXCEPT !.status = "claimed", !.claim = c, !.age = 0]
                          ELSE swept[r]]
             /\ disp' = [disp EXCEPT ![d] = Resume([Idle EXCEPT !.claim = c, !.batch = batch])]
        /\ UNCHANGED <<accepted, retries, crashes>>

(* Mutant: the compare-and-set looks at the status and not at the claim.    *)
Holds_AnyClaim(d, r, status) == row[r].status = status

(* Mutant: there is no compare-and-set.                                     *)
Holds_Anyone(d, r, status) == TRUE

Holds(d, r, status) == row[r].status = status /\ row[r].claim = disp[d].claim

NextInBatch(d, r) ==
    /\ r \in disp[d].batch
    /\ \A s \in disp[d].batch \ {r} : row[r].created < row[s].created

StartSend(d, r) ==
    /\ disp[d].stage = "batch"
    /\ NextInBatch(d, r)
    /\ Holds(d, r, "claimed")
    /\ row' = [row EXCEPT ![r].status = "sending", ![r].age = 0]
    /\ disp' = [disp EXCEPT ![d].stage = "send", ![d].at = r]
    /\ UNCHANGED <<accepted, retries, crashes>>

(* start_operation_receipt_send raises KeyError: the call ends and leaves   *)
(* the rest of its batch claimed until the lease runs out.                  *)
StartSendLost(d, r) ==
    /\ disp[d].stage = "batch"
    /\ NextInBatch(d, r)
    /\ ~ Holds(d, r, "claimed")
    /\ disp' = [disp EXCEPT ![d] = Idle]
    /\ UNCHANGED <<row, accepted, retries, crashes>>

(* Mutant: an exception of the channel is reported as a definite failure.   *)
Deliver_ExceptionIsFailed(d, outcome, reached) ==
    /\ disp[d].stage = "send"
    /\ outcome = "sent" => reached
    /\ accepted' = [accepted EXCEPT ![disp[d].at] = IF reached THEN @ + 1 ELSE @]
    /\ disp' = [disp EXCEPT ![d].stage = "mark", ![d].outcome = outcome]
    /\ UNCHANGED <<row, retries, crashes>>

(* The renderer: no renderer or no credentials is a definite failure, a     *)
(* reply of the channel is an acceptance, and an exception is "unknown",    *)
(* whether or not the message went out (reached).                           *)
Deliver(d, outcome, reached) ==
    /\ disp[d].stage = "send"
    /\ outcome = "sent" => reached
    /\ outcome = "failed" => ~ reached
    /\ accepted' = [accepted EXCEPT ![disp[d].at] = IF reached THEN @ + 1 ELSE @]
    /\ disp' = [disp EXCEPT ![d].stage = "mark", ![d].outcome = outcome]
    /\ UNCHANGED <<row, retries, crashes>>

NextAttempt(n) == IF n + 1 \in Steps THEN n + 1 ELSE n

MarkRow(x, outcome) ==
    LET attempt == NextAttempt(x.attempt)
    IN  [x EXCEPT !.status = outcome, !.attempt = attempt,
                  !.due = IF attempt \in Steps THEN RetryDelay[attempt] ELSE 0,
                  !.claim = None]

Mark(d) ==
    LET r    == disp[d].at
        rest == [disp[d] EXCEPT !.batch = @ \ {r}]
    IN  /\ disp[d].stage = "mark"
        /\ Holds(d, r, "sending")
        /\ row' = [row EXCEPT ![r] = MarkRow(@, disp[d].outcome)]
        /\ disp' = [disp EXCEPT ![d] = Resume(rest)]
        /\ UNCHANGED <<accepted, retries, crashes>>

(* mark_operation_receipt raises KeyError, reported to the caller as        *)
(* OperationReceiptDispatchStateUnknown; the call ends here too.            *)
MarkLost(d) ==
    /\ disp[d].stage = "mark"
    /\ ~ Holds(d, disp[d].at, "sending")
    /\ disp' = [disp EXCEPT ![d] = Idle]
    /\ UNCHANGED <<row, accepted, retries, crashes>>

(* The process dies (or loses the database) between two of its steps; the   *)
(* message it was sending may have gone out.                                *)
Crash(d) ==
    /\ disp[d].stage # "idle"
    /\ crashes < MaxCrashes
    /\ \E reached \in BOOLEAN :
         /\ reached => disp[d].stage = "send"
         /\ accepted' = IF reached THEN [accepted EXCEPT ![disp[d].at] = @ + 1] ELSE accepted
    /\ disp' = [disp EXCEPT ![d] = Idle]
    /\ crashes' = crashes + 1
    /\ UNCHANGED <<row, retries>>

(* `pm receipts resolve`: the operator looks at the channel and decides.    *)
ResolveRetry(r) ==
    /\ row[r].status = "unknown"
    /\ retries[r] < MaxOperatorRetries
    /\ row' = [row EXCEPT ![r].status = "failed", ![r].due = 0]
    /\ retries' = [retries EXCEPT ![r] = @ + 1]
    /\ UNCHANGED <<disp, accepted, crashes>>

ResolveMarkSent(r) ==
    /\ row[r].status = "unknown"
    /\ row' = [row EXCEPT ![r].status = "sent", ![r].due = 0]
    /\ UNCHANGED <<disp, accepted, retries, crashes>>

Aged(x) ==
    [x EXCEPT !.age = IF x.status \in {"claimed", "sending"} /\ @ < Lease THEN @ + 1 ELSE @,
              !.due = IF x.status \in {"pending", "failed"} /\ @ > 0 THEN @ - 1 ELSE @]

Tick ==
    /\ \E r \in Receipts : Aged(row[r]) # row[r]
    /\ row' = [r \in Receipts |-> Aged(row[r])]
    /\ UNCHANGED <<disp, accepted, retries, crashes>>

-----------------------------------------------------------------------------
ClaimAny(d) ==
    \E c \in ClaimIds : \E keys \in {Receipts} \cup {{r} : r \in Receipts} : Claim(d, c, keys)

DispatchStep(d) ==
    \/ \E r \in Receipts : StartSend(d, r) \/ StartSendLost(d, r)
    \/ \E outcome \in Outcome, reached \in BOOLEAN : Deliver(d, outcome, reached)
    \/ Mark(d)
    \/ MarkLost(d)

Next ==
    \/ \E r \in Receipts : Enqueue(r) \/ ResolveRetry(r) \/ ResolveMarkSent(r)
    \/ \E d \in Dispatchers : ClaimAny(d) \/ DispatchStep(d) \/ Crash(d)
    \/ Tick

(* The systemd timer starts a dispatch of the whole queue every five        *)
(* minutes, a running dispatch goes on, and the clock advances.             *)
Fairness ==
    /\ WF_vars(Tick)
    /\ \A d \in Dispatchers : /\ WF_vars(\E c \in ClaimIds : Claim(d, c, Receipts))
                              /\ WF_vars(DispatchStep(d))

Spec == Init /\ [][Next]_vars /\ Fairness

-----------------------------------------------------------------------------
(* Every row and every dispatcher keeps its shape; a dispatcher past        *)
(* start_operation_receipt_send has a receipt in hand.                      *)
TypeOK ==
    /\ row \in [Receipts -> Row]
    /\ disp \in [Dispatchers -> Dispatcher]
    /\ accepted \in [Receipts -> Nat]
    /\ retries \in [Receipts -> Nat]
    /\ crashes \in Nat
    /\ \A d \in Dispatchers :
         /\ disp[d].stage \in {"send", "mark"} => disp[d].at \in Receipts
         /\ disp[d].stage = "mark" => disp[d].outcome \in Outcome

(* docs/holdings-event-listener-runbook.md, "ambiguous sending is never     *)
(* blindly retried": whatever the leases, crashes and late answers do, a    *)
(* reader sees a receipt at most once more than an operator asked for it    *)
(* to be sent again.                                                        *)
NoBlindResend == \A r \in Receipts : accepted[r] <= 1 + retries[r]

(* The queue may only hold a receipt no transmission of which is            *)
(* outstanding: one that could still reach the channel is "sending",        *)
(* "unknown" or settled, or a "retry" of the operator covers it.            *)
InFlight(r) == {d \in Dispatchers : disp[d].stage = "send" /\ disp[d].at = r}

QueuedIsNotInFlight ==
    \A r \in Receipts :
        row[r].status \in {"pending", "failed", "claimed"}
            => accepted[r] + Cardinality(InFlight(r)) <= retries[r]

(* A dispatcher that lost its lease never writes the row any more: a step   *)
(* that marks a row is taken by the dispatcher whose claim the row carries, *)
(* and no two dispatchers ever hold one claim id.                           *)
MarkedByClaimant ==
    [][\A r \in Receipts :
         row[r].status = "sending" /\ row'[r].status \in {"sent", "failed"}
            => \E d \in Dispatchers : /\ disp[d].claim = row[r].claim
                                      /\ disp[d].at = r
                                      /\ disp[d].outcome = row'[r].status
                                      /\ \A e \in Dispatchers \ {d} :
                                            disp[e].claim # row[r].claim]_vars

-----------------------------------------------------------------------------
(* The outbox implements ReceiptDelivery: a dispatcher is charged with the  *)
(* row it is sending, "unknown" is in doubt, and only an acceptance or the  *)
(* operator settles a row, for good.                                        *)
Delivery(x) ==
    CASE x.status = "absent"  -> "none"
      [] x.status = "sent"    -> "settled"
      [] x.status = "unknown" -> "doubted"
      [] OTHER -> "owed"

Promise == INSTANCE ReceiptDelivery WITH
    Senders  <- Dispatchers,
    MayDoubt <- TRUE,
    state    <- [r \in Receipts |-> Delivery(row[r])],
    charged  <- [r \in Receipts |-> InFlight(r)],
    accepted <- accepted

Delivers == Promise!Spec
=============================================================================

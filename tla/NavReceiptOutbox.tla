-------------------------- MODULE NavReceiptOutbox --------------------------
(***************************************************************************)
(* The outbox of NAV receipts: one row per daily run, claimed and sent by  *)
(* the run itself and by whoever drains the queue after a failure.         *)
(* (operation_state/_nav_receipt_mixin.py, nav_receipt_outbox_service.py)  *)
(*                                                                         *)
(* Unlike the operation outbox it has no state between a claim and its     *)
(* outcome: a lease that runs out makes the receipt due again, although    *)
(* the first dispatcher may still send it.  An outcome is written in two   *)
(* calls of the database, a read of the claim and an update that does      *)
(* nothing once the claim is gone.  Time is relative: `age` counts the     *)
(* ticks since the claim up to Lease, `due` those left to the next         *)
(* attempt.                                                                *)
(***************************************************************************)
EXTENDS Integers, FiniteSets, Sequences

CONSTANTS
    Receipts,       \* receipt keys, nav:{run_id}, numbered by created_at
    Runners,        \* processes in which a daily run sends its receipt
    Drainers,       \* processes in which `pm receipts dispatch` drains the queue
    None,
    Lease,          \* _CLAIM_LEASE_MINUTES in ticks
    Delays,         \* _RETRY_MINUTES in ticks, a sequence
    Limit,          \* the batch limit of a drain
    MaxAttempts,    \* bound: attempts counted per row
    MaxAccepted,    \* bound: messages of a receipt the channel accepts
    MaxCrashes      \* bound: process crashes

ASSUME NavReceiptAssumption ==
    /\ Receipts \subseteq Nat
    /\ Lease \in Nat /\ MaxAttempts \in Nat
    /\ Delays \in Seq(Nat) /\ Len(Delays) > 0
    /\ None \notin {"sent", "failed"}

VARIABLES
    row,        \* the table: [status, owner, age, due, attempt]
    disp,       \* the calls in progress: [batch, outcome, seen, for]
    accepted,   \* messages the channel has accepted, per receipt
    told,       \* what enqueue_and_dispatch has returned to the run, per receipt
    lapsed,     \* history: receipts swept between the halves of their run's mark
    crashes

Dispatchers == Runners \cup Drainers

vars == <<row, disp, accepted, told, lapsed, crashes>>

Idle == [batch |-> {}, outcome |-> None, seen |-> None, for |-> None]

\* `owner` stands for the claim id: the dispatcher, while the call that made the
\* claim goes on, and None once it has ended.
Init ==
    /\ row = [r \in Receipts |-> [status |-> "absent", owner |-> None, age |-> 0,
                                  due |-> 0, attempt |-> 0]]
    /\ disp = [d \in Dispatchers |-> Idle]
    /\ accepted = [r \in Receipts |-> 0]
    /\ told = [r \in Receipts |-> None]
    /\ lapsed = {}
    /\ crashes = 0

-----------------------------------------------------------------------------
\* A call that ends without an outcome leaves its claims to their lease.
Disowned(table, d) ==
    [r \in Receipts |-> IF table[r].owner = d THEN [table[r] EXCEPT !.owner = None]
                        ELSE table[r]]

\* The row in hand is the oldest of the batch.
At(d, r) == r \in disp[d].batch /\ \A s \in disp[d].batch : r <= s

\* Mutation: the outcome is written whoever holds the row.
Holds_Anyone(d, r) == TRUE

\* What both statements of mark_nav_receipt ask of the row.
Holds(d, r) == row[r].status = "sending" /\ row[r].owner = d

\* A claim that has outlived its lease is due again.
Swept(x) ==
    IF x.status = "sending" /\ x.age = Lease
    THEN [x EXCEPT !.status = "failed", !.owner = None] ELSE x

\* The rows that a sweep takes from a run which has sent its receipt, has read its
\* claim and has not yet written the outcome.
Lapsing ==
    {r \in Receipts : /\ Swept(row[r]) # row[r]
                      /\ \E d \in Dispatchers : /\ At(d, r) /\ Holds(d, r)
                                               /\ disp[d].for = r /\ disp[d].outcome = "sent"
                                               /\ disp[d].seen # None}

IsDue(x) == x.status \in {"pending", "failed"} /\ x.due = 0

\* The oldest Limit due rows among `keys`, in one transaction.
Batch(table, keys) ==
    LET due == {r \in keys : IsDue(table[r])}
    IN {r \in due : Cardinality({s \in due : s < r}) < Limit}

Claimed(table, d, keys) ==
    LET swept == [r \in Receipts |-> Swept(table[r])]
        batch == Batch(swept, keys)
    IN /\ row' = [r \in Receipts |-> IF r \in batch
                                     THEN [swept[r] EXCEPT !.status = "sending", !.owner = d, !.age = 0]
                                     ELSE swept[r]]
       /\ disp' = [disp EXCEPT ![d].batch = batch]
       /\ lapsed' = lapsed \cup Lapsing

\* claim_due_nav_receipts, for a drain of the queue.
Drain(d) ==
    /\ disp[d] = Idle
    /\ Claimed(row, d, Receipts)
    /\ UNCHANGED <<accepted, told, crashes>>

\* enqueue_nav_receipt; a run that is repeated under its id finds the row there.
Enqueue(r) ==
    /\ row[r].status = "absent"
    /\ row' = [row EXCEPT ![r].status = "pending"]
    /\ UNCHANGED <<disp, accepted, told, lapsed, crashes>>

\* enqueue_and_dispatch of a run whose row is in the table: it claims the row, or
\* reports what the row says.
Dispatch(d, r) ==
    /\ disp[d] = Idle /\ row[r].status # "absent" /\ told[r] # "sent"
    /\ LET swept == [s \in Receipts |-> Swept(row[s])]
       IN IF Batch(swept, {r}) = {r}
          THEN /\ row' = [swept EXCEPT ![r].status = "sending", ![r].owner = d, ![r].age = 0]
               /\ disp' = [disp EXCEPT ![d] = [Idle EXCEPT !.batch = {r}, !.for = r]]
               /\ UNCHANGED told
          ELSE /\ row' = swept
               /\ told' = [told EXCEPT ![r] = IF row[r].status = "sent" THEN "sent" ELSE "queued"]
               /\ UNCHANGED disp
    /\ lapsed' = lapsed \cup Lapsing
    /\ UNCHANGED <<accepted, crashes>>

\* The sender renders and posts the message; an exception counts as a failure
\* even if the message got through.
Send(d, r, success, reached) ==
    /\ At(d, r) /\ disp[d].outcome = None
    /\ success => reached
    /\ reached => accepted[r] < MaxAccepted
    /\ accepted' = [accepted EXCEPT ![r] = IF reached THEN @ + 1 ELSE @]
    /\ disp' = [disp EXCEPT ![d].outcome = IF success THEN "sent" ELSE "failed"]
    /\ UNCHANGED <<row, told, lapsed, crashes>>

Delay(attempt) == Delays[IF attempt <= Len(Delays) THEN attempt ELSE Len(Delays)]

\* The first half of mark_nav_receipt: it reads the attempts of the row it holds.
MarkRead(d, r) ==
    /\ At(d, r) /\ disp[d].outcome # None /\ disp[d].seen = None
    /\ Holds(d, r)
    /\ disp' = [disp EXCEPT ![d].seen = row[r].attempt]
    /\ UNCHANGED <<row, accepted, told, lapsed, crashes>>

Marked(d, r) ==
    LET attempt == disp[d].seen + 1
    IN [row EXCEPT ![r] = [status |-> disp[d].outcome, owner |-> None, age |-> 0,
                           attempt |-> IF attempt <= MaxAttempts THEN attempt ELSE MaxAttempts,
                           due |-> IF disp[d].outcome = "sent" THEN 0 ELSE Delay(attempt)]]

\* The call goes on with the rest of its batch, if there is any.
Rest(d, r) == IF disp[d].batch = {r} THEN Idle
              ELSE [disp[d] EXCEPT !.batch = @ \ {r}, !.outcome = None, !.seen = None]

\* The second half: an update of the row if it is still held.  Whether it was is
\* not looked at, and the run is told the outcome of the sending.
Mark(d, r) ==
    /\ At(d, r) /\ disp[d].seen # None
    /\ row' = IF Holds(d, r) THEN Marked(d, r) ELSE row
    /\ disp' = [disp EXCEPT ![d] = Rest(d, r)]
    /\ told' = IF disp[d].for = r
               THEN [told EXCEPT ![r] = IF disp[d].outcome = "sent" THEN "sent" ELSE "queued"]
               ELSE told
    /\ UNCHANGED <<accepted, lapsed, crashes>>

\* The first half finds no claim, ReceiptDispatchStateUnknown: the call ends, and
\* the rest of its batch waits.
MarkLost(d, r) ==
    /\ At(d, r) /\ disp[d].outcome # None /\ disp[d].seen = None
    /\ ~Holds(d, r)
    /\ disp' = [disp EXCEPT ![d] = Idle]
    /\ row' = Disowned(row, d)
    /\ told' = IF disp[d].for = r THEN [told EXCEPT ![r] = "unknown"] ELSE told
    /\ UNCHANGED <<accepted, lapsed, crashes>>

\* The process dies; the message it was sending may have got through.
Crash(d) ==
    /\ disp[d] # Idle /\ crashes < MaxCrashes
    /\ \E through \in {{}} \cup {{r} : r \in {r \in disp[d].batch : At(d, r) /\ disp[d].outcome = None /\ accepted[r] < MaxAccepted}} :
         accepted' = [r \in Receipts |-> IF r \in through THEN accepted[r] + 1 ELSE accepted[r]]
    /\ disp' = [disp EXCEPT ![d] = Idle]
    /\ row' = Disowned(row, d)
    /\ crashes' = crashes + 1
    /\ UNCHANGED <<told, lapsed>>

Aged(x) ==
    [x EXCEPT !.age = IF x.status = "sending" /\ @ < Lease THEN @ + 1 ELSE @,
              !.due = IF @ > 0 THEN @ - 1 ELSE @]

Tick ==
    /\ \E r \in Receipts : Aged(row[r]) # row[r]
    /\ row' = [r \in Receipts |-> Aged(row[r])]
    /\ UNCHANGED <<disp, accepted, told, lapsed, crashes>>

-----------------------------------------------------------------------------
SendOf(d) == \E r \in Receipts : \E success, reached \in BOOLEAN : Send(d, r, success, reached)

Settle(d) == \E r \in Receipts : MarkRead(d, r) \/ Mark(d, r) \/ MarkLost(d, r)

Next ==
    \/ \E r \in Receipts : Enqueue(r)
    \/ \E d \in Dispatchers : SendOf(d) \/ Settle(d) \/ Crash(d)
    \/ \E d \in Drainers : Drain(d)
    \/ \E d \in Runners, r \in Receipts : Dispatch(d, r)
    \/ Tick

\* The queue is drained again and again, a call goes on, and time passes.
Fairness ==
    /\ WF_vars(Tick)
    /\ \A d \in Drainers : WF_vars(Drain(d))
    /\ \A d \in Dispatchers : WF_vars(SendOf(d) \/ Settle(d))

Spec == Init /\ [][Next]_vars /\ Fairness

-----------------------------------------------------------------------------
Row == [status  : {"absent", "pending", "sending", "failed", "sent"},
        owner   : Dispatchers \cup {None},
        age     : Nat,
        due     : Nat,
        attempt : Nat]

Call == [batch   : SUBSET Receipts,
         outcome : {None, "sent", "failed"},
         seen    : Nat \cup {None},
         for     : Receipts \cup {None}]

TypeOK ==
    /\ row \in [Receipts -> Row]
    /\ disp \in [Dispatchers -> Call]
    /\ accepted \in [Receipts -> Nat]
    /\ told \in [Receipts -> {None, "sent", "queued", "unknown"}]
    /\ lapsed \in SUBSET Receipts

\* What a dispatcher may still transmit: its batch, but for the row it has sent.
Unsent(d) == {r \in disp[d].batch : ~(At(d, r) /\ disp[d].outcome # None)}

Charged(r) == {d \in Dispatchers : r \in Unsent(d)}

Delivery(x) == CASE x.status = "absent" -> "none"
                 [] x.status = "sent"   -> "settled"
                 [] OTHER               -> "owed"

Promise == INSTANCE ReceiptDelivery WITH
    Senders  <- Dispatchers,
    MayDoubt <- FALSE,
    state    <- [r \in Receipts |-> Delivery(row[r])],
    charged  <- [r \in Receipts |-> Charged(r)],
    accepted <- accepted

\* The outbox implements ReceiptDelivery without an operator: however leases and
\* dispatchers race, a row is settled only when a message of it was accepted,
\* stays settled, and is claimed by nobody from then on.
Delivers == Promise!Spec

\* A run that is told "sent" has its receipt accepted by the channel, and its row
\* is settled unless a sweep took the claim between the read and the update of a
\* mark: whatever else races, nothing brings back a receipt reported as sent.
ToldIsSettled ==
    \A r \in Receipts :
      told[r] = "sent" => accepted[r] > 0 /\ (row[r].status = "sent" \/ r \in lapsed)

\* A claim whose call has ended without an outcome does not hold the receipt back.
Abandoned(r) == row[r].status = "sending" /\ row[r].owner = None
=============================================================================

---------------------------- MODULE CashFlowRows ----------------------------
(***************************************************************************)
(* Completing the rows of the cash_flow table: people enter and correct    *)
(* the facts of a flow, every change of a row is an event in a durable     *)
(* inbox, and a worker of the listener fills in the generated fields or    *)
(* leaves a receipt that asks for attention, while an operator reconciles  *)
(* by hand and confirms exchange rates.                                    *)
(* (cash_flow_event_inbox_service.py, cash_flow_event_completion_service.py, *)
(* _cash_flow_event_mixin.py, _fx_confirmation_mixin.py,                   *)
(* cash_flow_repository.py, cash_flow_contracts.py, scripts/pm.py)         *)
(*                                                                         *)
(* Facts stand for what a person enters (date, account, broker, amount and *)
(* currency); the generated fields of a row are the facts and the rate     *)
(* they were computed from.                                                *)
(***************************************************************************)
EXTENDS Integers, FiniteSets, FiniteSetsExt, SequencesExt

CONSTANTS Records, Workers,
          Facts,        \* what a person may enter
          Invalid,      \* the facts that fail validation
          Foreign,      \* the facts in another currency than CNY
          Rate,         \* the rate an operator gives for foreign facts, not 1
          MaxAttempts,  \* the failed attempts after which an event is given up (4)
          Budgets,      \* bounds: entries, edits, deletions, commands, faults, crashes
          None

FactsAssumption == Invalid \subseteq Facts /\ Foreign \subseteq Facts \ Invalid

VARIABLES rows,      \* record -> [facts, rate, gen] or None
          events,    \* the events so far, each [record, at, claim, tries]
          workers,   \* worker -> what it is doing
          command,   \* the operator's reconcile
          confirmed, \* record -> the facts and rate last confirmed, or None
          receipts,  \* the receipts in the outbox
          left       \* what is left of the bounds

vars == <<rows, events, workers, command, confirmed, receipts, left>>

Idle == [at |-> "idle"]

Init ==
  /\ rows = [r \in Records |-> None]
  /\ events = <<>>
  /\ workers = [w \in Workers |-> Idle]
  /\ command = Idle
  /\ confirmed = [r \in Records |-> None]
  /\ receipts = {}
  /\ left \in Budgets

Spend(what) == left[what] > 0 /\ left' = [left EXCEPT ![what] = @ - 1]

-----------------------------------------------------------------------------
(* What a scan of the table makes of its rows.                             *)

\* CashFlowManualDatasetAudit: the valid rows that are the same flow as r.
SameFlow(r) ==
  IF rows[r].facts \in Invalid THEN {r}
  ELSE {q \in Records : rows[q] # None /\ rows[q].facts = rows[r].facts}

\* The rate the generated fields are computed with: 1, the operator's, or the one in the row.
PlannedRate(r, evidence) ==
  CASE rows[r].facts \notin Foreign /\ evidence = None -> 1
    [] rows[r].facts \notin Foreign /\ evidence # None -> None
    [] rows[r].facts \in Foreign /\ evidence # None -> evidence
    [] OTHER -> rows[r].rate

\* What the generated fields should be; None when it cannot be told.
Target(r, evidence) ==
  IF rows[r].facts \in Invalid \/ SameFlow(r) # {r} \/ PlannedRate(r, evidence) = None
    THEN None
    ELSE [facts |-> rows[r].facts, rate |-> PlannedRate(r, evidence)]

\* The row needs no update (status "ok").
Done(r, evidence) ==
  /\ rows[r] # None
  /\ Target(r, evidence) # None
  /\ rows[r].gen = Target(r, evidence) /\ rows[r].rate = Target(r, evidence).rate

\* The updates of a row: only the fields that differ are written.
Updates(r, evidence) ==
  LET t == Target(r, evidence)
  IN [rate |-> IF rows[r].rate = t.rate THEN None ELSE t.rate,
      gen  |-> IF rows[r].gen = t THEN None ELSE t]

\* The rows of a scan that get updates, with them.
Plan(scope, evidence) ==
  [r \in {q \in scope : rows[q] # None /\ Target(q, evidence) # None /\ ~Done(q, evidence)}
     |-> Updates(r, evidence)]

\* Only a row that needs no update has a fingerprint a confirmation can match.
Evidenced(r) ==
  /\ Done(r, None)
  /\ confirmed[r] = [facts |-> rows[r].facts, rate |-> rows[r].rate]

\* What a worker decides about a record it has just read.
Decision(r) ==
  CASE rows[r] = None -> "missing"
    [] rows[r] # None /\ Target(r, None) = None -> "attention"
    [] rows[r] # None /\ Target(r, None) # None ->
         CASE rows[r].facts \in Foreign /\ ~Evidenced(r) -> "attention"
           [] Done(r, None) /\ (rows[r].facts \in Foreign => Evidenced(r)) -> "complete"
           [] OTHER -> "eligible"

\* The receipt of a row that needs attention is about its facts and, for a
\* missing or stale rate, about the confirmation it was compared with.
Attention(r) ==
  IF Decision(r) # "attention" THEN {}
  ELSE {[record |-> r, about |-> rows[r].facts,
         proof |-> IF Target(r, None) = None THEN None ELSE confirmed[r]]}

\* The receipt of an event that failed too often says nothing of the facts.
GivenUp(r) == [record |-> r, about |-> None, proof |-> None]

-----------------------------------------------------------------------------
(* The table.  Every change of a row is an event.                          *)

Event(r) == [record |-> r, at |-> "emitted", claim |-> None, tries |-> 0]

\* The identity of a new row has not been used before.
Fresh(r) ==
  LET unused == {q \in Records : \A i \in 1 .. Len(events) : events[i].record # q}
  IN r \in unused /\ r = CHOOSE q \in unused : TRUE

\* A person enters a row without its generated fields.
Enter(r, f) ==
  /\ Spend("entries")
  /\ Fresh(r)
  /\ rows' = [rows EXCEPT ![r] = [facts |-> f, rate |-> None, gen |-> None]]
  /\ events' = Append(events, Event(r))
  /\ UNCHANGED <<workers, command, confirmed, receipts>>

\* The program adds a complete row, unless it finds one with the same generated key.
Add(r, f) ==
  LET whole == [facts |-> f, rate |-> IF f \in Foreign THEN Rate ELSE 1]
  IN /\ Spend("entries")
     /\ f \notin Invalid
     /\ Fresh(r)
     /\ ~ \E q \in Records : rows[q] # None /\ rows[q].gen # None /\ rows[q].gen.facts = f
     /\ rows' = [rows EXCEPT ![r] = [facts |-> f, rate |-> whole.rate, gen |-> whole]]
     /\ events' = Append(events, Event(r))
     /\ UNCHANGED <<workers, command, confirmed, receipts>>

\* A person corrects the facts; the generated fields stay as they are.
Edit(r, f) ==
  /\ Spend("edits")
  /\ rows[r] # None /\ rows[r].facts # f
  /\ rows' = [rows EXCEPT ![r].facts = f]
  /\ events' = Append(events, Event(r))
  /\ UNCHANGED <<workers, command, confirmed, receipts>>

\* The inbox acts on no deletion.
Delete(r) ==
  /\ Spend("deletions")
  /\ rows[r] # None
  /\ rows' = [rows EXCEPT ![r] = None]
  /\ UNCHANGED <<events, workers, command, confirmed, receipts>>

\* The updates of the records `which` reach the table.
WriteRows(plan, which) ==
  /\ rows' = [r \in Records |->
                IF r \notin which THEN rows[r]
                ELSE [rows[r] EXCEPT !.rate = IF plan[r].rate = None THEN @ ELSE plan[r].rate,
                                     !.gen  = IF plan[r].gen = None THEN @ ELSE plan[r].gen]]
  /\ LET told == SetToSeq(which)
     IN events' = events \o [i \in 1 .. Len(told) |-> Event(told[i])]

\* A batch with a row that is gone fails; a failed batch may have reached the table in part.
Lands(plan, which, whole) ==
  LET there == {r \in DOMAIN plan : rows[r] # None}
  IN /\ which \subseteq there
     /\ IF whole THEN which = DOMAIN plan /\ UNCHANGED left
        ELSE IF there = DOMAIN plan THEN Spend("faults") ELSE UNCHANGED left
     /\ WriteRows(plan, which)

-----------------------------------------------------------------------------
(* The inbox.                                                              *)

Ids == 1 .. Len(events)

\* The listener stores an event before it acknowledges it; a redelivery is ignored.
Accept(e) ==
  /\ events[e].at = "emitted"
  /\ events' = [events EXCEPT ![e].at = "pending"]
  /\ UNCHANGED <<rows, workers, command, confirmed, receipts, left>>

Waiting == {e \in Ids : events[e].at \in {"pending", "failed"}}

\* A worker claims every event that is due.
Claim(w) ==
  /\ workers[w] = Idle
  /\ Waiting # {}
  /\ events' = [e \in Ids |-> IF e \in Waiting
                                THEN [events[e] EXCEPT !.at = "claimed", !.claim = w]
                                ELSE events[e]]
  /\ workers' = [workers EXCEPT ![w] = [at |-> "next", queue |-> Waiting]]
  /\ UNCHANGED <<rows, command, confirmed, receipts, left>>

\* Another worker's claim finds the lease of this claim at its end: its worker has
\* died or takes too long over the events before it.
LeaseEnds(e) ==
  /\ events[e].at = "claimed"
  /\ IF events[e].claim = None THEN UNCHANGED left ELSE Spend("leases")
  /\ events' = [events EXCEPT ![e].at = "failed", ![e].claim = None]
  /\ UNCHANGED <<rows, workers, command, confirmed, receipts>>

Busy(w, at) == workers[w].at = at

Goes(w, to) == workers' = [workers EXCEPT ![w] = to]

RecordOf(w) == events[workers[w].event].record

Holds(w, r) == workers[w].at \in {"scan", "write", "readback", "after"} /\ RecordOf(w) = r

\* A read that may end the handling of the event e without a write.
Decide(w, e, queue, otherwise) ==
  LET r == events[e].record
  IN /\ Goes(w, IF Decision(r) = "eligible"
                  THEN [at |-> otherwise, event |-> e, queue |-> queue]
                  ELSE [at |-> "complete", event |-> e, queue |-> queue, notes |-> Attention(r)])
     /\ UNCHANGED <<rows, events, command, confirmed, receipts, left>>

\* The next claimed event: its record is read without its lock.
Preview(w) ==
  /\ Busy(w, "next")
  /\ LET e == Min(workers[w].queue) IN Decide(w, e, workers[w].queue \ {e}, "locking")

DecideAgain(w, otherwise) == Decide(w, workers[w].event, workers[w].queue, otherwise)

Resume(w) ==
  Goes(w, IF workers[w].queue = {} THEN Idle ELSE [at |-> "next", queue |-> workers[w].queue])

\* The decision is taken again under the lock of the record.
LockedPreview(w) ==
  /\ Busy(w, "locking")
  /\ ~ \E v \in Workers : Holds(v, RecordOf(w))
  /\ DecideAgain(w, "scan")

\* reconcile_cash_flows reads the table once more and plans from that.
Scan(w) ==
  LET r == RecordOf(w)
  IN /\ Busy(w, "scan")
     /\ Goes(w, [at |-> "write", queue |-> workers[w].queue, event |-> workers[w].event,
                 plan |-> Plan({r}, None)])
     /\ UNCHANGED <<rows, events, command, confirmed, receipts, left>>

Write(w) ==
  /\ Busy(w, "write")
  /\ \E which \in SUBSET DOMAIN workers[w].plan, whole \in BOOLEAN :
       /\ Lands(workers[w].plan, which, whole)
       /\ Goes(w, [at |-> IF whole THEN "readback" ELSE "fail",
                   queue |-> workers[w].queue, event |-> workers[w].event])
  /\ UNCHANGED <<command, confirmed, receipts>>

\* The apply succeeds only if the row reads back complete.
Readback(w) ==
  /\ Busy(w, "readback")
  /\ Goes(w, [workers[w] EXCEPT !.at = IF Done(RecordOf(w), None) THEN "after" ELSE "fail"])
  /\ UNCHANGED <<rows, events, command, confirmed, receipts, left>>

\* A last read decides the outcome.
PostPreview(w) == Busy(w, "after") /\ DecideAgain(w, "fail")

Claimed(w) == LET e == events[workers[w].event] IN e.at = "claimed" /\ e.claim = w

\* Nobody works any more on what w has claimed: it waits for the lease to end.
Abandoned(w) ==
  [e \in Ids |-> IF events[e].claim = w THEN [events[e] EXCEPT !.claim = None] ELSE events[e]]

\* Mutation: only the last event of a batch leaves its receipts.
Complete_Untold(w) ==
  /\ Busy(w, "complete")
  /\ IF Claimed(w)
       THEN /\ events' = [events EXCEPT ![workers[w].event].at = "processed",
                                        ![workers[w].event].claim = None]
            /\ receipts' = receipts \cup IF workers[w].queue = {} THEN workers[w].notes ELSE {}
            /\ Resume(w)
       ELSE Goes(w, Idle) /\ events' = Abandoned(w) /\ UNCHANGED receipts
  /\ UNCHANGED <<rows, command, confirmed, left>>

\* The outcome and its receipts are one transaction; without the claim it is
\* refused, and so is the failure that follows: the worker drops its batch.
Complete(w) ==
  /\ Busy(w, "complete")
  /\ IF Claimed(w)
       THEN /\ events' = [events EXCEPT ![workers[w].event].at = "processed",
                                        ![workers[w].event].claim = None]
            /\ receipts' = receipts \cup workers[w].notes
            /\ Resume(w)
       ELSE Goes(w, Idle) /\ events' = Abandoned(w) /\ UNCHANGED receipts
  /\ UNCHANGED <<rows, command, confirmed, left>>

\* mark_cash_flow_event_failed: tried again later, or given up with a receipt.
Fail(w) ==
  LET e == workers[w].event
      tries == events[e].tries + 1
      over == tries >= MaxAttempts
  IN /\ Busy(w, "fail")
     /\ IF Claimed(w)
          THEN /\ events' = [events EXCEPT ![e].at = IF over THEN "processed" ELSE "failed",
                                           ![e].claim = None, ![e].tries = tries]
               /\ receipts' = IF over THEN receipts \cup {GivenUp(RecordOf(w))} ELSE receipts
               /\ Resume(w)
          ELSE Goes(w, Idle) /\ events' = Abandoned(w) /\ UNCHANGED receipts
     /\ UNCHANGED <<rows, command, confirmed, left>>

\* The listener dies: its locks are free, its claims wait for the lease.
Crash(w) ==
  /\ workers[w] # Idle
  /\ Spend("crashes")
  /\ Goes(w, Idle)
  /\ events' = Abandoned(w)
  /\ UNCHANGED <<rows, command, confirmed, receipts>>

-----------------------------------------------------------------------------
(* pm cash-flow reconcile --apply: no lock of a record, no worker.         *)

Start(scope, evidence) ==
  /\ Spend("commands")
  /\ command = Idle
  /\ evidence # None => Cardinality(scope) = 1
  /\ command' = [at |-> "write", scope |-> scope, evidence |-> evidence,
                 plan |-> Plan(scope, evidence)]
  /\ UNCHANGED <<rows, events, workers, confirmed, receipts>>

CommandWrite ==
  /\ command.at = "write"
  /\ \E which \in SUBSET DOMAIN command.plan, whole \in BOOLEAN :
       /\ Lands(command.plan, which, whole)
       /\ command' = IF whole THEN [at |-> "readback", scope |-> command.scope,
                                    evidence |-> command.evidence]
                     ELSE Idle
  /\ UNCHANGED <<workers, confirmed, receipts>>

\* Evidence is confirmed as it reads back, if it reads back complete.
CommandReadback ==
  /\ command.at = "readback"
  /\ command' = IF command.evidence # None /\ \A r \in command.scope : Done(r, command.evidence)
                  THEN [at |-> "confirm", scope |-> command.scope,
                        evidence |-> [r \in command.scope |-> rows[r].gen]]
                  ELSE Idle
  /\ UNCHANGED <<rows, events, workers, confirmed, receipts, left>>

Confirm ==
  /\ command.at = "confirm"
  /\ confirmed' = [r \in Records |-> IF r \in command.scope THEN command.evidence[r]
                                     ELSE confirmed[r]]
  /\ command' = Idle
  /\ UNCHANGED <<rows, events, workers, receipts, left>>

-----------------------------------------------------------------------------

People ==
  \/ \E r \in Records, f \in Facts : Enter(r, f) \/ Add(r, f) \/ Edit(r, f)
  \/ \E r \in Records : Delete(r)

Handle(w) ==
  \/ Claim(w) \/ Preview(w) \/ LockedPreview(w) \/ Scan(w) \/ Write(w)
  \/ Readback(w) \/ PostPreview(w) \/ Complete(w) \/ Fail(w)

Operator ==
  \/ \E r \in Records, evidence \in {None, Rate} : Start({r}, evidence)
  \/ Start(Records, None)
  \/ CommandWrite \/ CommandReadback \/ Confirm

Next ==
  \/ People
  \/ \E e \in Ids : Accept(e) \/ LeaseEnds(e)
  \/ \E w \in Workers : Handle(w) \/ Crash(w)
  \/ Operator

\* The listener runs and receives what Feishu sends (Feishu sends again what was
\* not acknowledged); its loop polls forever; a lease that has run out is swept
\* by the next claim.
Fairness ==
  /\ WF_vars(\E e \in Ids : Accept(e))
  /\ WF_vars(\E e \in Ids : events[e].claim = None /\ LeaseEnds(e))
  /\ \A w \in Workers : WF_vars(Handle(w))

Spec == Init /\ [][Next]_vars /\ Fairness

-----------------------------------------------------------------------------

TypeOK ==
  /\ \A r \in Records : rows[r] # None => rows[r].facts \in Facts
  /\ \A e \in Ids : events[e].at \in {"emitted", "pending", "claimed", "failed", "processed"}
  /\ \A e \in Ids : events[e].claim # None => events[e].at = "claimed"

OnItsWay(r) == \E e \in Ids : events[e].record = r /\ events[e].at # "processed"

Told(r) == \E n \in receipts : n.record = r /\ n.about \in {rows[r].facts, None}

\* The generated fields are those of the facts, at a rate somebody vouched for.
Settled(r) ==
  /\ rows[r].facts \notin Invalid
  /\ rows[r].gen = [facts |-> rows[r].facts, rate |-> rows[r].rate]
  /\ IF rows[r].facts \in Foreign
       THEN confirmed[r] = [facts |-> rows[r].facts, rate |-> rows[r].rate]
       ELSE rows[r].rate = 1

\* No row is forgotten: one that is not complete, and one that is the same flow
\* as another, is on its way through the inbox or has been told of, whatever
\* people, workers and operators do to it meanwhile.
NothingForgotten ==
  \A r \in Records : rows[r] # None =>
    /\ Settled(r) \/ OnItsWay(r) \/ Told(r)
    /\ SameFlow(r) # {r} => \E q \in SameFlow(r) : OnItsWay(q) \/ Told(q)

\* The inbox has nothing left to do, and every row is complete or told of.
RowsAtRest == \A r \in Records : rows[r] # None => ~OnItsWay(r) /\ (Settled(r) \/ Told(r))
=============================================================================

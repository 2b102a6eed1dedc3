------------------------------ MODULE NavChain ------------------------------
(***************************************************************************)
(* How a NAV row comes to be: a run reads the holdings, values them,       *)
(* freezes the cash flows through the dataset gates and records the row    *)
(* from the rows before it; a run the cash flows refuse leaves its         *)
(* valuation behind as evidence, which a later run may replay.             *)
(* (daily_nav_job_service.py, account_nav_recorder_service.py,             *)
(* holdings_nav_preflight_service.py, nav_valuation_evidence_service.py,   *)
(* cash_flow_summary_service.py, nav_record_service.py)                    *)
(*                                                                         *)
(* The money of a flow reaches the holdings when its effect is settled, or *)
(* earlier by a person's edit of the holding; `reflected` is the set of    *)
(* the flows the holdings contain.                                         *)
(***************************************************************************)
EXTENDS NavArithmetic, TLC

CONSTANTS Flows, Runs,
          FirstCash,   \* the money in the account before any flow
          FirstStock,  \* what it holds besides, at its first price
          Amount(_),   \* the amount of a flow
          Prices,      \* the values the stock can take
          Budgets      \* bounds: how many flows, moves, edits, closings and repairs

VARIABLES today,
          flows,      \* the cash_flow table: [date, amount, filled, settled, early] or None
          reflected,  \* the flows whose money is in the holdings
          stock,      \* what the stock is worth now
          rows,       \* nav_history
          runs,       \* the runs under way
          evidence,   \* the saved valuation evidence, or None
          left        \* what is left of the bounds

vars == <<today, flows, reflected, stock, rows, runs, evidence, left>>

Cash == FirstCash + Total(flows, reflected)

Idle == [at |-> "idle"]

Init ==
  /\ today = Min(Dates)
  /\ flows = [f \in Flows |-> None]
  /\ reflected = {}
  /\ stock = FirstStock
  /\ rows = [d \in Dates |-> None]
  /\ runs = [r \in Runs |-> Idle]
  /\ evidence = None
  /\ left \in Budgets

Spend(what) == left[what] > 0 /\ left' = [left EXCEPT ![what] = @ - 1]

-----------------------------------------------------------------------------
(* People, the market and the clock.                                       *)

\* A person records a flow, of today or an earlier day, not yet completed.
EnterFlow(f, d) ==
  /\ Spend("entries")
  /\ flows[f] = None /\ d <= today
  /\ flows' = [flows EXCEPT ![f] = [date |-> d, amount |-> Amount(f), filled |-> FALSE,
                                    settled |-> FALSE, early |-> FALSE]]
  /\ UNCHANGED <<today, reflected, stock, rows, runs, evidence>>

\* The generated fields of the flow are completed.
Fill(f) ==
  /\ flows[f] # None /\ ~flows[f].filled
  /\ flows' = [flows EXCEPT ![f].filled = TRUE]
  /\ UNCHANGED <<today, reflected, stock, rows, runs, evidence, left>>

\* The money of a flow is already in the holdings before its effect is settled.
Reflect(f) ==
  /\ Spend("edits")
  /\ flows[f] # None /\ f \notin reflected
  /\ reflected' = reflected \cup {f}
  /\ flows' = [flows EXCEPT ![f].early = TRUE]
  /\ UNCHANGED <<today, stock, rows, runs, evidence>>

Due_Always(f) == TRUE

\* The effect becomes due when the row of the previous day is recorded, or there is none.
Due(f) ==
  (Recorded(rows) # {} /\ flows[f].date > Min(Dates)) => rows[flows[f].date - 1] # None

\* The effect of a flow is settled: its money is put into the holdings, or found there.
\* `early` remembers, for the properties, that it was there before any row could say so.
Settle(f) ==
  /\ flows[f] # None /\ flows[f].filled /\ ~flows[f].settled
  /\ Due(f)
  /\ flows' = [flows EXCEPT ![f].settled = TRUE,
                             ![f].early = @ \/ Recorded(rows) = {}]
  /\ reflected' = reflected \cup {f}
  /\ UNCHANGED <<today, stock, rows, runs, evidence, left>>

Move(p) ==
  /\ Spend("moves")
  /\ p # stock /\ stock' = p
  /\ UNCHANGED <<today, flows, reflected, rows, runs, evidence>>

NextDay ==
  /\ today + 1 \in Dates
  /\ today' = today + 1
  /\ UNCHANGED <<flows, reflected, stock, rows, runs, evidence, left>>

-----------------------------------------------------------------------------
(* A run: a daily job, the replay of its evidence, or the closing of the   *)
(* account at the value a person observes.                                 *)

Worth == Cash + stock

Begin(r, kind, d, total, counted) ==
  runs' = [runs EXCEPT ![r] = [at |-> "valued", kind |-> kind, date |-> d, total |-> total,
                               flows |-> counted, reflected |-> reflected, raced |-> FALSE]]

AlreadyRecorded(d) == rows[d] # None

\* The daily job skips a date that has a row.  The holdings are read under their locks and
\* valued.
StartDaily(r, d) ==
  /\ runs[r] = Idle /\ d <= today /\ ~AlreadyRecorded(d)
  /\ Begin(r, "daily", d, Worth, None)
  /\ UNCHANGED <<today, flows, reflected, stock, rows, evidence, left>>

\* Evidence is replayed for its own date while the holdings are still what it valued.
Replayable(d) == evidence # None /\ evidence.date = d /\ evidence.reflected = reflected

StartReplay(r, d) ==
  /\ runs[r] = Idle /\ ~AlreadyRecorded(d) /\ Replayable(d)
  /\ Begin(r, "replay", d, evidence.total, evidence.flows)
  /\ UNCHANGED <<today, flows, reflected, stock, rows, evidence, left>>

\* The closing takes the value a person observes.
StartClose(r, d) ==
  /\ Spend("closings")
  /\ runs[r] = Idle /\ d <= today
  /\ Begin(r, "close", d, Worth, None)
  /\ UNCHANGED <<today, flows, reflected, stock, rows, evidence>>

Frozen == [f \in Flows |-> IF flows[f] = None
                             THEN None
                             ELSE [date |-> flows[f].date, amount |-> flows[f].amount]]

\* derive_cash_flow_dataset_rows: a row that is not complete blocks, whatever its date.
Incomplete == {f \in Flows : flows[f] # None /\ ~flows[f].filled}

\* nav_gate scans first, and then an effect that is not settled blocks, unless it is of a
\* later day and not due yet.
Unsettled(d) ==
  {f \in Flows : flows[f] # None /\ ~flows[f].settled /\ (flows[f].date <= d \/ Due(f))}

\* What a daily job leaves when the gate of the effects refuses it.
Evidence(run) == [date |-> run.date, total |-> run.total, reflected |-> run.reflected,
                  flows |-> Frozen]

\* assert_official_scope; a replay also stops when the flows are not those of its evidence.
Refused(run) ==
  \/ Incomplete # {}
  \/ Unsettled(run.date) # {}
  \/ run.kind = "replay" /\ run.flows # Frozen

LeavesEvidence(run) ==
  run.kind = "daily" /\ Incomplete = {} /\ Unsettled(run.date) # {}

\* build_dataset: the flows and the gate of now.  A refusal ends the run.
Freeze(r) ==
  LET run == runs[r]
  IN /\ run.at = "valued"
     /\ runs' = [runs EXCEPT ![r] =
           IF Refused(run) THEN Idle
                           ELSE [run EXCEPT !.at = "frozen", !.flows = Frozen,
                                            !.raced = reflected # run.reflected]]
     /\ evidence' = IF LeavesEvidence(run) THEN Evidence(run) ELSE evidence
     /\ UNCHANGED <<today, flows, reflected, stock, rows, left>>

\* A stored row: its figures and, for the properties, what they were computed from.
Stored(row, run) == row @@ [closed |-> run.kind = "close", flows |-> run.flows,
                            reflected |-> run.reflected, raced |-> run.raced]

\* The row is written in the account's lock, on the rows of now and the flows frozen before;
\* a row that is refused ends the run.
Write(r, row, accepted) ==
  /\ runs[r].at = "frozen"
  /\ rows' = IF accepted /\ ~AlreadyRecorded(runs[r].date)
               THEN [rows EXCEPT ![runs[r].date] = Stored(row, runs[r])]
               ELSE rows
  /\ runs' = [runs EXCEPT ![r] = Idle]
  /\ UNCHANGED <<today, flows, reflected, stock, evidence, left>>

RecordNav(r) ==
  LET run == runs[r]
      row == Build(rows, run.flows, run.date, run.total)
  IN /\ run.at = "frozen" /\ run.kind # "close"
     /\ Write(r, row, /\ Computable(rows, run.date)
                      /\ SelfCheck(rows, run.flows, run.date, row))

RecordClosed(r) ==
  LET run == runs[r]
  IN /\ run.at = "frozen" /\ run.kind = "close"
     /\ Write(r, BuildClosed(rows, run.flows, run.date, run.total), run.total > 0)

-----------------------------------------------------------------------------
(* Recomputing rows from the flows of now (nav_history_repair/backfill.py).*)

\* A row recomputed on the rows before it; its total is kept.
Recomputed(table, d) ==
  Build(table, Frozen, d, table[d].total)
    @@ [table[d] EXCEPT !.flows = Frozen]

\* The table after the rows of the days lo .. hi were recomputed one after the other.
Backfilled(lo, hi) ==
  LET step(table, d) == IF table[d] = None \/ d < lo \/ d > hi
                          THEN table
                          ELSE [table EXCEPT ![d] = Recomputed(table, d)]
      after[d \in Dates \cup {Min(Dates) - 1}] ==
        IF d < Min(Dates) THEN rows ELSE step(after[d - 1], d)
  IN after[Max(Dates)]

\* A row can be recomputed when the gate is open at its date, it is not closed and the new
\* row passes the writer's checks.
Recomputable(table, d) ==
  /\ Unsettled(d) = {}
  /\ ~table[d].closed
  /\ Computable(table, d)
  /\ SelfCheck(table, Frozen, d, Recomputed(table, d))

Kept(table, d) == Recomputed(table, d) = [table[d] EXCEPT !.flows = Frozen]

Changed(table) == {d \in Recorded(rows) : rows[d] # table[d]}

NextToChanged_None(table) == {}

\* _validation_dates: the row after a changed one must be as it would be recomputed.
NextToChanged(table) ==
  {FirstOf({e \in Recorded(rows) : e > d}) : d \in Changed(table)} \ {None}

\* Nothing is written when a row is refused.
Backfill(lo, hi) ==
  /\ Spend("backfills")
  /\ Incomplete = {}
  /\ \E table \in {Backfilled(lo, hi)} :
       /\ Changed(table) # {}
       /\ \A d \in Recorded(rows) : lo <= d /\ d <= hi => Recomputable(table, d)
       /\ \A d \in NextToChanged(table) : d > hi => Recomputable(table, d) /\ Kept(table, d)
       /\ rows' = table
  /\ UNCHANGED <<today, flows, reflected, stock, runs, evidence>>

-----------------------------------------------------------------------------
Next ==
  \/ \E f \in Flows :
        \/ \E d \in Dates : EnterFlow(f, d)
        \/ Fill(f) \/ Reflect(f) \/ Settle(f)
  \/ \E p \in Prices : Move(p)
  \/ NextDay
  \/ \E r \in Runs :
        \/ \E d \in Dates : StartDaily(r, d) \/ StartReplay(r, d) \/ StartClose(r, d)
        \/ Freeze(r) \/ RecordNav(r) \/ RecordClosed(r)
  \/ \E lo, hi \in Recorded(rows) : Backfill(lo, hi)

Spec == Init /\ [][Next]_vars

-----------------------------------------------------------------------------
TypeOK ==
  /\ today \in Dates
  /\ \A f \in Flows : flows[f] # None => /\ flows[f].date \in Dates /\ flows[f].date <= today
                                       /\ (flows[f].settled => flows[f].filled)
  /\ reflected \subseteq {f \in Flows : flows[f] # None}
  /\ \A d \in Dates : rows[d] # None => d <= today /\ rows[d].shares \in Nat

Appears(d) == rows[d] = None /\ rows'[d] # None

\* A row counts the flows whose money is in the holdings it values: every flow it counts was
\* there, unless an effect was settled between the two readings; and what was there of a
\* later day had got in early, or the row fills a hole before a recorded day.
CountsWhatItValues ==
  [][\A d \in Dates : Appears(d) =>
        LET row == rows'[d]
        IN /\ row.raced \/ UpTo(row.flows, d) \subseteq row.reflected
           /\ \A f \in row.reflected \ UpTo(row.flows, d) :
                flows[f].early \/ \E e \in Recorded(rows) : e > d]_vars

\* Rows that count exactly the flows they value, each flow once from row to row.
Matched ==
  LET matched[d \in Dates] ==
        /\ rows[d] # None
        /\ ~rows[d].closed
        /\ rows[d].reflected = UpTo(rows[d].flows, d)
        /\ LET prev == rows[d].prev
           IN /\ prev = LatestBefore(rows, d)
              /\ prev # None => /\ matched[prev]
                               /\ rows[prev].reflected = UpTo(rows[d].flows, prev)
  IN {d \in Dates : matched[d]}

\* Money that comes in or goes out is not a return: while the market stands still, matched
\* rows keep the unit value at which the account began, up to the rounding of their shares,
\* and show no gain of the day.
NoReturnWithoutMove ==
  stock = FirstStock =>
    \A d \in Matched : /\ Abs(rows[d].nav - NavScale) <= 1
                      /\ rows[d].gain \in {None, 0}

\* The shares of a row are those of the row before it and what it issued; only a row put
\* between two others can break that, and no repair does.
SharesAddUp(table) ==
  \A d \in Recorded(table) :
    LET prev == LatestBefore(table, d)
    IN prev # None /\ ~table[d].closed
         => Abs(table[d].shares - table[prev].shares - table[d].change) <= 1

SharesKeepAddingUp ==
  [][SharesAddUp(rows)
       => \/ SharesAddUp(rows')
          \/ \E d, e \in Dates : Appears(d) /\ e > d /\ rows[e] # None]_vars

\* "Any uncertain, failed or unresolved effect refuses the formal NAV write."
NavRefusedWhileUnresolved ==
  [][\A d \in Dates : Appears(d) => Unsettled(d) = {}]_vars
=============================================================================

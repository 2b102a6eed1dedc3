---------------------------- MODULE MCEventInboxes ----------------------------
(***************************************************************************)
(* Do the two event inboxes work through what people do to the sheets?     *)
(* One of them runs and the other stands still: that of the cash-flow      *)
(* rows, or that of the holdings with two workers (a listener restarted    *)
(* before the old one ended) and nobody at the command line.               *)
(***************************************************************************)
EXTENDS HoldingCases

CONSTANTS Records, Facts, Invalid, Foreign, Rate

VARIABLES part, rows, events, workers, command, confirmed, receipts, left

NoBudget == [entries |-> 1, edits |-> 0, deletions |-> 0, commands |-> 0, faults |-> 0,
             crashes |-> 0, leases |-> 0]

Budgets ==
  {[NoBudget EXCEPT !.commands = 1, !.faults = 1],
   [NoBudget EXCEPT !.edits = 1, !.commands = 1],
   [NoBudget EXCEPT !.edits = 1, !.crashes = 1],
   [NoBudget EXCEPT !.edits = 1, !.leases = 1],
   [NoBudget EXCEPT !.faults = 2],
   [NoBudget EXCEPT !.entries = 2, !.deletions = 1]}

R == INSTANCE CashFlowRows

ASSUME R!FactsAssumption

rvars == <<rows, events, workers, command, confirmed, receipts, left>>
all == <<part, vars, rvars>>

MCInit ==
    /\ Init /\ R!Init
    /\ part \in {"rows", "holdings"}
    /\ part = "rows" \/ left = CHOOSE b \in Budgets : TRUE
    /\ part = "holdings" \/ sheet.ident = "quoted"

RowsStep     == part = "rows" /\ R!Next /\ UNCHANGED <<part, vars>>
HoldingsStep == part = "holdings" /\ Next /\ UNCHANGED <<part, rvars>>

\* The fairness of the part that runs: `part` never changes, so a disjunction
\* over it asks of each part what its own specification asks, or less.
Deliver ==
    \/ part = "rows" /\ (\E e \in R!Ids : R!Accept(e)) /\ UNCHANGED <<part, vars>>
    \/ part = "holdings" /\ (\E e \in Events : Accept(e)) /\ UNCHANGED <<part, rvars>>

Tick ==
    \/ /\ part = "rows" /\ UNCHANGED <<part, vars>>
       /\ \E e \in R!Ids : events[e].claim = None /\ R!LeaseEnds(e)
    \/ /\ part = "holdings" /\ UNCHANGED <<part, rvars>>
       /\ \E e \in Events : RetryDue(e) \/ LeaseRunsOut(e)

Run(w) ==
    \/ part = "rows" /\ R!Handle(w) /\ UNCHANGED <<part, vars>>
    \/ part = "holdings" /\ (ClaimEvents(w) \/ Work(w)) /\ UNCHANGED <<part, rvars>>

MCFairness ==
    /\ WF_all(Deliver) /\ WF_all(Tick)
    /\ \A w \in Workers : WF_all(Run(w))

MCSpec == MCInit /\ [][RowsStep \/ HoldingsStep]_all /\ MCFairness

(* No row is forgotten: one that is not complete is on its way through the *)
(* inbox or has been told of.                                              *)
NothingForgotten == R!NothingForgotten

(* Once people stop, the inboxes come to rest: every event of the holdings *)
(* has been processed, and every row is complete or has been told of,      *)
(* whatever workers died, writes failed or leases ran out on the way.      *)
InboxesSettle == <>[](IF part = "rows" THEN R!RowsAtRest ELSE EventsProcessed)
=============================================================================

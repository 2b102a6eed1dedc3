---------------------------- MODULE MCLocalCopies ----------------------------
(***************************************************************************)
(* What processes remember of the tables, of the market and of the broker: *)
(* the account's holdings, the NAV rows of an account, the quotes of two   *)
(* codes, and the receipt of the latest synchronization, on which the gate *)
(* of the NAV writer decides.  One of the copies is at work and the others *)
(* stand still.                                                            *)
(*                                                                         *)
(* Holdings: a service and a Futu sync with a lost call, or two calls of   *)
(* the service with an edit, a lost call and a restart.  NAV rows: two     *)
(* writes and a lost reply, a write beside an edit, or a write and a patch *)
(* beside a restart.  Quotes: a Friday, the week end and the following     *)
(* Monday, with New York 12 hours behind, for two requests and a look at   *)
(* the cache, or for a daily run with a restart.  Gate: from a Friday      *)
(* evening over the week end to a Monday, with syncs, syncs of the         *)
(* balances alone, a fault, an edit, changes of the configuration, a NAV   *)
(* run and a scan, some at a time.                                         *)
(***************************************************************************)
EXTENDS HoldingStore, TLC

CONSTANTS Lag, Dates, RowIds, Details, FirstRows, RowBounds,
          Codes, MarketOf, Job, Accounts, Holds, Instants, MaxAttempts, QuoteBudgets,
          Moments, Versions, Profiles, Valuations, GateBudgets

VARIABLES
    part,
    rows, schema, view, mem, disk, lock, op, rowsLeft, landed, wrote, hand,
    now, quotes, memory, dirty, run, pool, attempts, used, seen, quotesLeft,
    clock, version, profile, sheet, sync, latest, valued, row, twins, artifact, gateLeft, proofs, failed

NavRow(id, date, ver, det) ==
  [id |-> id, date |-> date, ver |-> ver, det |-> det, asked |-> det, ok |-> TRUE]

I == INSTANCE NavIndex WITH
    Processes <- Processes, Ids <- RowIds, Initial <- FirstRows, Bounds <- RowBounds,
    table <- rows, left <- rowsLeft

P == INSTANCE PriceQuotes WITH
    Processes <- Processes, Budgets <- QuoteBudgets, disk <- quotes, left <- quotesLeft

Q == INSTANCE QualityGate WITH
    Budgets <- GateBudgets, now <- clock, left <- gateLeft

ASSUME IndexFacts == I!IndexAssumption
ASSUME P!LagAssumption
ASSUME GateFacts == Q!QualityGateAssumption

indexVars == <<rows, schema, view, mem, disk, lock, op, rowsLeft, landed, wrote, hand>>
quoteVars == <<now, quotes, memory, dirty, run, pool, attempts, used, seen, quotesLeft>>
gateVars == <<clock, version, profile, sheet, sync, latest, valued, row, twins, artifact, gateLeft, proofs, failed>>
allVars == <<part, vars, indexVars, quoteVars, gateVars>>

MCInit ==
    /\ part \in {"holdings", "rows", "quotes", "gate"}
    /\ Init /\ I!Init /\ P!Init /\ Q!Init
    /\ part = "holdings" \/ left = CHOOSE b \in Bounds : TRUE
    /\ part = "rows" \/ rowsLeft = CHOOSE b \in RowBounds : TRUE
    /\ part = "quotes" \/ quotesLeft = CHOOSE b \in QuoteBudgets : TRUE
    /\ part = "gate" \/ gateLeft = CHOOSE b \in GateBudgets : b.scans = 0

HoldingsStep == part = "holdings" /\ Next /\ UNCHANGED <<part, indexVars, quoteVars, gateVars>>
RowsStep     == part = "rows" /\ I!Next /\ UNCHANGED <<part, vars, quoteVars, gateVars>>
QuotesStep   == part = "quotes" /\ P!Next /\ UNCHANGED <<part, vars, indexVars, gateVars>>
GateStep     == part = "gate" /\ Q!Next /\ UNCHANGED <<part, vars, indexVars, quoteVars>>

MCNext == HoldingsStep \/ RowsStep \/ QuotesStep \/ GateStep

MCSpec == MCInit /\ [][MCNext]_allVars

-----------------------------------------------------------------------------
(* The bounds.  Profiles can be told apart only by their being equal.      *)
MCSymmetry == Permutations(Profiles)

Stored(k, q) == [key |-> k, qty |-> q]
OneHeld    == {[i \in Ids |-> IF i = 1 THEN Stored("fund", 1) ELSE None]}
Itself     == [t \in Threads |-> t]

Most(s, m, edits, losses, exits) ==
  [x \in Threads \union {"edits", "losses", "exits"} |->
     CASE x = "service" -> s [] x = "sync" -> m [] x = "edits" -> edits
       [] x = "losses" -> losses [] x = "exits" -> exits]
SomeBounds == {Most(1, 1, 0, 1, 0), Most(2, 0, 1, 1, 1)}

OneRow == {{NavRow(1, 1, 0, "plain")}}
Writes(writes, patches, edits, losses, restarts) ==
  [writes |-> writes, patches |-> patches, edits |-> edits, losses |-> losses, restarts |-> restarts]
SomeRowBounds == {Writes(2, 0, 0, 1, 0), Writes(1, 0, 1, 1, 0), Writes(1, 1, 0, 0, 1)}

At(day, hour, minute) == day * 1440 + hour * 60 + minute
SomeInstants ==
  {At(4, 11, 20), At(4, 12, 10), At(4, 14, 50), At(4, 16, 30), At(4, 22, 0),
   At(5, 5, 0), At(7, 9, 0), At(7, 9, 40)}
Market    == [c \in Codes |-> CASE c = "a" -> "cn" [] c = "s" -> "us"]
Holdings  == [a \in 1 .. 2 |-> {"a", "s"}]
TwoRuns   == 1 .. 2
SomeQuoteBudgets ==
  {[quotes |-> 2, looks |-> 1, runs |-> 0, exits |-> 0],
   [quotes |-> 1, looks |-> 0, runs |-> 1, exits |-> 1]}

SomeMoments == {18, 20, 21, 29}

SomeValuations ==
    {[prices |-> "trusted", fx |-> "trusted", final |-> TRUE, gated |-> FALSE],
     [prices |-> "partial", fx |-> "unavailable", final |-> TRUE, gated |-> FALSE],
     [prices |-> "trusted", fx |-> "trusted", final |-> FALSE, gated |-> FALSE]}

Checks(full, balances, faults, edits, configs, navs, scans) ==
    [full |-> full, balances |-> balances, faults |-> faults, edits |-> edits, configs |-> configs,
     navs |-> navs, scans |-> scans]

SomeGateBudgets ==
    {Checks(2, 0, 1, 0, 0, 1, 0), Checks(1, 1, 0, 1, 0, 1, 0), Checks(1, 0, 0, 0, 2, 1, 0),
     Checks(1, 0, 1, 1, 0, 0, 1), Checks(1, 0, 0, 0, 1, 0, 1), Checks(1, 1, 0, 0, 0, 0, 1)}

-----------------------------------------------------------------------------
(* A process never loses sight of what it wrote itself, be it a holding or *)
(* a NAV row.                                                              *)
WritesAreSeen == OwnWritesAreSeen /\ I!WritesAreSeen

(* A copy answers with what one read of the table gave: all the holdings   *)
(* of the account, and no NAV row the table has not held.                  *)
CopiesWereThere == LoadedIsWhole /\ I!ServedWasThere

(* No full write of ours leaves a date with two NAV rows, and a row        *)
(* written as final stays so.                                              *)
RowsAreKept == I!NoTwinsOfOurs /\ I!FinalityIsKept

(* A quote that is used is current, or marked stale while its market has   *)
(* stood still since it expired, and is the same for every account.        *)
QuotesAreGood == P!FreshIsCurrent /\ P!StaleFailsClosed /\ []P!SameForAllAccounts

(* A NAV is written on holdings that a full sync of the configured broker  *)
(* account, in the newest window, has found on the sheet, and never after  *)
(* an attempt that said it could not synchronize.                          *)
NavRestsOnProof == Q!NavOnProof /\ Q!NavNotAfterFailure

(* What readers are told is true: a healthy account was synchronized in    *)
(* the newest window, and a NAV reported trusted passes the writer's gate. *)
ReportIsTrue == Q!HealthyHasSynced /\ Q!PublishedIsAdmitted
=============================================================================

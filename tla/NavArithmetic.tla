---------------------------- MODULE NavArithmetic ----------------------------
(***************************************************************************)
(* The arithmetic of a net asset value (NAV) record: which earlier rows it *)
(* starts from, which cash flows it counts, the shares, unit value and     *)
(* gains it computes, and the self-check its writer makes before storing   *)
(* it (NavHistoryIndex, CashFlowDatasetSnapshot, NavCalculator).           *)
(*                                                                         *)
(* Money and shares are integers in their own least unit (0.01 in the      *)
(* code); a unit value is an integer in units of 1/NavScale (1e-6 in the   *)
(* code).  Shares are kept unrounded while a row is computed, as a         *)
(* fraction <<numerator, denominator>>, and rounded when it is stored.     *)
(***************************************************************************)
EXTENDS Integers, FiniteSetsExt

CONSTANTS Dates,       \* the calendar, an interval of integers
          MonthOf(_),  \* the number of a date's month, counted without a break
          YearOf(_),
          NavScale,    \* how many of its least units make a unit value of 1
          None

ASSUME NavScaleAssumption == NavScale \in Nat \ {0}

Abs(n) == IF n < 0 THEN -n ELSE n

\* Decimal.quantize with ROUND_HALF_UP: a half is rounded away from zero.
Round(n, d) == LET q == (2 * Abs(n) + d) \div (2 * d) IN IF n < 0 THEN -q ELSE q

Total(flows, chosen) == MapThenSumSet(LAMBDA f : flows[f].amount, chosen)

-----------------------------------------------------------------------------
(* NavHistoryIndex.  A history is a function from Dates to a row or None.  *)

Recorded(rows) == {d \in Dates : rows[d] # None}

LastOf(days) == IF days = {} THEN None ELSE Max(days)

FirstOf(days) == IF days = {} THEN None ELSE Min(days)

LatestBefore(rows, d) == LastOf({e \in Recorded(rows) : e < d})

PrevMonthEnd(rows, d) == LastOf({e \in Recorded(rows) : MonthOf(e) = MonthOf(d) - 1})

PrevYearEnd(rows, d) == LastOf({e \in Recorded(rows) : YearOf(e) = YearOf(d) - 1})

\* The unit value a month's return starts from: the end of the month before, or the
\* first row of this month.
MonthBase(rows, d) ==
  IF PrevMonthEnd(rows, d) # None
    THEN PrevMonthEnd(rows, d)
    ELSE FirstOf({e \in Recorded(rows) : e < d /\ MonthOf(e) = MonthOf(d)})

-----------------------------------------------------------------------------
(* CashFlowDatasetSnapshot.summary.  A dataset is a function from flows to *)
(* [date, amount] or None.                                                 *)

UpTo(flows, d) == {f \in DOMAIN flows : flows[f] # None /\ flows[f].date <= d}

Gap_Inclusive(flows, prev, d) ==
  {f \in UpTo(flows, d) : IF prev = None THEN flows[f].date = d ELSE flows[f].date >= prev}

\* The flows of the first row are those of its own day; of any other, those since the
\* previous row.
Gap(flows, prev, d) ==
  {f \in UpTo(flows, d) : IF prev = None THEN flows[f].date = d ELSE flows[f].date > prev}

OfDay(flows, d)   == {f \in UpTo(flows, d) : flows[f].date = d}
OfMonth(flows, d) == {f \in UpTo(flows, d) : MonthOf(flows[f].date) = MonthOf(d)}
OfYear(flows, d)  == {f \in UpTo(flows, d) : YearOf(flows[f].date) = YearOf(d)}

-----------------------------------------------------------------------------
(* NavCalculator.                                                          *)

\* A previous row must have a positive unit value and shares that are not negative.
Computable(rows, d) ==
  LET prev == LatestBefore(rows, d)
  IN prev # None => rows[prev].nav > 0 /\ rows[prev].shares >= 0

\* The shares as a fraction: the previous shares and the gap priced at the previous unit
\* value.  The first row has one share per unit of money.
ShareFraction(rows, flows, d, total) ==
  LET prev == LatestBefore(rows, d)
      gap  == Total(flows, Gap(flows, prev, d))
  IN IF prev = None
       THEN <<total, 1>>
       ELSE <<rows[prev].shares * rows[prev].nav + gap * NavScale, rows[prev].nav>>

UnitValue(total, share) ==
  IF share[1] > 0 THEN Round(total * share[2] * NavScale, share[1]) ELSE NavScale

Return(nav, base) == IF base <= 0 THEN None ELSE Round((nav - base) * NavScale, base)

MonthReturn(rows, d, nav) ==
  LET base == MonthBase(rows, d) IN IF base = None THEN None ELSE Return(nav, rows[base].nav)

\* The gain since a row, net of the flows of a period; None when there is no such row.
GainSince(rows, base, total, flow) ==
  IF base = None THEN None ELSE total - rows[base].total - flow

\* The money the account started with: the first row's total, when its unit value is
\* within 0.01 of 1.
InitialValue(rows) ==
  LET first == FirstOf(Recorded(rows))
  IN IF first # None /\ 100 * Abs(rows[first].nav - NavScale) < NavScale
       THEN rows[first].total
       ELSE None

\* calc_nav_metrics: the figures of a row, its shares not yet rounded.
Metrics(rows, flows, d, total) ==
  LET prev  == LatestBefore(rows, d)
      gap   == Total(flows, Gap(flows, prev, d))
      share == ShareFraction(rows, flows, d, total)
      nav   == UnitValue(total, share)
  IN [total  |-> total,
      prev   |-> prev,
      shares |-> share,
      nav    |-> nav,
      flow   |-> Total(flows, OfDay(flows, d)),
      change |-> IF prev = None THEN <<gap, 1>> ELSE <<gap * NavScale, rows[prev].nav>>,
      gain   |-> IF prev # None /\ prev = d - 1
                   THEN total - rows[prev].total - gap
                   ELSE None,
      month  |-> GainSince(rows, PrevMonthEnd(rows, d), total,
                           Total(flows, OfMonth(flows, d))),
      year   |-> GainSince(rows, PrevYearEnd(rows, d), total,
                           Total(flows, OfYear(flows, d))),
      sofar  |-> IF InitialValue(rows) = None
                   THEN 0
                   ELSE total - InitialValue(rows) - Total(flows, UpTo(flows, d)),
      return |-> MonthReturn(rows, d, nav)]

\* build_nav_record: the shares are rounded only now.
Build(rows, flows, d, total) ==
  [Metrics(rows, flows, d, total)
     EXCEPT !.shares = Round(@[1], @[2]), !.change = Round(@[1], @[2])]

\* A closed account: no shares and a unit value of 1, whatever it is worth.
BuildClosed(rows, flows, d, total) ==
  [Build(rows, flows, d, total)
     EXCEPT !.shares = 0, !.nav = NavScale, !.change = 0, !.gain = None, !.month = None,
            !.year = None, !.sofar = None, !.return = None]

\* assert_nav_invariants: what of the row can disagree with the rounded figures stored.
\* Everything else it recomputes by the formulas the row was built with.
SelfCheck(rows, flows, d, row) ==
  LET share == ShareFraction(rows, flows, d, row.total)
  IN /\ row.shares > 0
     /\ Abs(row.nav - Round(row.total * NavScale, row.shares)) <= 1
     /\ row.shares = Round(share[1], share[2])
     /\ MonthBase(rows, d) # None => rows[MonthBase(rows, d)].nav > 0
=============================================================================

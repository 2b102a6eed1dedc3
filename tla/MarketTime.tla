----------------------------- MODULE MarketTime -----------------------------
(***************************************************************************)
(* Trading hours and what the price cache derives from them: how long a    *)
(* quote keeps, and whether a market has traded between two instants.      *)
(* (market_time.py)                                                        *)
(*                                                                         *)
(* An instant is a minute since a Monday 00:00 in Beijing.  Exchange       *)
(* holidays are outside the calendar of the code and of this module.       *)
(***************************************************************************)
EXTENDS Integers

CONSTANT Lag   \* minutes New York is behind Beijing: 12 or 13 hours

LagAssumption == Lag \in {720, 780}

Local(market, m) == IF market = "us" THEN m - Lag ELSE m
Weekday(m)       == (m \div 1440) % 7
Clock(m)         == m % 1440

\* The minutes of a weekday at which is_cn_market_open and its siblings say yes:
\* Beijing sessions include their last minute, New York's does not.
Sessions(market) ==
  CASE market = "cn" -> (570 .. 690) \cup (780 .. 900)
    [] market = "hk" -> (570 .. 720) \cup (780 .. 960)
    [] market = "us" -> 570 .. 959
    [] OTHER         -> {}

Open(market, m) ==
  LET local == Local(market, m)
  IN Weekday(local) < 5 /\ Clock(local) \in Sessions(market)

Openings(market) == IF market = "us" THEN {570} ELSE {570, 780}

\* has_market_session_between: the openings after start are probed, day by day;
\* an unknown market is taken to have traded.
SessionBetween(market, start, end) ==
  IF market \notin {"cn", "hk", "us"} THEN TRUE
  ELSE /\ end > start
       /\ \/ Open(market, start)
          \/ \E day \in Local(market, start) \div 1440 .. Local(market, end) \div 1440,
                opening \in Openings(market) :
               LET probe == day * 1440 + opening + (start - Local(market, start))
               IN start < probe /\ probe <= end /\ Open(market, probe)

\* Mutation: the lunch break is taken for the end of the day.
UntilNextOpen_NoLunch(market, m) ==
  LET local == Local(market, m)
      ahead(days, minute) == (local - Clock(local)) + days * 1440 + minute - local
      weekday == Weekday(local)
  IN IF weekday >= 5 THEN ahead(7 - weekday, 570)
     ELSE IF Clock(local) < 570 THEN ahead(0, 570)
     ELSE ahead(IF weekday = 4 THEN 3 ELSE 1, 570)

\* The minutes to the next opening of a market that is closed.
UntilNextOpen(market, m) ==
  LET local == Local(market, m)
      ahead(days, minute) == (local - Clock(local)) + days * 1440 + minute - local
      weekday == Weekday(local)
  IN IF weekday >= 5 THEN ahead(7 - weekday, 570)
     ELSE IF Clock(local) < 570 THEN ahead(0, 570)
     ELSE IF market # "us" /\ Clock(local) < 780 THEN ahead(0, 780)
     ELSE ahead(IF weekday = 4 THEN 3 ELSE 1, 570)

\* The minutes to the evening a fund's value is taken to be renewed.
UntilFundUpdate(m) ==
  LET weekday == Weekday(m)
      days == CASE weekday = 4 -> 3 [] weekday = 5 -> 2 [] OTHER -> 1
  IN (m - Clock(m)) + days * 1440 + 1140 - m

\* get_cache_ttl, in minutes.
TimeToLive(market, m) ==
  CASE market \in {"cn", "hk", "us"} /\ Open(market, m)  -> 30
    [] market \in {"cn", "hk", "us"} /\ ~Open(market, m) -> UntilNextOpen(market, m)
    [] market = "fund" -> UntilFundUpdate(m)
    [] OTHER -> 60

-----------------------------------------------------------------------------
(* What the two are for, minute by minute.                                 *)

TradedMinutes(market, start, end) == {m \in start + 1 .. end : Open(market, m)}
=============================================================================

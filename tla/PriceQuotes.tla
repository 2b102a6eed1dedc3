----------------------------- MODULE PriceQuotes -----------------------------
(***************************************************************************)
(* Quotes for a valuation: the price cache on disk and in the memory of    *)
(* each process, the batch planner with its fall-back to expired quotes,   *)
(* and the quotes a daily run shares between its accounts.                 *)
(* (pricing/cache.py, pricing/service.py, pricing/batch.py,                *)
(* pricing/providers, local_cache.py, app/run_quote_pool.py,               *)
(* app/valuation_service.py)                                               *)
(*                                                                         *)
(* A price is not modelled: a quote is the instant it was observed at, and *)
(* is as good as the market has stood still since.  Rates of exchange are  *)
(* taken to be at hand.                                                    *)
(***************************************************************************)
EXTENDS MarketTime, FiniteSets, FiniteSetsExt

CONSTANTS Codes, MarketOf,   \* the priced codes and their markets
          Processes,         \* the processes with a price cache; Job runs the daily NAV
          Job,
          Accounts, Holds,   \* the accounts of a run, 1 .. n, and the codes each holds
          Instants,          \* the instants at which something happens
          MaxAttempts,       \* RunQuotePool.max_attempts (2)
          Budgets,           \* bounds of a scenario: quotes, looks, runs, exits
          None

VARIABLES now, disk, memory, dirty,
          run,      \* the account the run is at, or 0
          pool,     \* code -> the quote the run shares, or None
          attempts, \* code -> the fetches the run has delegated
          used,     \* the quotes of the run's accounts: account -> code -> quote
          seen,     \* the quotes a step has just given: code -> quote
          left

vars == <<now, disk, memory, dirty, run, pool, attempts, used, seen, left>>

Nothing == [c \in Codes |-> None]

Init ==
  /\ now = Min(Instants)
  /\ disk = Nothing
  /\ memory = [p \in Processes |-> Nothing]
  /\ dirty = [p \in Processes |-> FALSE]
  /\ run = 0
  /\ pool = Nothing
  /\ attempts = [c \in Codes |-> 0]
  /\ used = [a \in Accounts |-> Nothing]
  /\ seen = Nothing
  /\ left \in Budgets

Spend(what) == left[what] > 0 /\ left' = [left EXCEPT ![what] = @ - 1]

-----------------------------------------------------------------------------
(* The cache of a process.  An entry is [at, until].                       *)

\* A quote that expired is only good while its market has not traded since.
Cached(p, c, accept) ==
  LET entry == memory[p][c]
  IN CASE entry = None -> None
       [] entry # None ->
            CASE entry.until > now -> [at |-> entry.at, until |-> entry.until, stale |-> FALSE]
              [] entry.until <= now /\ accept /\ ~SessionBetween(MarketOf[c], entry.until, now) ->
                   [at |-> entry.at, until |-> entry.until, stale |-> TRUE]
              [] OTHER -> None

\* Reading an expired entry that is not wanted deletes it.
Dropped(p, codes) == {c \in codes : memory[p][c] # None /\ memory[p][c].until < now}

Entry(c) == [at |-> now, until |-> now + TimeToLive(MarketOf[c], now)]

\* The entries `gone` leave the cache, which is written at once; then those of
\* `saved` enter it, to be written with the next flush.
CacheChanges(p, gone, saved) ==
  LET kept == [c \in Codes |-> IF c \in gone THEN None ELSE memory[p][c]]
  IN /\ disk' = IF gone = {} THEN disk ELSE kept
     /\ memory' = [memory EXCEPT ![p] = [c \in Codes |-> IF c \in saved THEN Entry(c) ELSE kept[c]]]
     /\ dirty' = [dirty EXCEPT ![p] = saved # {} \/ (gone = {} /\ @)]

\* The delayed flush writes all the process has in memory over the file.
Flush(p) ==
  /\ dirty[p]
  /\ disk' = memory[p]
  /\ dirty' = [dirty EXCEPT ![p] = FALSE]
  /\ seen' = Nothing
  /\ UNCHANGED <<now, memory, run, pool, attempts, used, left>>

\* A process ends, with its last flush or without, and the next one reads the file.
Restart(p) ==
  /\ Spend("exits")
  /\ p = Job => run = 0
  /\ disk' \in {disk, IF dirty[p] THEN memory[p] ELSE disk}
  /\ memory' = [memory EXCEPT ![p] = disk']
  /\ dirty' = [dirty EXCEPT ![p] = FALSE]
  /\ seen' = Nothing
  /\ UNCHANGED <<now, run, pool, attempts, used>>

-----------------------------------------------------------------------------
(* One quote, and a batch of them.                                         *)

\* A stale quote is only asked for while every market is closed.
AcceptStale == \A market \in {"cn", "hk", "us"} : ~Open(market, now)

Realtime == [at |-> now, until |-> None, stale |-> FALSE]

\* fetch_quote: a quote that has not expired, else a provider's, which is kept.
Quote(p, c) ==
  /\ Spend("quotes")
  /\ IF Cached(p, c, FALSE) # None
       THEN seen' = [Nothing EXCEPT ![c] = Cached(p, c, FALSE)] /\ CacheChanges(p, {}, {})
       ELSE \E answered \in SUBSET {c} :
              /\ seen' = [Nothing EXCEPT ![c] = IF answered = {} THEN None ELSE Realtime]
              /\ CacheChanges(p, Dropped(p, {c}), answered)
  /\ UNCHANGED <<now, run, pool, attempts, used>>

\* The batch of a process for `codes`, answered in a batch for `batched` and one
\* by one for `single`; only an answer to a single request is kept.
Missing(p, codes) == {c \in codes : Cached(p, c, AcceptStale) = None \/ Cached(p, c, AcceptStale).stale}

Batch(p, codes, batched, single) ==
  [c \in Codes |-> IF c \in batched \cup single THEN Realtime
                   ELSE IF c \in codes THEN Cached(p, c, AcceptStale) ELSE None]

\* The first read drops what it may not use; the single requests read again,
\* and never ask for a stale quote.
BatchChanges(p, codes, batched, single) ==
  LET alone == {c \in Missing(p, codes) \ batched : MarketOf[c] # "us"}
  IN CacheChanges(p, Dropped(p, IF AcceptStale THEN alone ELSE codes), single)

Answers(p, codes, batched, single) ==
  /\ batched \subseteq Missing(p, codes)
  /\ single \subseteq {c \in Missing(p, codes) \ batched : MarketOf[c] # "us"}

\* A valuation outside a run.
Look(p, codes) ==
  /\ Spend("looks")
  /\ \E batched, single \in SUBSET codes :
       /\ Answers(p, codes, batched, single)
       /\ seen' = Batch(p, codes, batched, single)
       /\ BatchChanges(p, codes, batched, single)
  /\ UNCHANGED <<now, run, pool, attempts, used>>

-----------------------------------------------------------------------------
(* The daily run values its accounts one after another.                    *)

StartRun ==
  /\ Spend("runs")
  /\ run = 0
  /\ run' = Min(Accounts)
  /\ pool' = Nothing
  /\ attempts' = [c \in Codes |-> 0]
  /\ used' = [a \in Accounts |-> Nothing]
  /\ seen' = Nothing
  /\ UNCHANGED <<now, disk, memory, dirty>>

\* A shared quote is used again, a stale one only while every market is closed.
Reusable(c) == pool[c] # None /\ (pool[c].stale => AcceptStale)

Delegated(codes) == {c \in codes : ~Reusable(c) /\ attempts[c] < MaxAttempts}

NextAccount(a) == IF a = Max(Accounts) THEN 0 ELSE a + 1

Value ==
  LET codes == Holds[run]
      asked == Delegated(codes)
  IN /\ run # 0
     /\ \E batched, single \in SUBSET asked :
          /\ Answers(Job, asked, batched, single)
          /\ LET got == Batch(Job, asked, batched, single)
             IN /\ pool' = [c \in Codes |->
                              IF c \notin codes \/ Reusable(c) THEN pool[c]
                              ELSE got[c]]
                /\ seen' = [c \in Codes |-> IF c \in asked THEN got[c] ELSE None]
          /\ BatchChanges(Job, asked, batched, single)
     /\ attempts' = [c \in Codes |-> attempts[c] + IF c \in asked THEN 1 ELSE 0]
     /\ used' = [used EXCEPT ![run] = [c \in Codes |-> IF c \in codes THEN pool'[c] ELSE None]]
     /\ run' = NextAccount(run)
     /\ UNCHANGED <<now, left>>

Tick ==
  /\ \E later \in Instants : now < later /\ now' = later
  /\ seen' = Nothing
  /\ UNCHANGED <<disk, memory, dirty, run, pool, attempts, used, left>>

Next ==
  \/ \E p \in Processes : Flush(p) \/ Restart(p) \/ \E c \in Codes : Quote(p, c)
  \/ \E p \in Processes : Look(p, Codes)
  \/ StartRun \/ Value \/ Tick

Spec == Init /\ [][Next]_vars

-----------------------------------------------------------------------------

TypeOK ==
  /\ now \in Instants
  /\ run \in {0} \cup Accounts
  /\ \A c \in Codes, p \in Processes : memory[p][c] # None => memory[p][c].at <= now
  /\ \A c \in Codes : seen[c] # None => seen[c].at <= now

Exchange(c) == MarketOf[c] \in {"cn", "hk", "us"}

\* A quote that is not marked stale, taken from the cache or from a provider, was
\* observed at most 30 minutes of trading ago, whatever nights, breaks, week
\* ends and processes lie between.
FreshIsCurrent ==
  [][\A c \in Codes : seen'[c] # None /\ Exchange(c) /\ ~seen'[c].stale
       => Cardinality(TradedMinutes(MarketOf[c], seen'[c].at, now)) <= 30]_vars

\* A stale quote is never used once its market has traded since it expired.
StaleFailsClosed ==
  [][\A c \in Codes : seen'[c] # None /\ seen'[c].stale
       => Exchange(c) /\ TradedMinutes(MarketOf[c], seen'[c].until, now) = {}]_vars

\* Two accounts of a run are valued with the same quote of a code, unless the
\* first had none or a stale one.
SameForAllAccounts ==
  \A a, b \in Accounts, c \in Codes :
    /\ a < b /\ (run = 0 \/ b < run) /\ c \in Holds[a] \cap Holds[b]
    /\ used[a][c] # None /\ ~used[a][c].stale
    => used[b][c] = used[a][c]
=============================================================================

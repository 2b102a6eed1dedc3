------------------------------ MODULE FutuRefresh ------------------------------
(***************************************************************************)
(* The synchronization of one account's positions and money-market fund    *)
(* from the broker into the holdings sheet, and the durable requests for   *)
(* it: the inbox (operation_state/_futu_refresh_mixin.py), its worker      *)
(* (futu_refresh_worker.py), the full sync under its lock                  *)
(* (service/application.py, futu_balance_sync_service.py), the batch of    *)
(* holdings it writes (holdings_repository.py), the reconciliation         *)
(* (futu_sync_reconciler.py), and the sync of the fund alone that a NAV    *)
(* run asks for.                                                           *)
(*                                                                         *)
(* The broker's account is a sequence of versions; a quantity stands for   *)
(* quantity and cost.  A call that fails may have landed in part.  The     *)
(* aggregate cash row is taken to be well formed; rows have no identity, so *)
(* one that a person enters just before the same is created counts as it.  *)
(***************************************************************************)
EXTENDS Naturals, Sequences, FiniteSets

CONSTANTS
    Positions,      \* stocks and ETFs
    Fund,           \* the money-market fund
    Versions,       \* 1 .. n, the broker's account as it changes
    Broker(_),      \* a version's quantities, 0 for what is not held
    Requests,       \* request ids
    Workers,        \* services, each with its refresh worker
    Commands,       \* timers and people that run a full sync
    NavRuns,        \* NAV runs that sync the fund first
    Edited,         \* rows people write by hand
    LostResults,    \* results whose settlement may lose its acknowledgement
    Budgets,        \* bounds: requests that come, edits by hand, faults
                    \* (failing calls, crashes, stops), and the processes
                    \* other than workers that run, each once
    None

Assets == Positions \cup {Fund}
Procs == Workers \cup Commands \cup NavRuns

ASSUME FutuRefreshAssumption ==
    /\ IsFiniteSet(Versions) /\ Versions # {} /\ Versions = 1 .. Cardinality(Versions)
    /\ \A v \in Versions : Broker(v) \in [Assets -> Nat]
    /\ Edited \subseteq Nat \cup {None}
    /\ LostResults \subseteq BOOLEAN
    /\ Workers \cap (Commands \cup NavRuns) = {} /\ Commands \cap NavRuns = {}
    /\ None \notin Procs /\ None \notin Requests
    /\ Budgets \subseteq [requests : SUBSET Requests, edits : Nat, faults : Nat,
                          others : SUBSET (Commands \cup NavRuns)]

VARIABLES
    version,    \* the broker's account now
    hold,       \* the holdings sheet: a quantity, None without a row
    request,    \* futu_refresh_inbox
    queue,      \* the pending requests that are due, by next_attempt_at
    sync,       \* what each process is doing
    full,       \* the owner of the full-sync lock
    acct,       \* the owner of the account lock
    worker,     \* the owner of the worker's lifetime lock
    left,       \* what is left of the budget
    made,       \* history: positions each request's attempts wrote
    written     \* history: the newest version whose positions were written

vars == <<version, hold, request, queue, sync, full, acct, worker, left, made, written>>

Idle == [pc |-> "idle", req |-> None, allow |-> FALSE, bal |-> 0, pos |-> 0,
         seen |-> None, base |-> None, ok |-> TRUE]

IsFull(p) == p \notin NavRuns
Quantity(row) == IF row = None THEN 0 ELSE row

Goto(p, pc) == sync' = [sync EXCEPT ![p].pc = pc]

Failing(p, pc) == sync' = [sync EXCEPT ![p].pc = pc, ![p].ok = FALSE]

CanFail == left.faults > 0
Fault == left' = [left EXCEPT !.faults = @ - 1]

-----------------------------------------------------------------------------
(* External: the broker's account changes, and people write rows.           *)
Trade ==
    /\ version + 1 \in Versions
    /\ version' = version + 1
    /\ UNCHANGED <<hold, request, queue, sync, full, acct, worker, left, made, written>>

Edit(a, row) ==
    /\ left.edits > 0
    /\ hold[a] # row
    /\ hold' = [hold EXCEPT ![a] = row]
    /\ left' = [left EXCEPT !.edits = @ - 1]
    /\ UNCHANGED <<version, request, queue, sync, full, acct, worker, made, written>>

(* accept_futu_refresh: an identity that is known is absorbed.              *)
Accept(r) ==
    /\ request[r].state = "none"
    /\ r \in left.requests
    /\ request' = [request EXCEPT ![r].state = "pending", ![r].since = version]
    /\ queue' = Append(queue, r)
    /\ UNCHANGED <<version, hold, sync, full, acct, worker, left, made, written>>

Queued(r) == \E i \in DOMAIN queue : queue[i] = r

(* A failed request's delay is over.                                        *)
Due(r) ==
    /\ request[r].state = "pending"
    /\ ~ Queued(r)
    /\ queue' = Append(queue, r)
    /\ UNCHANGED <<version, hold, request, sync, full, acct, worker, left, made, written>>

-----------------------------------------------------------------------------
(* The worker owns its lock as long as its process serves.                  *)
(* Mutant: the lock is not exclusive.                                       *)
WorkerFree_Any == TRUE

WorkerFree == worker = None

Own(p) ==
    /\ p \in Workers
    /\ sync[p].pc = "idle"
    /\ WorkerFree
    /\ worker' = p
    /\ Goto(p, "poll")
    /\ UNCHANGED <<version, hold, request, queue, full, acct, left, made, written>>

(* recover_futu_refreshes: what is running belongs to no one any more.      *)
(* Mutant: an interrupted request stays as it is.                           *)
Interrupted_None == {}

Interrupted == {r \in Requests : request[r].state = "running"}

Recovered ==
    [r \in Requests |-> IF r \in Interrupted THEN [request[r] EXCEPT !.state = "pending"] ELSE request[r]]

(* At most one is interrupted: the worker recovers before every claim.      *)
RecoveredQueue == IF Interrupted = {} THEN queue ELSE Append(queue, CHOOSE r \in Interrupted : TRUE)

(* Recovery and the claim of the oldest due request; only admissions come   *)
(* between the two transactions.                                            *)
Poll(p) ==
    /\ sync[p].pc = "poll"
    /\ IF RecoveredQueue = <<>>
       THEN /\ request' = Recovered
            /\ UNCHANGED <<queue, sync>>
       ELSE LET r == Head(RecoveredQueue)
            IN  /\ request' = [Recovered EXCEPT ![r].state = "running"]
                /\ queue' = Tail(RecoveredQueue)
                /\ sync' = [sync EXCEPT ![p] = [Idle EXCEPT !.pc = "full", !.req = r]]
    /\ UNCHANGED <<version, hold, full, acct, worker, left, made, written>>

(* A full sync by a timer or a person, a NAV run's sync of the fund.        *)
Start(p, allow) ==
    /\ sync[p].pc = "idle"
    /\ p \in left.others
    /\ p \in NavRuns => ~ allow
    /\ sync' = [sync EXCEPT ![p] = [Idle EXCEPT !.pc = IF IsFull(p) THEN "full" ELSE "balances", !.allow = allow]]
    /\ left' = [left EXCEPT !.others = @ \ {p}]
    /\ UNCHANGED <<version, hold, request, queue, full, acct, worker, made, written>>

-----------------------------------------------------------------------------
(* _run_futu_holdings_sync.                                                 *)
(* Mutant: syncs of one account are not serialized.                         *)
FullFree_Any == TRUE

FullFree == full = None

LockFull(p) ==
    /\ sync[p].pc = "full"
    /\ FullFree
    /\ full' = p
    /\ Goto(p, "balances")
    /\ UNCHANGED <<version, hold, request, queue, acct, worker, left, made, written>>

(* A query that fails, or an answer that is not complete and valid, ends    *)
(* the attempt before anything is read or written.                          *)
Rejected(p) == CanFail /\ Fault /\ Failing(p, "evidence")

(* Each query asks the broker anew (refresh_cache).                         *)
Balances(p) ==
    /\ sync[p].pc = "balances"
    /\ \/ sync' = [sync EXCEPT ![p].bal = version, ![p].pc = IF IsFull(p) THEN "positions" ELSE "account"]
          /\ left' = left
       \/ Rejected(p)
    /\ UNCHANGED <<version, hold, request, queue, full, acct, worker, made, written>>

QueryPositions(p) ==
    /\ sync[p].pc = "positions"
    /\ \/ sync' = [sync EXCEPT ![p].pos = version, ![p].pc = "account"] /\ left' = left
       \/ Rejected(p)
    /\ UNCHANGED <<version, hold, request, queue, full, acct, worker, made, written>>

LockAccount(p) ==
    /\ sync[p].pc = "account"
    /\ acct = None
    /\ acct' = p
    /\ Goto(p, IF IsFull(p) THEN "diff" ELSE "fund")
    /\ UNCHANGED <<version, hold, request, queue, full, worker, left, made, written>>

-----------------------------------------------------------------------------
(* _build_position_diff: what differs from a fresh read of the sheet.       *)
Plan(p) == {a \in Positions : Quantity(sync[p].seen[a]) # Broker(sync[p].pos)[a]}

(* An empty slice is not believed while positions are held.                 *)
Blocked(p) ==
    /\ ~ sync[p].allow
    /\ \A a \in Positions : Broker(sync[p].pos)[a] = 0
    /\ \E a \in Positions : Quantity(hold[a]) # 0

Diff(p) ==
    /\ sync[p].pc = "diff"
    /\ \/ /\ IF Blocked(p)
             THEN Failing(p, "evidence")
             ELSE sync' = [sync EXCEPT ![p].seen = hold, ![p].pc = "base"]
          /\ left' = left
       \/ CanFail /\ Fault /\ Failing(p, "evidence")
    /\ UNCHANGED <<version, hold, request, queue, full, acct, worker, made, written>>

(* upsert_holdings_bulk: the base of every target, read again before the    *)
(* first mutation; the rows that exist in one batch, the others in another. *)
BaseRead(p) ==
    /\ sync[p].pc = "base"
    /\ IF Plan(p) = {}
       THEN Goto(p, "fund") /\ left' = left
       ELSE \/ sync' = [sync EXCEPT ![p].base = hold, ![p].pc = "compare"] /\ left' = left
            \/ CanFail /\ Fault /\ Failing(p, "reconcile")
    /\ UNCHANGED <<version, hold, request, queue, full, acct, worker, made, written>>

Compare(p) ==
    /\ sync[p].pc = "compare"
    /\ IF \A a \in Plan(p) : hold[a] = sync[p].base[a] THEN Goto(p, "update") ELSE Failing(p, "reconcile")
    /\ UNCHANGED <<version, hold, request, queue, full, acct, worker, left, made, written>>

Batch(p) == {a \in Plan(p) : (sync[p].base[a] = None) = (sync[p].pc = "create")}

(* Rows of the batch that were deleted meanwhile cannot be updated.         *)
Gone(p) == {a \in Batch(p) : sync[p].pc = "update" /\ hold[a] = None}

Landed(p, keys) ==
    /\ hold' = [a \in Assets |-> IF a \in keys THEN Broker(sync[p].pos)[a] ELSE hold[a]]
    /\ made' = IF sync[p].req = None THEN made ELSE [made EXCEPT ![sync[p].req] = @ \cup keys]
    /\ written' = IF keys = {} THEN written ELSE sync[p].pos

WriteBatch(p, keys, error) ==
    /\ sync[p].pc \in {"update", "create"}
    /\ keys \subseteq Batch(p)
    /\ IF error
       THEN /\ Batch(p) # {}
            /\ IF Gone(p) = {} THEN CanFail /\ Fault ELSE keys = {} /\ left' = left
            /\ Failing(p, "reconcile")
       ELSE /\ keys = Batch(p) /\ Gone(p) = {}
            /\ Goto(p, IF sync[p].pc = "update" THEN "create" ELSE "prove")
            /\ left' = left
    /\ Landed(p, keys)
    /\ UNCHANGED <<version, request, queue, full, acct, worker>>

Prove(p) ==
    /\ sync[p].pc = "prove"
    /\ IF \A a \in Plan(p) : hold[a] = Broker(sync[p].pos)[a] THEN Goto(p, "fund") ELSE Failing(p, "reconcile")
    /\ UNCHANGED <<version, hold, request, queue, full, acct, worker, left, made, written>>

-----------------------------------------------------------------------------
(* sync_cash_like_balance: the fund's row is read and, if it differs, read  *)
(* again and compared, written, and read back.  A NAV run then releases the *)
(* account lock.                                                            *)
Leave(p, ok) ==
    /\ sync' = [sync EXCEPT ![p].pc = "reconcile", ![p].ok = ok]
    /\ acct' = IF IsFull(p) THEN acct ELSE None

FundRead(p) ==
    /\ sync[p].pc = "fund"
    /\ \/ /\ left' = left
          /\ IF hold[Fund] = Broker(sync[p].bal)[Fund]
             THEN Leave(p, sync[p].ok)
             ELSE sync' = [sync EXCEPT ![p].base = [a \in {Fund} |-> hold[Fund]], ![p].pc = "write"] /\ acct' = acct
       \/ CanFail /\ Fault /\ Leave(p, FALSE)
    /\ UNCHANGED <<version, hold, request, queue, full, worker, made, written>>

FundCompare(p) ==
    /\ sync[p].pc = "write"
    /\ \/ /\ left' = left
          /\ IF hold[Fund] = sync[p].base[Fund]
             THEN Goto(p, "put") /\ acct' = acct ELSE Leave(p, FALSE)
       \/ CanFail /\ Fault /\ Leave(p, FALSE)
    /\ UNCHANGED <<version, hold, request, queue, full, worker, made, written>>

(* The sheet takes the write whatever the row holds by now; a row that was  *)
(* deleted cannot be updated.                                               *)
FundGone(p) == sync[p].base[Fund] # None /\ hold[Fund] = None

FundWrite(p, landed, error) ==
    /\ sync[p].pc = "put"
    /\ IF error
       THEN /\ IF FundGone(p) THEN ~ landed /\ left' = left ELSE CanFail /\ Fault
            /\ Leave(p, FALSE)
       ELSE ~ FundGone(p) /\ landed /\ Goto(p, "proof") /\ UNCHANGED <<acct, left>>
    /\ hold' = IF landed THEN [hold EXCEPT ![Fund] = Broker(sync[p].bal)[Fund]] ELSE hold
    /\ UNCHANGED <<version, request, queue, full, worker, made, written>>

FundProof(p) ==
    /\ sync[p].pc = "proof"
    /\ Leave(p, sync[p].ok /\ hold[Fund] = Broker(sync[p].bal)[Fund])
    /\ UNCHANGED <<version, hold, request, queue, full, worker, left, made, written>>

(* The replica is read as a whole, and a second time if it does not match.  *)
Matches(p) ==
    /\ hold[Fund] = Broker(sync[p].bal)[Fund]
    /\ IsFull(p) => \A a \in Positions : Quantity(hold[a]) = Broker(sync[p].pos)[a]

Reconcile(p) ==
    /\ \/ sync[p].pc = "reconcile" /\ Goto(p, IF Matches(p) THEN "evidence" ELSE "again")
       \/ sync[p].pc = "again" /\ IF Matches(p) THEN Goto(p, "evidence") ELSE Failing(p, "evidence")
    /\ UNCHANGED <<version, hold, request, queue, full, acct, worker, left, made, written>>

(* The evidence is saved, or cannot be: the sync has failed then.  The      *)
(* locks are released; the worker keeps the result.                         *)
Result(p, ok) == [sync[p] EXCEPT !.pc = "settle", !.ok = @ /\ ok]

Evidence(p, ok) ==
    /\ sync[p].pc = "evidence"
    /\ IF ok THEN left' = left ELSE CanFail /\ Fault
    /\ full' = IF full = p THEN None ELSE full
    /\ acct' = IF acct = p THEN None ELSE acct
    /\ sync' = [sync EXCEPT ![p] = IF p \in Workers THEN Result(p, ok) ELSE Idle]
    /\ UNCHANGED <<version, hold, request, queue, worker, made, written>>

-----------------------------------------------------------------------------
(* quantity_change_payload: only a sync that is trusted tells its changes.  *)
Changes(p) == IF sync[p].ok THEN Plan(p) ELSE {}

(* settle_futu_refresh: one transaction for the state and the receipt.      *)
(* Mutant: the sync answers every request of the account that waits.        *)
Answered_All(p) == {r \in Requests : request[r].state \in {"running", "pending"}}

Answered(p) == {sync[p].req}

Settled(p) ==
    IF ~ sync[p].ok
    THEN [request EXCEPT ![sync[p].req].state = "pending"]
    ELSE [r \in Requests |-> IF r \in Answered(p)
            THEN [request[r] EXCEPT !.state = "completed", !.told = Changes(p), !.pos = sync[p].pos]
            ELSE request[r]]

(* A call that fails keeps the frozen result for the next one, whether its  *)
(* transaction was committed or not.  The next one is done if it finds the  *)
(* request completed with that result; a request that went back to pending  *)
(* it refuses, every time.                                                  *)
Settle(p, outcome) ==
    LET state == request[sync[p].req].state
    IN  /\ sync[p].pc \in {"settle", "resettle"}
        /\ state = "running" \/ (state = "completed" /\ sync[p].ok)
        /\ outcome = "lost" => sync[p].ok \in LostResults
        /\ request' = IF outcome = "failed" \/ state = "completed" THEN request ELSE Settled(p)
        /\ IF outcome = "done"
           THEN sync' = [sync EXCEPT ![p] = [Idle EXCEPT !.pc = "poll"]] /\ left' = left
           ELSE Goto(p, "resettle") /\ CanFail /\ Fault
        /\ UNCHANGED <<version, hold, queue, full, acct, worker, made, written>>

-----------------------------------------------------------------------------
(* The service stops between two requests, or in a settlement that fails.   *)
Stop(p) ==
    /\ sync[p].pc \in {"poll", "resettle"}
    /\ CanFail /\ Fault
    /\ worker' = IF worker = p THEN None ELSE worker
    /\ sync' = [sync EXCEPT ![p] = Idle]
    /\ UNCHANGED <<version, hold, request, queue, full, acct, made, written>>

(* External: the process dies, and its locks go with it.                    *)
Crash(p) ==
    /\ sync[p].pc # "idle"
    /\ CanFail /\ Fault
    /\ worker' = IF worker = p THEN None ELSE worker
    /\ full' = IF full = p THEN None ELSE full
    /\ acct' = IF acct = p THEN None ELSE acct
    /\ sync' = [sync EXCEPT ![p] = Idle]
    /\ UNCHANGED <<version, hold, request, queue, made, written>>

Unknown == [state |-> "none", since |-> 0, pos |-> 0, told |-> {}]

Init ==
    /\ version = 1
    /\ hold = [a \in Assets |-> IF Broker(1)[a] = 0 THEN None ELSE Broker(1)[a]]
    /\ request = [r \in Requests |-> Unknown]
    /\ queue = <<>>
    /\ sync = [p \in Procs |-> Idle]
    /\ full = None /\ acct = None /\ worker = None
    /\ left \in Budgets
    /\ made = [r \in Requests |-> {}]
    /\ written = 0

Outcomes == {"done", "failed", "lost"}

Advance(p) ==
    \/ Poll(p) \/ Balances(p) \/ QueryPositions(p) \/ Diff(p) \/ BaseRead(p) \/ Compare(p) \/ Prove(p)
    \/ FundRead(p) \/ FundCompare(p) \/ FundProof(p) \/ Reconcile(p)
    \/ \E keys \in SUBSET Positions, error \in BOOLEAN : WriteBatch(p, keys, error)
    \/ \E landed, error \in BOOLEAN : FundWrite(p, landed, error)
    \/ \E ok \in BOOLEAN : Evidence(p, ok)
    \/ \E outcome \in Outcomes : Settle(p, outcome)

Next ==
    \/ Trade
    \/ \E a \in Assets, row \in Edited : Edit(a, row)
    \/ \E r \in Requests : Accept(r) \/ Due(r)
    \/ \E p \in Procs :
         \/ Own(p) \/ LockFull(p) \/ LockAccount(p) \/ Advance(p) \/ Stop(p) \/ Crash(p)
         \/ \E allow \in BOOLEAN : Start(p, allow)

(* A worker polls, and a process goes on with its sync: it gets the lock it *)
(* waits for if that is free again and again.                               *)
Proceed(p) == LockFull(p) \/ LockAccount(p) \/ Advance(p)

Fairness ==
    /\ WF_vars(\E p \in Workers : Own(p))
    /\ \A r \in Requests : WF_vars(Due(r))
    /\ \A p \in Procs : SF_vars(Proceed(p))

Spec == Init /\ [][Next]_vars /\ Fairness

-----------------------------------------------------------------------------
(* A process holds a lock from the step that takes it to the one that       *)
(* releases it; the queue holds pending requests, each once.                *)
Asked   == {"full", "balances", "positions", "account"}
Looked  == {"diff", "base", "compare", "update", "create", "prove", "fund", "write", "put", "proof",
            "reconcile", "again", "evidence"}
Between == {"idle", "poll", "settle", "resettle"}

Sheet == [Assets -> Nat \cup {None}]

Entry == [state : {"none", "pending", "running", "completed"},
          since : Versions \cup {0}, pos : Versions \cup {0}, told : SUBSET Positions]

Sync == [pc : Asked \cup Looked \cup Between, req : Requests \cup {None}, allow : BOOLEAN,
         bal : Versions \cup {0}, pos : Versions \cup {0}, seen : Sheet \cup {None},
         base : Sheet \cup [{Fund} -> Nat \cup {None}] \cup {None}, ok : BOOLEAN]

Shapes ==
    /\ version \in Versions /\ written \in Versions \cup {0}
    /\ hold \in Sheet
    /\ request \in [Requests -> Entry]
    /\ queue \in Seq(Requests)
    /\ sync \in [Procs -> Sync]
    /\ left \in [requests : SUBSET Requests, edits : Nat, faults : Nat, others : SUBSET (Commands \cup NavRuns)]

QueueIsPending ==
    /\ \A i \in DOMAIN queue : request[queue[i]].state = "pending"
    /\ \A i, j \in DOMAIN queue : queue[i] = queue[j] => i = j

Owners ==
    \A p \in Procs :
        /\ acct = p => sync[p].pc \in Looked
        /\ IsFull(p) => (full = p) = (sync[p].pc \notin Between \cup {"full"})
        /\ (worker = p) = (p \in Workers /\ sync[p].pc # "idle")

TypeOK == Shapes /\ QueueIsPending /\ Owners

(* architecture.md:167, the account's full sync is serialized from the      *)
(* broker's observation through the evidence: no sync writes positions it   *)
(* has observed before those that another has written already.              *)
PositionsNeverGoBack == [][written' >= written]_vars

(* Two workers never run syncs at once, not for one request nor for two,    *)
(* through crashes, stops and the recovery of what was running: otherwise a *)
(* recovery would put a request in flight back to pending.                  *)
AttemptsDontOverlap ==
    /\ \A p, q \in Workers : sync[p].req # None /\ sync[q].req # None => p = q
    /\ \A p \in Workers : sync[p].req # None /\ sync[p].pc # "resettle" => request[sync[p].req].state = "running"

(* A completed request was answered by positions that the broker gave after *)
(* the request had been accepted.                                           *)
CompletedWasObserved ==
    \A r \in Requests : request[r].state = "completed" => request[r].pos >= request[r].since

(* A request that was accepted completes, through failing calls, crashes    *)
(* and hand edits, unless the broker shows no position in the end, which a  *)
(* sync nobody confirmed never believes.                                    *)
Shown == \E a \in Positions : Broker(version)[a] # 0

RequestsComplete ==
    <>[]Shown => \A r \in Requests : request[r].state # "none" ~> request[r].state = "completed"

(* architecture.md:172, "New verified quantity changes enqueue compact      *)
(* Agent receipts atomically with inbox completion": a completed request    *)
(* told every position that its attempts wrote.                             *)
ChangesAreTold ==
    \A r \in Requests : request[r].state = "completed" => made[r] \subseteq request[r].told
=============================================================================

--------------------------- MODULE FutuRefreshProofs ---------------------------
(***************************************************************************)
(* What is proved of the refresh of the holdings from the broker, for any  *)
(* requests, workers, commands and NAV runs, any positions and versions of *)
(* the broker's account, any edits by hand and any number of faults.       *)
(*                                                                         *)
(* Everything a process relies on while others move is a predicate on what *)
(* it has in hand (Hand).  Most steps change only the hand of the process  *)
(* that takes them: Moves says once why such a step keeps the invariant.   *)
(***************************************************************************)
EXTENDS FutuRefresh, FiniteSetTheorems, TLAPS

USE DEF Procs

(* The steps of a process that has asked for balances, for positions, and   *)
(* that may still write the positions it has.                               *)
Valued == {"positions", "account"} \cup (Looked \ {"evidence"})
Positioned == Valued \ {"positions"}
Writing == {"account", "diff", "base", "compare", "update", "create"}

StepsOf(p) ==
    CASE p \in NavRuns  -> {"idle", "balances", "account", "fund", "write", "put", "proof",
                         "reconcile", "again", "evidence"}
      [] p \in Commands -> {"idle"} \cup Asked \cup Looked
      [] p \in Workers  -> Asked \cup Looked \cup Between

(* A worker works for a request that is running, as long as its result is   *)
(* not settled; what it will answer was observed after the request came.    *)
Attempt(x, entry) ==
    /\ entry.state # "none"
    /\ x.pc # "resettle" => entry.state = "running"
    /\ x.ok /\ x.pc \notin {"full", "balances", "positions"} => x.pos >= entry.since

Hand(p, x, entries, newest) ==
    /\ x.pc \in StepsOf(p)
    /\ (x.req # None) = (p \in Workers /\ x.pc \notin {"idle", "poll"})
    /\ x.pc \in Valued => x.bal \in Versions
    /\ x.pc \in Positioned /\ IsFull(p) => x.pos \in Versions
    /\ x.pc \in Writing /\ IsFull(p) => x.pos >= newest
    /\ x.req # None => Attempt(x, entries[x.req])

(* The steps a process takes under the lock of the account.                 *)
Inside(p) == IF IsFull(p) THEN Looked \ {"evidence"} ELSE {"fund", "write", "put", "proof"}

Inwards == \A p \in Procs : sync[p].pc \in Inside(p) => acct = p

Hands == \A p \in Procs : Hand(p, sync[p], request, written)

OneRunning == \A r, s \in Requests : request[r].state = "running" /\ request[s].state = "running" => r = s

Past ==
    /\ written <= version
    /\ \A r \in Requests : request[r].since <= version
    /\ \A p \in Procs : sync[p].pos <= version

IInv == TypeOK /\ Inwards /\ Hands /\ Past /\ OneRunning /\ CompletedWasObserved

Left == [requests : SUBSET Requests, edits : Nat, faults : Nat, others : SUBSET (Commands \cup NavRuns)]

-----------------------------------------------------------------------------
LEMMA VersionsAreNat == Versions \subseteq Nat /\ 0 \notin Versions /\ 1 \in Versions
<1>1. Cardinality(Versions) \in Nat /\ Cardinality(Versions) # 0
  BY FutuRefreshAssumption, FS_CardinalityType, FS_EmptySet
<1>2. QED
  BY <1>1, FutuRefreshAssumption

(* What a step of one process owes to the others: its hand is in order, the *)
(* locks it takes were free and the ones it lets go were its own, and it    *)
(* writes positions only under the full-sync lock.                          *)
Takes(lock, new, p) == new = lock \/ (lock \in {None, p} /\ new \in {None, p})

LEMMA Moves ==
    ASSUME IInv, NEW p \in Procs, NEW x \in Sync,
           sync' = [sync EXCEPT ![p] = x],
           UNCHANGED <<version, request, queue>>,
           hold' \in Sheet, left' \in Left,
           written' \in Versions \cup {0}, written' <= version,
           written' # written => full = p,
           Takes(acct, acct', p), Takes(full, full', p), Takes(worker, worker', p),
           acct' = p => x.pc \in Looked,
           x.pc \in Inside(p) => acct' = p,
           IsFull(p) => (full' = p) = (x.pc \notin Between \cup {"full"}),
           (worker' = p) = (p \in Workers /\ x.pc # "idle"),
           Hand(p, x, request, written'), x.pos <= version
    PROVE  IInv'
<1>1. /\ sync' \in [Procs -> Sync] /\ sync'[p] = x
      /\ \A q \in Procs \ {p} : sync'[q] = sync[q]
  BY DEF IInv, TypeOK, Shapes
<1>2. Shapes'
  BY <1>1 DEF IInv, TypeOK, Shapes, Left
<1>3. QueueIsPending'
  BY DEF IInv, TypeOK, QueueIsPending
<1>4. \A q \in Procs \ {p} : /\ acct' = q => acct = q
                             /\ acct = q => acct' = q
                             /\ (full' = q) = (full = q)
                             /\ (worker' = q) = (worker = q)
  BY FutuRefreshAssumption DEF Takes
<1>5. Owners'
  BY <1>1, <1>4 DEF IInv, TypeOK, Owners
<1>5a. Inwards'
  BY <1>1, <1>4 DEF IInv, Inwards
<1>6. ASSUME NEW q \in Procs, q # p
      PROVE  Hand(q, sync[q], request, written')
  <2>1. Hand(q, sync[q], request, written)
    BY DEF IInv, Hands
  <2>2. sync[q].pc \in Writing /\ IsFull(q) => written' = written
    BY <1>6 DEF IInv, TypeOK, Owners, Writing, Between
  <2>3. QED
    BY <2>1, <2>2 DEF Hand
<1>7. Hands'
  BY <1>1, <1>6 DEF Hands
<1>8. Past' /\ OneRunning' /\ CompletedWasObserved'
  BY <1>1 DEF IInv, Past, OneRunning, CompletedWasObserved
<1>9. QED
  BY <1>2, <1>3, <1>5, <1>5a, <1>7, <1>8 DEF IInv, TypeOK

(* A step between two calls of a sync: nothing is written, and no lock      *)
(* changes hands.                                                           *)
LEMMA StepsOn ==
    ASSUME IInv, NEW p \in Procs, NEW x \in Sync,
           sync' = [sync EXCEPT ![p] = x],
           UNCHANGED <<version, hold, request, queue, full, acct, worker, written>>,
           left' \in Left,
           sync[p].pc \in Looked => x.pc \in Looked,
           x.pc \in Inside(p) => sync[p].pc \in Inside(p),
           (sync[p].pc \notin Between \cup {"full"}) = (x.pc \notin Between \cup {"full"}),
           sync[p].pc # "idle", x.pc # "idle",
           Hand(p, x, request, written), x.pos <= version
    PROVE  IInv'
<1>1. /\ hold' \in Sheet /\ written' \in Versions \cup {0} /\ written' <= version
      /\ acct' = p => sync[p].pc \in Looked
      /\ IsFull(p) => (full' = p) = (sync[p].pc \notin Between \cup {"full"})
      /\ (worker' = p) = (p \in Workers /\ sync[p].pc # "idle")
      /\ sync[p].pc \in Inside(p) => acct' = p
  BY DEF IInv, TypeOK, Shapes, Owners, Past, Inwards
<1>2. QED
  BY <1>1, Moves DEF Takes

(* What the hand of a process is made of.                                   *)
LEMMA InHand ==
    ASSUME IInv, NEW p \in Procs
    PROVE  /\ sync[p] \in Sync /\ Hand(p, sync[p], request, written) /\ sync[p].pos <= version
           /\ version \in Versions /\ hold \in Sheet /\ left \in Left
           /\ written \in Versions \cup {0} /\ written <= version
BY DEF IInv, TypeOK, Shapes, Hands, Past, Left

LEMMA FaultLeft == ASSUME left \in Left, CanFail, Fault PROVE left' \in Left
BY DEF Left, CanFail, Fault

-----------------------------------------------------------------------------
(* The steps that ask the broker and read the sheet.                        *)

LEMMA QueriesKeep ==
    ASSUME IInv, NEW p \in Procs, Balances(p) \/ QueryPositions(p)
    PROVE  IInv'
<1>1. /\ sync[p] \in Sync /\ Hand(p, sync[p], request, written)
      /\ version \in Versions /\ version \in Nat /\ written <= version /\ sync[p].pos <= version
  BY InHand, VersionsAreNat
<1>2. left' \in Left
  BY InHand, FaultLeft DEF Balances, QueryPositions, Rejected
<1>3. CASE Rejected(p)
  <2> DEFINE x == [sync[p] EXCEPT !.pc = "evidence", !.ok = FALSE]
  <2>1. x \in Sync /\ x.pc = "evidence" /\ x.req = sync[p].req /\ ~ x.ok /\ x.pos = sync[p].pos
    BY <1>1 DEF Sync, Looked
  <2>2. sync[p].pc \in {"balances", "positions"}
    BY DEF Balances, QueryPositions
  <2>3. Hand(p, x, request, written)
    BY <1>1, <2>1, <2>2 DEF Hand, Attempt, StepsOf, Asked, Looked, Between, Valued, Positioned, Writing
  <2>4. sync' = [sync EXCEPT ![p] = x]
    BY <1>3 DEF Rejected, Failing
  <2> HIDE DEF x
  <2>5. QED
    BY <1>1, <1>2, <2>1, <2>2, <2>3, <2>4, StepsOn DEF Inside, Balances, QueryPositions, Looked, Between
<1>4. CASE Balances(p) /\ ~ Rejected(p)
  <2> DEFINE pc == IF IsFull(p) THEN "positions" ELSE "account"
             x == [sync[p] EXCEPT !.bal = version, !.pc = pc]
  <2>0. pc \in {"positions", "account"}
    OBVIOUS
  <2>1. /\ x \in Sync /\ x.req = sync[p].req /\ x.bal = version /\ x.pos = sync[p].pos
        /\ x.ok = sync[p].ok /\ x.pc = pc
    BY <1>1, <2>0 DEF Sync, Asked
  <2>2. sync[p].pc = "balances" /\ sync' = [sync EXCEPT ![p] = x]
    BY <1>4 DEF Balances
  <2> HIDE DEF x
  <2>3. Hand(p, x, request, written)
    BY <1>1, <2>0, <2>1, <2>2, FutuRefreshAssumption DEF Hand, Attempt, StepsOf, Asked, Looked, Between, Valued, Positioned, Writing, IsFull
  <2>4. QED
    BY <1>1, <1>2, <1>4, <2>0, <2>1, <2>2, <2>3, StepsOn DEF Inside, Balances, Looked, Between
<1>5. CASE QueryPositions(p) /\ ~ Rejected(p)
  <2> DEFINE x == [sync[p] EXCEPT !.pos = version, !.pc = "account"]
  <2>1. x \in Sync /\ x.req = sync[p].req /\ x.bal = sync[p].bal /\ x.pos = version /\ x.pc = "account"
    BY <1>1 DEF Sync, Asked
  <2>2. sync[p].pc = "positions" /\ sync' = [sync EXCEPT ![p] = x]
    BY <1>5 DEF QueryPositions
  <2> HIDE DEF x
  <2>3. x.req # None => x.req \in Requests /\ request[x.req].since <= version
    BY <2>1 DEF Sync, IInv, Past
  <2>4. Hand(p, x, request, written)
    BY <1>1, <2>1, <2>2, <2>3 DEF Hand, Attempt, StepsOf, Asked, Looked, Between, Valued, Positioned, Writing, IsFull
  <2>5. x.pos <= version
    BY <1>1, <2>1
  <2>6. QED
    BY <1>2, <1>5, <2>1, <2>2, <2>4, <2>5, StepsOn DEF Inside, QueryPositions, Looked, Between
<1>6. QED
  BY <1>3, <1>4, <1>5

(* From the lock of the account on a process goes from one of its steps to  *)
(* the next, or gives the attempt up as failed.                             *)
LEMMA LookingOn ==
    ASSUME IInv, NEW p \in Procs, NEW x \in Sync,
           sync[p].pc \in Looked, x.pc \in Looked \cap StepsOf(p),
           sync' = [sync EXCEPT ![p] = x],
           x.req = sync[p].req, x.bal = sync[p].bal, x.pos = sync[p].pos,
           x.ok => sync[p].ok,
           x.pc \in Writing => sync[p].pc \in Writing,
           x.pc # "evidence" => sync[p].pc # "evidence",
           x.pc \in Inside(p) => sync[p].pc \in Inside(p),
           left' \in Left,
           UNCHANGED <<version, hold, request, queue, full, acct, worker, written>>
    PROVE  IInv'
<1>1. Hand(p, sync[p], request, written) /\ sync[p].pos <= version
  BY InHand
<1>2. Hand(p, x, request, written)
  BY <1>1 DEF Hand, Attempt, Looked, Valued, Positioned
<1>3. QED
  BY <1>1, <1>2, StepsOn DEF Looked, Between

LEMMA GotoKeeps ==
    ASSUME IInv, NEW p \in Procs, NEW pc \in Looked,
           Goto(p, pc) \/ Failing(p, pc),
           sync[p].pc \in Looked \ {"evidence"}, pc \in StepsOf(p),
           pc \in Writing => sync[p].pc \in Writing,
           pc \in Inside(p) => sync[p].pc \in Inside(p),
           left' \in Left,
           UNCHANGED <<version, hold, request, queue, full, acct, worker, written>>
    PROVE  IInv'
<1>1. sync[p] \in Sync
  BY InHand
<1>2. CASE Goto(p, pc)
  <2> DEFINE x == [sync[p] EXCEPT !.pc = pc]
  <2>1. /\ x \in Sync /\ x.pc = pc /\ x.req = sync[p].req /\ x.bal = sync[p].bal
        /\ x.pos = sync[p].pos /\ x.ok = sync[p].ok
    BY <1>1 DEF Sync
  <2>2. sync' = [sync EXCEPT ![p] = x]
    BY <1>2 DEF Goto
  <2> HIDE DEF x
  <2>3. QED
    BY <2>1, <2>2, LookingOn
<1>3. CASE Failing(p, pc)
  <2> DEFINE x == [sync[p] EXCEPT !.pc = pc, !.ok = FALSE]
  <2>1. /\ x \in Sync /\ x.pc = pc /\ x.req = sync[p].req /\ x.bal = sync[p].bal
        /\ x.pos = sync[p].pos /\ ~ x.ok
    BY <1>1 DEF Sync
  <2>2. sync' = [sync EXCEPT ![p] = x]
    BY <1>3 DEF Failing
  <2> HIDE DEF x
  <2>3. QED
    BY <2>1, <2>2, LookingOn
<1>4. QED
  BY <1>2, <1>3

LEMMA DiffKeeps == ASSUME IInv, NEW p \in Procs, Diff(p) PROVE IInv'
<1>1. sync[p] \in Sync /\ hold \in Sheet /\ sync[p].pc = "diff" /\ sync[p].pc \in StepsOf(p)
  BY InHand DEF Diff, Hand
<1>2. left' \in Left
  BY InHand, FaultLeft DEF Diff
<1>3. "evidence" \in StepsOf(p) /\ "base" \in StepsOf(p)
  BY <1>1 DEF StepsOf, Looked
<1>4. UNCHANGED <<version, hold, request, queue, full, acct, worker, written>>
  BY DEF Diff
<1>5. CASE Failing(p, "evidence")
  BY <1>1, <1>2, <1>3, <1>4, <1>5, GotoKeeps DEF Looked, Writing, Inside
<1>6. CASE ~ Failing(p, "evidence")
  <2> DEFINE x == [sync[p] EXCEPT !.seen = hold, !.pc = "base"]
  <2>1. /\ x \in Sync /\ x.pc = "base" /\ x.req = sync[p].req /\ x.bal = sync[p].bal
        /\ x.pos = sync[p].pos /\ x.ok = sync[p].ok
    BY <1>1 DEF Sync, Looked
  <2>2. sync' = [sync EXCEPT ![p] = x]
    BY <1>6 DEF Diff
  <2> HIDE DEF x
  <2>3. QED
    BY <1>1, <1>2, <1>3, <1>4, <2>1, <2>2, LookingOn DEF Looked, Writing, Inside
<1>7. QED
  BY <1>5, <1>6

LEMMA OnlyFull ==
    ASSUME IInv, NEW p \in Procs, sync[p].pc \in {"base", "prove", "update", "create"}
    PROVE  IsFull(p)
<1>1. SUFFICES ASSUME p \in NavRuns PROVE FALSE
  BY DEF IsFull
<1>2. StepsOf(p) = {"idle", "balances", "account", "fund", "write", "put", "proof", "reconcile", "again", "evidence"}
  BY <1>1, FutuRefreshAssumption DEF StepsOf
<1>3. QED
  BY <1>2, InHand DEF Hand

LEMMA BaseReadKeeps == ASSUME IInv, NEW p \in Procs, BaseRead(p) PROVE IInv'
<1>1. sync[p] \in Sync /\ hold \in Sheet /\ sync[p].pc = "base" /\ sync[p].pc \in StepsOf(p)
  BY InHand DEF BaseRead, Hand
<1>2. left' \in Left
  BY InHand, FaultLeft DEF BaseRead
<1>3. "fund" \in StepsOf(p) /\ "reconcile" \in StepsOf(p) /\ "compare" \in StepsOf(p)
  BY <1>1 DEF StepsOf, Looked
<1>4. UNCHANGED <<version, hold, request, queue, full, acct, worker, written>>
  BY DEF BaseRead
<1>5. CASE Goto(p, "fund") \/ Failing(p, "reconcile")
  BY <1>1, <1>2, <1>3, <1>4, <1>5, GotoKeeps, OnlyFull DEF Looked, Writing, Inside
<1>6. CASE sync' = [sync EXCEPT ![p].base = hold, ![p].pc = "compare"]
  <2> DEFINE x == [sync[p] EXCEPT !.base = hold, !.pc = "compare"]
  <2>1. /\ x \in Sync /\ x.pc = "compare" /\ x.req = sync[p].req /\ x.bal = sync[p].bal
        /\ x.pos = sync[p].pos /\ x.ok = sync[p].ok
    BY <1>1 DEF Sync, Looked
  <2>2. sync' = [sync EXCEPT ![p] = x]
    BY <1>6
  <2> HIDE DEF x
  <2>3. QED
    BY <1>1, <1>2, <1>3, <1>4, <2>1, <2>2, LookingOn DEF Looked, Writing, Inside
<1>7. QED
  BY <1>5, <1>6 DEF BaseRead

LEMMA ChecksKeep ==
    ASSUME IInv, NEW p \in Procs, Compare(p) \/ Prove(p) \/ Reconcile(p)
    PROVE  IInv'
<1>1. sync[p].pc \in StepsOf(p)
  BY InHand DEF Hand
<1>2. left' \in Left
  BY InHand DEF Compare, Prove, Reconcile
<1>3. UNCHANGED <<version, hold, request, queue, full, acct, worker, written>>
  BY DEF Compare, Prove, Reconcile
<1>4. CASE Compare(p)
  <2>1. sync[p].pc = "compare" /\ (Goto(p, "update") \/ Failing(p, "reconcile"))
    BY <1>4 DEF Compare
  <2>2. "update" \in StepsOf(p) /\ "reconcile" \in StepsOf(p)
    BY <1>1, <2>1 DEF StepsOf, Looked
  <2>3. QED
    BY <1>2, <1>3, <2>1, <2>2, GotoKeeps DEF Looked, Writing, Inside
<1>5. CASE Prove(p)
  <2>1. sync[p].pc = "prove" /\ (Goto(p, "fund") \/ Failing(p, "reconcile"))
    BY <1>5 DEF Prove
  <2>2. "fund" \in StepsOf(p) /\ "reconcile" \in StepsOf(p)
    BY <1>1, <2>1 DEF StepsOf, Looked
  <2>3. QED
    BY <1>2, <1>3, <2>1, <2>2, GotoKeeps, OnlyFull DEF Looked, Writing, Inside
<1>6. CASE Reconcile(p)
  <2>1. /\ sync[p].pc \in {"reconcile", "again"}
        /\ Goto(p, "again") \/ Goto(p, "evidence") \/ Failing(p, "evidence")
    BY <1>6 DEF Reconcile
  <2>2. "again" \in StepsOf(p) /\ "evidence" \in StepsOf(p)
    BY <1>1, <2>1 DEF StepsOf, Looked
  <2>3. QED
    BY <1>2, <1>3, <2>1, <2>2, GotoKeeps DEF Looked, Writing, Inside
<1>7. QED
  BY <1>4, <1>5, <1>6

-----------------------------------------------------------------------------
(* Locks and writes.                                                        *)

LEMMA BrokerType ==
    ASSUME NEW v \in Versions
    PROVE  Broker(v) \in [Assets -> Nat]
BY FutuRefreshAssumption

LEMMA OwnKeeps == ASSUME IInv, NEW p \in Procs, Own(p) PROVE IInv'
<1> DEFINE x == [sync[p] EXCEPT !.pc = "poll"]
<1>1. /\ sync[p] \in Sync /\ Hand(p, sync[p], request, written) /\ sync[p].pc = "idle" /\ p \in Workers
      /\ hold' \in Sheet /\ left' \in Left /\ written' \in Versions \cup {0} /\ written' <= version /\ sync[p].pos <= version
  BY InHand DEF Own
<1>2. x \in Sync /\ x.pc = "poll" /\ x.req = sync[p].req /\ x.pos = sync[p].pos
  BY <1>1 DEF Sync, Between
<1>3. sync' = [sync EXCEPT ![p] = x] /\ worker = None /\ worker' = p
  BY DEF Own, Goto, WorkerFree
<1> HIDE DEF x
<1>4. Hand(p, x, request, written)
  BY <1>1, <1>2, FutuRefreshAssumption DEF Hand, StepsOf, Between, Valued, Looked, Positioned, Writing
<1>5. acct # p /\ full # p
  BY <1>1, FutuRefreshAssumption DEF IInv, TypeOK, Owners, Looked, Between, IsFull
<1>6. QED
  BY <1>1, <1>2, <1>3, <1>4, <1>5, Moves DEF Own, Takes, Between, Inside, Looked

LEMMA StartKeeps ==
    ASSUME IInv, NEW p \in Procs, NEW allow \in BOOLEAN, Start(p, allow)
    PROVE  IInv'
<1> DEFINE pc == IF IsFull(p) THEN "full" ELSE "balances"
           x == [Idle EXCEPT !.pc = pc, !.allow = allow]
<1>1. /\ sync[p].pc = "idle" /\ p \in Commands \cup NavRuns /\ p \notin Workers
      /\ hold' \in Sheet /\ written' \in Versions \cup {0} /\ written' <= version /\ version \in Nat
  BY InHand, VersionsAreNat, FutuRefreshAssumption DEF Start, Left
<1>2. left' \in Left
  BY InHand DEF Start, Left
<1>3. pc \in {"full", "balances"} /\ (pc = "full" <=> IsFull(p))
  OBVIOUS
<1>4. sync' = [sync EXCEPT ![p] = x]
  BY DEF Start
<1> HIDE DEF pc
<1>5. x \in Sync /\ x.pc = pc /\ x.req = None /\ x.pos = 0
  BY <1>3 DEF Idle, Sync, Asked
<1> HIDE DEF x
<1>6. Hand(p, x, request, written)
  BY <1>1, <1>3, <1>5 DEF Hand, StepsOf, Asked, Valued, Looked, Positioned, Writing, IsFull
<1>7. acct # p /\ worker # p /\ (IsFull(p) => full # p)
  BY <1>1 DEF IInv, TypeOK, Owners, Looked, Between
<1>8. x.pos <= version
  BY <1>1, <1>5
<1>9. QED
  BY <1>1, <1>2, <1>3, <1>4, <1>5, <1>6, <1>7, <1>8, Moves DEF Start, Takes, Between, Inside, Looked

LEMMA LockFullKeeps == ASSUME IInv, NEW p \in Procs, LockFull(p) PROVE IInv'
<1> DEFINE x == [sync[p] EXCEPT !.pc = "balances"]
<1>1. /\ sync[p] \in Sync /\ Hand(p, sync[p], request, written) /\ sync[p].pc = "full"
      /\ hold' \in Sheet /\ left' \in Left /\ written' \in Versions \cup {0} /\ written' <= version /\ sync[p].pos <= version
  BY InHand DEF LockFull
<1>2. x \in Sync /\ x.pc = "balances" /\ x.req = sync[p].req /\ x.pos = sync[p].pos
  BY <1>1 DEF Sync, Asked
<1>3. sync' = [sync EXCEPT ![p] = x] /\ full = None /\ full' = p
  BY DEF LockFull, Goto, FullFree
<1> HIDE DEF x
<1>4. Hand(p, x, request, written)
  BY <1>1, <1>2 DEF Hand, Attempt, StepsOf, Asked, Between, Valued, Looked, Positioned, Writing
<1>5. acct # p /\ (worker = p) = (p \in Workers)
  BY <1>1 DEF IInv, TypeOK, Owners, Looked
<1>6. QED
  BY <1>1, <1>2, <1>3, <1>4, <1>5, Moves DEF LockFull, Takes, Between, Inside, Looked

LEMMA LockAccountKeeps == ASSUME IInv, NEW p \in Procs, LockAccount(p) PROVE IInv'
<1> DEFINE pc == IF IsFull(p) THEN "diff" ELSE "fund"
           x == [sync[p] EXCEPT !.pc = pc]
<1>1. /\ sync[p] \in Sync /\ Hand(p, sync[p], request, written) /\ sync[p].pc = "account"
      /\ hold' \in Sheet /\ left' \in Left /\ written' \in Versions \cup {0} /\ written' <= version /\ sync[p].pos <= version
  BY InHand DEF LockAccount
<1>2. pc \in {"diff", "fund"} /\ (pc = "diff" <=> IsFull(p))
  OBVIOUS
<1>3. sync' = [sync EXCEPT ![p] = x] /\ acct = None /\ acct' = p
  BY DEF LockAccount, Goto
<1> HIDE DEF pc
<1>4. x \in Sync /\ x.pc = pc /\ x.req = sync[p].req /\ x.bal = sync[p].bal /\ x.pos = sync[p].pos /\ x.ok = sync[p].ok
  BY <1>1, <1>2 DEF Sync, Looked
<1> HIDE DEF x
<1>5. IsFull(p) => full = p
  BY <1>1 DEF IInv, TypeOK, Owners, Between
<1>6. Hand(p, x, request, written)
  BY <1>1, <1>2, <1>4, <1>5 DEF Hand, Attempt, StepsOf, Asked, Looked, Between, Valued, Positioned, Writing, IsFull
<1>7. (worker = p) = (p \in Workers) /\ (IsFull(p) => full = p)
  BY <1>1 DEF IInv, TypeOK, Owners, Between
<1>8. QED
  BY <1>1, <1>2, <1>3, <1>4, <1>6, <1>7, Moves DEF LockAccount, Takes, Between, Inside, Looked

LEMMA WriteBatchKeeps ==
    ASSUME IInv, NEW p \in Procs, NEW keys \in SUBSET Positions, NEW error \in BOOLEAN,
           WriteBatch(p, keys, error)
    PROVE  IInv'
<1> DEFINE pc == IF error THEN "reconcile" ELSE IF sync[p].pc = "update" THEN "create" ELSE "prove"
           x == IF error THEN [sync[p] EXCEPT !.pc = pc, !.ok = FALSE] ELSE [sync[p] EXCEPT !.pc = pc]
<1>1. /\ sync[p] \in Sync /\ Hand(p, sync[p], request, written) /\ sync[p].pc \in {"update", "create"}
      /\ hold \in Sheet /\ written \in Versions \cup {0} /\ written <= version /\ sync[p].pos <= version
  BY InHand DEF WriteBatch
<1>2. left' \in Left
  BY InHand, FaultLeft DEF WriteBatch
<1>3. IsFull(p) /\ full = p
  <2>1. IsFull(p)
    BY <1>1, OnlyFull
  <2>2. QED
    BY <1>1, <2>1 DEF IInv, TypeOK, Owners, Between
<1>4. sync[p].pos \in Versions /\ sync[p].pos >= written
  BY <1>1, <1>3 DEF Hand, Positioned, Valued, Looked, Writing
<1>5. Broker(sync[p].pos) \in [Assets -> Nat]
  BY <1>4, BrokerType
<1>6. hold' \in Sheet
  BY <1>1, <1>5 DEF WriteBatch, Landed, Sheet
<1>7. written' \in {written, sync[p].pos}
  BY DEF WriteBatch, Landed
<1>8. pc \in {"reconcile", "create", "prove"} /\ (pc = "create" => sync[p].pc = "update")
  OBVIOUS
<1>9. sync' = [sync EXCEPT ![p] = x]
  BY <1>1 DEF WriteBatch, Goto, Failing, Sync
<1> HIDE DEF pc
<1>10. /\ x \in Sync /\ x.pc = pc /\ x.req = sync[p].req /\ x.bal = sync[p].bal /\ x.pos = sync[p].pos
       /\ x.ok => sync[p].ok
  BY <1>1, <1>8 DEF Sync, Looked
<1> HIDE DEF x
<1>11. Hand(p, x, request, written')
  BY <1>1, <1>3, <1>4, <1>7, <1>8, <1>10, VersionsAreNat DEF Hand, Attempt, StepsOf, Asked, Looked, Between, Valued, Positioned, Writing, IsFull
<1>12. written' \in Versions \cup {0} /\ written' <= version
  BY <1>1, <1>4, <1>7
<1>13. (worker = p) = (p \in Workers) /\ acct = p
  BY <1>1, <1>3 DEF IInv, TypeOK, Owners, Inwards, Inside, Looked
<1>14. acct = p => pc \in Looked
  BY <1>8 DEF Looked
<1>15. QED
  BY <1>1, <1>2, <1>3, <1>6, <1>8, <1>9, <1>10, <1>11, <1>12, <1>13, <1>14, Moves DEF WriteBatch, Takes, Between, Inside, Looked

-----------------------------------------------------------------------------
(* The fund.  What a sync leaves behind is its hand and the account lock.   *)

LEMMA LeaveKeeps ==
    ASSUME IInv, NEW p \in Procs, NEW ok \in BOOLEAN, Leave(p, ok),
           sync[p].pc \in {"fund", "write", "put", "proof"}, ok => sync[p].ok,
           hold' \in Sheet, left' \in Left,
           UNCHANGED <<version, request, queue, full, worker, written>>
    PROVE  IInv'
<1> DEFINE x == [sync[p] EXCEPT !.pc = "reconcile", !.ok = ok]
<1>1. /\ sync[p] \in Sync /\ Hand(p, sync[p], request, written) /\ sync[p].pos <= version
      /\ written' \in Versions \cup {0} /\ written' <= version
  BY InHand
<1>2. /\ x \in Sync /\ x.pc = "reconcile" /\ x.req = sync[p].req /\ x.bal = sync[p].bal /\ x.pos = sync[p].pos
      /\ x.ok => sync[p].ok
  <2>1. ASSUME NEW s \in Sync
        PROVE  [s EXCEPT !.pc = "reconcile", !.ok = ok] \in Sync
    BY DEF Sync, Looked
  <2>2. sync[p] \in Sync
    BY <1>1
  <2>3. /\ x.pc = "reconcile" /\ x.ok = ok
        /\ x.req = sync[p].req /\ x.bal = sync[p].bal /\ x.pos = sync[p].pos
    BY <2>2 DEF Sync
  <2>4. QED
    BY <2>1, <2>2, <2>3
<1>3. sync' = [sync EXCEPT ![p] = x]
  BY DEF Leave
<1> HIDE DEF x
<1>4. Hand(p, x, request, written)
  BY <1>1, <1>2 DEF Hand, Attempt, StepsOf, Asked, Looked, Between, Valued, Positioned, Writing, IsFull
<1>5. (worker = p) = (p \in Workers) /\ (IsFull(p) => full = p) /\ acct = p
  BY DEF IInv, TypeOK, Owners, Between, Inwards, Inside, Looked
<1>6. QED
  BY <1>1, <1>2, <1>3, <1>4, <1>5, Moves DEF Leave, Takes, Between, Looked, Inside

LEMMA FundKeeps ==
    ASSUME IInv, NEW p \in Procs,
           \/ FundRead(p) \/ FundCompare(p) \/ FundProof(p)
           \/ \E landed, error \in BOOLEAN : FundWrite(p, landed, error)
    PROVE  IInv'
<1>1. /\ sync[p] \in Sync /\ sync[p].ok \in BOOLEAN /\ hold \in Sheet /\ sync[p].pc \in {"fund", "write", "put", "proof"}
      /\ sync[p].bal \in Versions /\ {"write", "put", "proof"} \subseteq StepsOf(p)
      /\ UNCHANGED <<version, request, queue, full, worker, written>>
  <2>1. sync[p].pc \in {"fund", "write", "put", "proof"} /\ UNCHANGED <<version, request, queue, full, worker, written>>
    BY DEF FundRead, FundCompare, FundProof, FundWrite
  <2>2. sync[p] \in Sync /\ sync[p].ok \in BOOLEAN /\ hold \in Sheet /\ Hand(p, sync[p], request, written)
    BY InHand DEF Sync
  <2>3. QED
    BY <2>1, <2>2 DEF Hand, Valued, Looked, StepsOf
<1>2. left' \in Left
  BY InHand, FaultLeft DEF FundRead, FundCompare, FundProof, FundWrite
<1>3. hold' \in Sheet
  <2>1. Broker(sync[p].bal)[Fund] \in Nat
    BY <1>1, BrokerType DEF Assets
  <2>2. QED
    BY <1>1, <2>1 DEF FundRead, FundCompare, FundProof, FundWrite, Sheet
<1>4. CASE \E ok \in BOOLEAN : Leave(p, ok) /\ (ok => sync[p].ok)
  BY <1>1, <1>2, <1>3, <1>4, LeaveKeeps
<1>5. CASE /\ sync[p].pc = "fund" /\ hold' = hold /\ acct' = acct
           /\ sync' = [sync EXCEPT ![p].base = [a \in {Fund} |-> hold[Fund]], ![p].pc = "write"]
  <2> DEFINE base == [a \in {Fund} |-> hold[Fund]]
             x == [sync[p] EXCEPT !.base = base, !.pc = "write"]
  <2>1. base \in [{Fund} -> Nat \cup {None}]
    BY <1>1 DEF Sheet, Assets
  <2>2. sync' = [sync EXCEPT ![p] = x]
    BY <1>5
  <2> HIDE DEF base
  <2>3. /\ x \in Sync /\ x.pc = "write" /\ x.req = sync[p].req /\ x.bal = sync[p].bal
        /\ x.pos = sync[p].pos /\ x.ok = sync[p].ok
    BY <1>1, <2>1 DEF Sync, Looked
  <2> HIDE DEF x
  <2>4. QED
    BY <1>1, <1>2, <1>5, <2>2, <2>3, LookingOn DEF Looked, Writing, Inside
<1>6. CASE sync[p].pc = "put" /\ Goto(p, "proof") /\ acct' = acct
  <2> DEFINE x == [sync[p] EXCEPT !.pc = "proof"]
  <2>1. /\ x \in Sync /\ x.pc = "proof" /\ x.req = sync[p].req /\ x.bal = sync[p].bal
        /\ x.pos = sync[p].pos /\ x.ok = sync[p].ok
    BY <1>1 DEF Sync, Looked
  <2>2. sync' = [sync EXCEPT ![p] = x]
    BY <1>6 DEF Goto
  <2> HIDE DEF x
  <2>3. Hand(p, x, request, written)
    BY <1>1, <1>6, <2>1, InHand DEF Hand, Attempt, Looked, Valued, Positioned, Writing
  <2>4. /\ sync[p].pos <= version /\ written' \in Versions \cup {0} /\ written' <= version
        /\ (worker = p) = (p \in Workers) /\ (IsFull(p) => full = p) /\ acct = p
    BY <1>1, <1>6, InHand DEF IInv, TypeOK, Owners, Between, Inwards, Inside, Looked
  <2>5. QED
    BY <1>1, <1>2, <1>3, <1>6, <2>1, <2>2, <2>3, <2>4, Moves DEF Takes, Between, Inside, Looked
<1>7. CASE sync[p].pc = "write" /\ Goto(p, "put") /\ UNCHANGED <<acct, hold>>
  BY <1>1, <1>2, <1>7, GotoKeeps DEF Looked, Writing, Inside
<1>8. QED
  BY <1>1, <1>4, <1>5, <1>6, <1>7 DEF FundRead, FundCompare, FundProof, FundWrite

-----------------------------------------------------------------------------
(* The end of a sync, of a service and of a process.                        *)

LEMMA IdleHand ==
    ASSUME NEW p \in Procs, NEW entries, NEW newest
    PROVE  Idle \in Sync /\ Hand(p, Idle, entries, newest)
<1>1. Idle \in Sync /\ Idle.pc = "idle" /\ Idle.req = None
  BY DEF Idle, Sync, Between
<1>2. "idle" \in StepsOf(p)
  BY DEF StepsOf, Between
<1>3. QED
  BY <1>1, <1>2 DEF Hand, Valued, Looked, Positioned, Writing

LEMMA EndsKeep ==
    ASSUME IInv, NEW p \in Procs,
           sync' = [sync EXCEPT ![p] = Idle],
           worker' = IF worker = p THEN None ELSE worker,
           full' = IF full = p THEN None ELSE full,
           acct' = IF acct = p THEN None ELSE acct,
           left' \in Left,
           UNCHANGED <<version, hold, request, queue, written>>
    PROVE  IInv'
<1>1. Idle \in Sync /\ Hand(p, Idle, request, written) /\ Idle.pc = "idle" /\ Idle.pos = 0
  BY IdleHand DEF Idle
<1>2. hold \in Sheet /\ written \in Versions \cup {0} /\ written <= version /\ version \in Nat
  BY InHand, VersionsAreNat
<1>3. acct' # p /\ full' # p /\ worker' # p
  BY FutuRefreshAssumption
<1>4. Takes(acct, acct', p) /\ Takes(full, full', p) /\ Takes(worker, worker', p)
  BY DEF Takes
<1>5. Idle.pos <= version
  BY <1>1, <1>2
<1>6. QED
  BY <1>1, <1>2, <1>3, <1>4, <1>5, Moves DEF Between, Inside, Looked

LEMMA EvidenceKeeps ==
    ASSUME IInv, NEW p \in Procs, NEW ok \in BOOLEAN, Evidence(p, ok)
    PROVE  IInv'
<1>1. left' \in Left
  BY InHand, FaultLeft DEF Evidence
<1>2. CASE p \notin Workers
  <2>1. worker # p
    BY <1>2 DEF IInv, TypeOK, Owners
  <2>2. QED
    BY <1>1, <1>2, <2>1, EndsKeep DEF Evidence
<1>3. CASE p \in Workers
  <2> DEFINE x == Result(p, ok)
  <2>1. /\ sync[p] \in Sync /\ Hand(p, sync[p], request, written) /\ sync[p].pos <= version
        /\ hold' \in Sheet /\ written' \in Versions \cup {0} /\ written' <= version /\ sync[p].pc = "evidence"
    BY InHand DEF Evidence
  <2>2. /\ x \in Sync /\ x.pc = "settle" /\ x.req = sync[p].req /\ x.pos = sync[p].pos
        /\ x.ok => sync[p].ok
    <3> DEFINE kept == sync[p].ok /\ ok
    <3>1. x = [sync[p] EXCEPT !.pc = "settle", !.ok = kept]
      BY <2>1 DEF Result, Sync
    <3>2. kept \in BOOLEAN /\ (kept => sync[p].ok)
      OBVIOUS
    <3> HIDE DEF x, kept
    <3>3. QED
      BY <2>1, <3>1, <3>2 DEF Sync, Between
  <2>3. sync' = [sync EXCEPT ![p] = x]
    BY <1>3 DEF Evidence
  <2> HIDE DEF x
  <2>4. Hand(p, x, request, written)
    BY <1>3, <2>1, <2>2, FutuRefreshAssumption DEF Hand, Attempt, StepsOf, Between, Valued, Looked, Positioned, Writing
  <2>5. acct' # p /\ full' # p /\ worker = p
    BY <1>3, <2>1, FutuRefreshAssumption DEF Evidence, IInv, TypeOK, Owners
  <2>6. Takes(acct, acct', p) /\ Takes(full, full', p)
    BY DEF Evidence, Takes
  <2>7. QED
    BY <1>1, <1>3, <2>1, <2>2, <2>3, <2>4, <2>5, <2>6, Moves DEF Evidence, Takes, Between, Inside, Looked
<1>4. QED
  BY <1>2, <1>3

LEMMA EndKeeps == ASSUME IInv, NEW p \in Procs, Stop(p) \/ Crash(p) PROVE IInv'
<1>1. left' \in Left
  BY InHand, FaultLeft DEF Stop, Crash
<1>2. CASE Crash(p)
  BY <1>1, <1>2, EndsKeep DEF Crash
<1>3. CASE Stop(p)
  <2>1. acct # p /\ full # p
    <3>1. p \in Workers /\ sync[p].pc \in {"poll", "resettle"}
      BY <1>3, InHand, FutuRefreshAssumption DEF Stop, Hand, StepsOf, Asked, Looked
    <3>2. QED
      BY <3>1, FutuRefreshAssumption DEF IInv, TypeOK, Owners, Looked, Between, IsFull
  <2>2. QED
    BY <1>1, <1>3, <2>1, EndsKeep DEF Stop
<1>4. QED
  BY <1>2, <1>3

-----------------------------------------------------------------------------
(* The world and the inbox.                                                 *)

LEMMA TradeKeeps == ASSUME IInv, Trade PROVE IInv'
<1>1. version \in Nat /\ version' = version + 1 /\ version' \in Versions
  BY VersionsAreNat DEF Trade, IInv, TypeOK, Shapes
<1>2. TypeOK'
  BY <1>1 DEF Trade, IInv, TypeOK, Shapes, QueueIsPending, Owners
<1>3. Past'
  <2>1. \A n \in Versions \cup {0} : n <= version => n <= version'
    BY <1>1, VersionsAreNat
  <2>2. /\ written \in Versions \cup {0}
        /\ \A r \in Requests : request[r].since \in Versions \cup {0}
        /\ \A p \in Procs : sync[p].pos \in Versions \cup {0}
    BY DEF IInv, TypeOK, Shapes, Entry, Sync
  <2>3. QED
    BY <2>1, <2>2 DEF Trade, IInv, Past
<1>4. QED
  BY <1>2, <1>3 DEF Trade, IInv, Inwards, Hands, OneRunning, CompletedWasObserved

LEMMA EditKeeps ==
    ASSUME IInv, NEW a \in Assets, NEW row \in Edited, Edit(a, row)
    PROVE  IInv'
<1>1. hold' \in Sheet
  BY FutuRefreshAssumption DEF Edit, IInv, TypeOK, Shapes, Sheet
<1>2. left' \in Left
  BY DEF Edit, IInv, TypeOK, Shapes, Left
<1>3. TypeOK'
  BY <1>1, <1>2 DEF Edit, IInv, TypeOK, Shapes, QueueIsPending, Owners, Left
<1>4. QED
  BY <1>3 DEF Edit, IInv, Inwards, Hands, Past, OneRunning, CompletedWasObserved

(* A request is queued behind the others, once.                             *)
LEMMA Queues ==
    ASSUME IInv, NEW r \in Requests, ~ Queued(r)
    PROVE  LET longer == Append(queue, r)
           IN  /\ longer \in Seq(Requests)
               /\ \A i \in DOMAIN longer : longer[i] = r \/ (\E j \in DOMAIN queue : longer[i] = queue[j])
               /\ \A i, j \in DOMAIN longer : longer[i] = longer[j] => i = j
<1> DEFINE longer == Append(queue, r)
           n == Len(queue)
<1>1. /\ queue \in Seq(Requests) /\ n \in Nat /\ DOMAIN queue = 1 .. n
      /\ \A i, j \in 1 .. n : queue[i] = queue[j] => i = j
      /\ \A i \in 1 .. n : queue[i] # r
  BY DEF IInv, TypeOK, Shapes, QueueIsPending, Queued
<1>2. /\ longer \in Seq(Requests) /\ DOMAIN longer = 1 .. n + 1 /\ longer[n + 1] = r
      /\ \A i \in 1 .. n : longer[i] = queue[i]
  BY <1>1
<1> HIDE DEF longer, n
<1>3. \A i \in DOMAIN longer : i = n + 1 \/ i \in 1 .. n
  BY <1>1, <1>2
<1>4. \A i, j \in DOMAIN longer : longer[i] = longer[j] => i = j
  BY <1>1, <1>2, <1>3
<1>5. \A i \in DOMAIN longer : longer[i] = r \/ (\E j \in DOMAIN queue : longer[i] = queue[j])
  BY <1>1, <1>2, <1>3
<1>6. QED
  BY <1>2, <1>4, <1>5 DEF longer

LEMMA DueKeeps == ASSUME IInv, NEW r \in Requests, Due(r) PROVE IInv'
<1>1. queue' \in Seq(Requests) /\ QueueIsPending'
  BY Queues DEF Due, IInv, TypeOK, QueueIsPending
<1>2. QED
  BY <1>1 DEF Due, IInv, TypeOK, Shapes, Owners, Inwards, Hands, Past, OneRunning, CompletedWasObserved

LEMMA AcceptKeeps == ASSUME IInv, NEW r \in Requests, Accept(r) PROVE IInv'
<1>1. /\ request \in [Requests -> Entry] /\ version \in Versions /\ request[r].state = "none"
      /\ ~ Queued(r) /\ version \in Nat
  BY VersionsAreNat DEF Accept, IInv, TypeOK, Shapes, QueueIsPending, Queued
<1>2. /\ request' \in [Requests -> Entry]
      /\ request'[r].state = "pending" /\ request'[r].since = version
      /\ \A s \in Requests \ {r} : request'[s] = request[s]
  BY <1>1 DEF Accept, Entry
<1>3. queue' \in Seq(Requests) /\ QueueIsPending'
  <2>1. \A i \in DOMAIN queue : queue[i] \in Requests /\ queue[i] # r /\ request[queue[i]].state = "pending"
    BY <1>1 DEF IInv, TypeOK, Shapes, QueueIsPending, Queued
  <2>2. QED
    BY <1>1, <1>2, <2>1, Queues DEF Accept, QueueIsPending
<1>4. TypeOK' /\ Inwards'
  BY <1>2, <1>3 DEF Accept, IInv, TypeOK, Shapes, Owners, Inwards
<1>5. Hands'
  <2>1. SUFFICES ASSUME NEW p \in Procs PROVE Hand(p, sync[p], request', written)
    BY DEF Accept, Hands
  <2>2. sync[p] \in Sync /\ Hand(p, sync[p], request, written)
    BY InHand
  <2>3. sync[p].req # None => sync[p].req \in Requests \ {r}
    BY <1>1, <2>2 DEF Sync, Hand, Attempt
  <2>4. QED
    BY <1>2, <2>2, <2>3 DEF Hand
<1>6. Past' /\ OneRunning' /\ CompletedWasObserved'
  BY <1>1, <1>2 DEF Accept, IInv, Past, OneRunning, CompletedWasObserved
<1>7. QED
  BY <1>4, <1>5, <1>6 DEF IInv

-----------------------------------------------------------------------------
(* The worker and the inbox.  While one worker runs, no other process works *)
(* for a request.                                                           *)

LEMMA OnlyWorker ==
    ASSUME IInv, NEW p \in Procs, sync[p].pc \in {"poll", "settle", "resettle"}
    PROVE  /\ p \in Workers /\ worker = p /\ acct # p /\ full # p
           /\ \A q \in Procs \ {p} : sync[q].req = None
<1>1. p \in Workers
  <2>1. p \notin NavRuns /\ p \notin Commands
    <3>1. Hand(p, sync[p], request, written)
      BY InHand
    <3>2. QED
      BY <3>1, FutuRefreshAssumption DEF Hand, StepsOf, Asked, Looked
  <2>2. QED
    BY <2>1
<1>2. worker = p /\ acct # p /\ full # p
  BY <1>1, FutuRefreshAssumption DEF IInv, TypeOK, Owners, Looked, Between, IsFull
<1>3. \A q \in Procs \ {p} : sync[q].req = None
  BY <1>2 DEF IInv, TypeOK, Owners, Hands, Hand
<1>4. QED
  BY <1>1, <1>2, <1>3

(* A step of the worker that changes its request, or claims one.            *)
LEMMA Works ==
    ASSUME IInv, NEW p \in Procs, NEW x \in Sync,
           sync[p].pc \in {"poll", "settle", "resettle"}, x.pc \in {"poll", "resettle", "full"},
           sync' = [sync EXCEPT ![p] = x],
           UNCHANGED <<version, hold, full, acct, worker, written>>, left' \in Left,
           request' \in [Requests -> Entry],
           \A r \in Requests : request'[r].since = request[r].since,
           queue' \in Seq(Requests), QueueIsPending', OneRunning', CompletedWasObserved',
           x.pos <= version, Hand(p, x, request', written)
    PROVE  IInv'
<1>1. /\ p \in Workers /\ worker = p /\ acct # p /\ full # p
      /\ \A q \in Procs \ {p} : sync[q].req = None
  BY OnlyWorker
<1>2. /\ sync' \in [Procs -> Sync] /\ sync'[p] = x
      /\ \A q \in Procs \ {p} : sync'[q] = sync[q]
  BY DEF IInv, TypeOK, Shapes
<1>3. Shapes'
  BY <1>2 DEF IInv, TypeOK, Shapes, Left
<1>4. Owners' /\ Inwards'
  BY <1>1, <1>2 DEF IInv, TypeOK, Owners, Inwards, Looked, Between, Inside
<1>5. Hands'
  <2>1. SUFFICES ASSUME NEW q \in Procs, q # p PROVE Hand(q, sync[q], request', written)
    BY <1>2 DEF Hands
  <2>2. Hand(q, sync[q], request, written) /\ sync[q].req = None
    BY <1>1, <2>1, InHand
  <2>3. QED
    BY <2>2 DEF Hand
<1>6. Past'
  BY <1>2 DEF IInv, Past
<1>7. QED
  BY <1>3, <1>4, <1>5, <1>6 DEF IInv, TypeOK

(* The end of a recovery: nothing runs, and what ran is in the queue.       *)
LEMMA Recovers ==
    ASSUME IInv
    PROVE  /\ Recovered \in [Requests -> Entry]
           /\ \A r \in Requests :
                /\ Recovered[r].since = request[r].since /\ Recovered[r].pos = request[r].pos
                /\ Recovered[r].state # "running"
                /\ Recovered[r].state = "completed" => request[r].state = "completed"
           /\ RecoveredQueue \in Seq(Requests)
           /\ \A i \in DOMAIN RecoveredQueue : Recovered[RecoveredQueue[i]].state = "pending"
           /\ \A i, j \in DOMAIN RecoveredQueue : RecoveredQueue[i] = RecoveredQueue[j] => i = j
<1>1. request \in [Requests -> Entry]
  BY DEF IInv, TypeOK, Shapes
<1>2. \A r \in Requests :
        /\ r \in Interrupted => Recovered[r] = [request[r] EXCEPT !.state = "pending"]
        /\ r \notin Interrupted => Recovered[r] = request[r]
  BY DEF Recovered
<1>3. \A r \in Requests :
        /\ Recovered[r] \in Entry
        /\ Recovered[r].since = request[r].since /\ Recovered[r].pos = request[r].pos
        /\ r \in Interrupted => Recovered[r].state = "pending"
        /\ r \notin Interrupted => Recovered[r].state = request[r].state
  <2>1. \A e \in Entry : LET f == [e EXCEPT !.state = "pending"]
                         IN  f \in Entry /\ f.since = e.since /\ f.pos = e.pos /\ f.state = "pending"
    BY DEF Entry
  <2>2. TAKE r \in Requests
  <2>3. request[r] \in Entry
    BY <1>1
  <2>4. CASE r \in Interrupted
    BY <1>2, <2>1, <2>3, <2>4
  <2>5. CASE r \notin Interrupted
    BY <1>2, <2>3, <2>5
  <2>6. QED
    BY <2>4, <2>5
<1>4. Recovered \in [Requests -> Entry]
  <2>1. Recovered = [r \in Requests |-> Recovered[r]]
    BY DEF Recovered
  <2>2. QED
    BY <1>3, <2>1
<1>5. \A r \in Requests :
        /\ Recovered[r].state # "running"
        /\ Recovered[r].state = "completed" => request[r].state = "completed"
  BY <1>3 DEF Interrupted
<1>6. /\ queue \in Seq(Requests)
      /\ \A i \in DOMAIN queue : queue[i] \in Requests /\ request[queue[i]].state = "pending" /\ queue[i] \notin Interrupted
      /\ \A i, j \in DOMAIN queue : queue[i] = queue[j] => i = j
  BY DEF IInv, TypeOK, Shapes, QueueIsPending, Interrupted
<1>7. CASE Interrupted = {}
  BY <1>3, <1>4, <1>5, <1>6, <1>7 DEF RecoveredQueue
<1>8. CASE Interrupted # {}
  <2> DEFINE r == CHOOSE r \in Interrupted : TRUE
  <2>1. r \in Interrupted /\ r \in Requests
    BY <1>8 DEF Interrupted
  <2>2. ~ Queued(r)
    BY <1>6, <2>1 DEF Queued
  <2>3. RecoveredQueue = Append(queue, r)
    BY <1>8 DEF RecoveredQueue
  <2> HIDE DEF r
  <2>4. QED
    BY <1>3, <1>4, <1>5, <1>6, <2>1, <2>2, <2>3, Queues
<1>9. QED
  BY <1>7, <1>8

LEMMA PollKeeps == ASSUME IInv, NEW p \in Procs, Poll(p) PROVE IInv'
<1>1. /\ sync[p] \in Sync /\ sync[p].pc = "poll" /\ p \in Workers /\ version \in Nat /\ left' \in Left
      /\ Hand(p, sync[p], request, written) /\ sync[p].req = None /\ sync[p].pos <= version
      /\ request \in [Requests -> Entry] /\ sync \in [Procs -> Sync]
  BY InHand, OnlyWorker, VersionsAreNat DEF Poll, Hand, IInv, TypeOK, Shapes
<1>2. CASE RecoveredQueue = <<>>
  <2>1. request' = Recovered /\ queue' = queue /\ sync' = sync
    BY <1>2 DEF Poll
  <2>2. QueueIsPending' /\ OneRunning' /\ CompletedWasObserved'
    <3>1. Interrupted = {}
      BY <1>2 DEF RecoveredQueue, IInv, TypeOK, Shapes
    <3>2. QueueIsPending'
      BY <1>2, <2>1, <3>1 DEF RecoveredQueue, QueueIsPending
    <3>3. QED
      BY <2>1, <3>2, Recovers DEF OneRunning, CompletedWasObserved, IInv
  <2>3. sync' = [sync EXCEPT ![p] = sync[p]]
    BY <1>1, <2>1
  <2>4. Hand(p, sync[p], request', written)
    BY <1>1 DEF Hand
  <2>5. queue' \in Seq(Requests)
    BY <2>1 DEF IInv, TypeOK, Shapes
  <2>6. QED
    BY <1>1, <2>1, <2>2, <2>3, <2>4, <2>5, Recovers, Works DEF Poll
<1>3. CASE RecoveredQueue # <<>>
  <2> DEFINE r == Head(RecoveredQueue)
             x == [Idle EXCEPT !.pc = "full", !.req = r]
  <2>1. /\ r \in Requests /\ Recovered[r].state = "pending"
        /\ Tail(RecoveredQueue) \in Seq(Requests)
        /\ \A i \in DOMAIN Tail(RecoveredQueue) :
              /\ i + 1 \in DOMAIN RecoveredQueue /\ i \in Nat
              /\ Tail(RecoveredQueue)[i] = RecoveredQueue[i + 1]
              /\ Tail(RecoveredQueue)[i] # r
    <3>1. /\ RecoveredQueue \in Seq(Requests) /\ 1 \in DOMAIN RecoveredQueue /\ r = RecoveredQueue[1]
          /\ Tail(RecoveredQueue) \in Seq(Requests) /\ r \in Requests
          /\ \A i \in DOMAIN Tail(RecoveredQueue) :
              /\ i + 1 \in DOMAIN RecoveredQueue /\ i \in Nat /\ i + 1 # 1
              /\ Tail(RecoveredQueue)[i] = RecoveredQueue[i + 1]
      BY <1>3, Recovers
    <3>2. QED
      BY <3>1, Recovers
  <2>2. /\ request' = [Recovered EXCEPT ![r].state = "running"]
        /\ queue' = Tail(RecoveredQueue) /\ sync' = [sync EXCEPT ![p] = x]
    BY <1>3 DEF Poll
  <2>3. /\ x \in Sync /\ x.pc = "full" /\ x.req = r /\ x.pos = 0 /\ x.ok
    BY <2>1 DEF Idle, Sync, Asked
  <2> HIDE DEF r, x
  <2>4. /\ request' \in [Requests -> Entry]
        /\ request'[r].state = "running" /\ request'[r].since = Recovered[r].since
        /\ \A s \in Requests \ {r} : request'[s] = Recovered[s]
    <3>1. Recovered \in [Requests -> Entry]
      BY Recovers
    <3>2. Recovered[r] \in Entry /\ [Recovered[r] EXCEPT !.state = "running"] \in Entry
      BY <2>1, <3>1 DEF Entry
    <3>3. QED
      BY <2>1, <2>2, <3>1, <3>2 DEF Entry
  <2>5. \A s \in Requests : request'[s].since = request[s].since
    BY <2>4, Recovers
  <2>6. queue' \in Seq(Requests) /\ QueueIsPending'
    BY <2>1, <2>2, <2>4, Recovers DEF QueueIsPending
  <2>7. OneRunning'
    BY <2>4, Recovers DEF OneRunning
  <2>8. CompletedWasObserved'
    BY <2>4, Recovers DEF CompletedWasObserved, IInv
  <2>9. Hand(p, x, request', written)
    BY <1>1, <2>1, <2>3, <2>4, FutuRefreshAssumption DEF Hand, Attempt, StepsOf, Asked, Valued, Looked, Positioned, Writing
  <2>10. x.pos <= version
    BY <1>1, <2>3
  <2>11. QED
    BY <1>1, <2>2, <2>3, <2>4, <2>5, <2>6, <2>7, <2>8, <2>9, <2>10, Works DEF Poll
<1>4. QED
  BY <1>2, <1>3

LEMMA SettleKeeps ==
    ASSUME IInv, NEW p \in Procs, NEW outcome \in Outcomes, Settle(p, outcome)
    PROVE  IInv'
<1> DEFINE r == sync[p].req
<1>1. /\ sync[p] \in Sync /\ sync[p].pc \in {"settle", "resettle"} /\ p \in Workers /\ version \in Nat
      /\ Hand(p, sync[p], request, written) /\ sync[p].pos <= version /\ sync[p].ok \in BOOLEAN
      /\ request \in [Requests -> Entry] /\ queue \in Seq(Requests)
  BY InHand, OnlyWorker, VersionsAreNat DEF Settle, IInv, TypeOK, Shapes, Sync
<1>2. r \in Requests /\ Attempt(sync[p], request[r])
  BY <1>1, FutuRefreshAssumption DEF Hand, Sync
<1>3. left' \in Left
  BY InHand, FaultLeft DEF Settle
<1>4. request' = request \/ (request' = Settled(p) /\ request[r].state = "running")
  BY DEF Settle
<1>5. /\ request' \in [Requests -> Entry]
      /\ \A s \in Requests \ {r} : request'[s] = request[s]
      /\ request'[r].since = request[r].since
      /\ request'[r] = request[r] \/ (request'[r].state = "pending" /\ request[r].state = "running")
         \/ (request'[r].state = "completed" /\ request[r].state = "running" /\ request'[r].pos >= request'[r].since)
  <2>1. CASE request' = request
    BY <1>1, <2>1
  <2>2. CASE request' = Settled(p) /\ ~ sync[p].ok /\ request[r].state = "running"
    <3>1. request' = [request EXCEPT ![r].state = "pending"]
      BY <2>2 DEF Settled
    <3>2. QED
      BY <1>1, <1>2, <2>2, <3>1 DEF Entry
  <2>3. CASE request' = Settled(p) /\ sync[p].ok /\ request[r].state = "running"
    <3> DEFINE told == Changes(p)
               e == [request[r] EXCEPT !.state = "completed", !.told = told, !.pos = sync[p].pos]
    <3>1. request' = [s \in Requests |-> IF s = r THEN e ELSE request[s]]
      BY <2>3 DEF Settled, Answered
    <3>2. told \subseteq Positions
      BY DEF Changes, Plan
    <3> HIDE DEF told
    <3>3. e \in Entry /\ e.since = request[r].since /\ e.state = "completed" /\ e.pos = sync[p].pos
      <4>1. request[r] \in Entry /\ sync[p].pos \in Versions \cup {0} /\ told \in SUBSET Positions
        BY <1>1, <1>2, <3>2 DEF Sync
      <4>2. QED
        BY <4>1 DEF Entry
    <3> HIDE DEF e
    <3>4. sync[p].pos >= request[r].since
      BY <1>1, <1>2, <2>3 DEF Attempt
    <3>5. QED
      BY <1>1, <1>2, <2>3, <3>1, <3>3, <3>4
  <2>4. QED
    BY <1>1, <1>4, <2>1, <2>2, <2>3
<1>6. queue' \in Seq(Requests) /\ QueueIsPending'
  <2>1. request[r].state = "running" => \A i \in DOMAIN queue : queue[i] # r
    BY DEF IInv, TypeOK, QueueIsPending
  <2>2. \A i \in DOMAIN queue : queue[i] \in Requests
    BY <1>1
  <2>3. QED
    BY <1>1, <1>2, <1>5, <2>1, <2>2 DEF Settle, IInv, TypeOK, QueueIsPending
<1>7. OneRunning'
  BY <1>2, <1>5 DEF OneRunning, IInv
<1>8. CompletedWasObserved'
  BY <1>2, <1>5 DEF CompletedWasObserved, IInv
<1>9. CASE outcome = "done"
  <2> DEFINE x == [Idle EXCEPT !.pc = "poll"]
  <2>1. x \in Sync /\ x.pc = "poll" /\ x.req = None /\ x.pos = 0
    BY DEF Idle, Sync, Between
  <2>2. sync' = [sync EXCEPT ![p] = x]
    BY <1>9 DEF Settle
  <2> HIDE DEF x
  <2>3. Hand(p, x, request', written) /\ x.pos <= version
    BY <1>1, <2>1, FutuRefreshAssumption DEF Hand, StepsOf, Between, Valued, Looked, Positioned, Writing
  <2>4. QED
    BY <1>1, <1>2, <1>3, <1>5, <1>6, <1>7, <1>8, <2>1, <2>2, <2>3, Works DEF Settle
<1>10. CASE outcome # "done"
  <2> DEFINE x == [sync[p] EXCEPT !.pc = "resettle"]
  <2>1. x \in Sync /\ x.pc = "resettle" /\ x.req = r /\ x.pos = sync[p].pos /\ x.ok = sync[p].ok
    BY <1>1 DEF Sync, Between
  <2>2. sync' = [sync EXCEPT ![p] = x]
    BY <1>10 DEF Settle, Goto
  <2> HIDE DEF x
  <2>3. Attempt(x, request'[r])
    BY <1>1, <1>2, <1>5, <2>1 DEF Attempt
  <2>4. Hand(p, x, request', written) /\ x.pos <= version
    BY <1>1, <2>1, <2>3, FutuRefreshAssumption DEF Hand, StepsOf, Between, Valued, Looked, Positioned, Writing
  <2>5. QED
    BY <1>1, <1>2, <1>3, <1>5, <1>6, <1>7, <1>8, <2>1, <2>2, <2>4, Works DEF Settle
<1>11. QED
  BY <1>9, <1>10

-----------------------------------------------------------------------------
LEMMA InitIInv == ASSUME Init PROVE IInv
<1>2. version \in Versions /\ 1 \in Nat /\ Broker(1) \in [Assets -> Nat] /\ version = 1
  BY VersionsAreNat, BrokerType DEF Init
<1>3. \A p \in Procs : /\ sync[p] = Idle /\ Idle \in Sync /\ Hand(p, Idle, request, written)
                       /\ Idle.pc = "idle" /\ Idle.req = None /\ Idle.pos = 0
  BY IdleHand DEF Init, Idle
<1>4. hold \in Sheet
  BY <1>2 DEF Init, Sheet
<1>5. request \in [Requests -> Entry] /\ \A r \in Requests : request[r] = Unknown
  BY DEF Init, Unknown, Entry
<1>6. left \in Left /\ queue \in Seq(Requests) /\ DOMAIN queue = {}
  BY FutuRefreshAssumption DEF Init, Left
<1>7. Shapes
  BY <1>2, <1>3, <1>4, <1>5, <1>6 DEF Init, Shapes, Left
<1>8. QueueIsPending
  BY <1>6 DEF QueueIsPending
<1>9. Owners /\ Inwards
  BY <1>3, FutuRefreshAssumption DEF Init, Owners, Inwards, Between, Inside, Looked
<1>10. Hands
  BY <1>3 DEF Hands
<1>11. Past /\ OneRunning /\ CompletedWasObserved
  BY <1>2, <1>3, <1>5 DEF Init, Past, OneRunning, CompletedWasObserved, Unknown
<1>12. QED
  BY <1>7, <1>8, <1>9, <1>10, <1>11 DEF IInv, TypeOK

LEMMA NextIInv == IInv /\ [Next]_vars => IInv'
<1>1. SUFFICES ASSUME IInv, [Next]_vars PROVE IInv'
  OBVIOUS
<1>2. CASE UNCHANGED vars
  BY <1>1, <1>2 DEF vars, IInv, TypeOK, Shapes, QueueIsPending, Owners, Inwards, Hands, Past, OneRunning, CompletedWasObserved
<1>3. CASE Trade
  BY <1>1, <1>3, TradeKeeps
<1>4. CASE \E a \in Assets, row \in Edited : Edit(a, row)
  BY <1>1, <1>4, EditKeeps
<1>5. CASE \E r \in Requests : Accept(r) \/ Due(r)
  BY <1>1, <1>5, AcceptKeeps, DueKeeps
<1>6. ASSUME NEW p \in Procs, Own(p) \/ LockFull(p) \/ LockAccount(p)
      PROVE  IInv'
  BY <1>1, <1>6, OwnKeeps, LockFullKeeps, LockAccountKeeps
<1>7. ASSUME NEW p \in Procs, Advance(p)
      PROVE  IInv'
  <2>1. CASE Poll(p)
    BY <1>1, <2>1, PollKeeps
  <2>2. CASE Balances(p) \/ QueryPositions(p)
    BY <1>1, <2>2, QueriesKeep
  <2>3. CASE Diff(p) \/ BaseRead(p)
    BY <1>1, <2>3, DiffKeeps, BaseReadKeeps
  <2>4. CASE Compare(p) \/ Prove(p) \/ Reconcile(p)
    BY <1>1, <2>4, ChecksKeep
  <2>5. CASE FundRead(p) \/ FundCompare(p) \/ FundProof(p) \/ \E landed, error \in BOOLEAN : FundWrite(p, landed, error)
    BY <1>1, <2>5, FundKeeps
  <2>6. CASE \E keys \in SUBSET Positions, error \in BOOLEAN : WriteBatch(p, keys, error)
    BY <1>1, <2>6, WriteBatchKeeps
  <2>7. CASE \E ok \in BOOLEAN : Evidence(p, ok)
    BY <1>1, <2>7, EvidenceKeeps
  <2>8. CASE \E outcome \in Outcomes : Settle(p, outcome)
    BY <1>1, <2>8, SettleKeeps
  <2>9. QED
    BY <1>7, <2>1, <2>2, <2>3, <2>4, <2>5, <2>6, <2>7, <2>8 DEF Advance
<1>8. ASSUME NEW p \in Procs, Stop(p) \/ Crash(p) \/ \E allow \in BOOLEAN : Start(p, allow)
      PROVE  IInv'
  BY <1>1, <1>8, EndKeeps, StartKeeps
<1>9. QED
  BY <1>1, <1>2, <1>3, <1>4, <1>5, <1>6, <1>7, <1>8 DEF Next

LEMMA Invariant == Spec => []IInv
<1>1. Init => IInv
  BY InitIInv
<1>2. QED
  BY <1>1, NextIInv, PTL DEF Spec

-----------------------------------------------------------------------------
(* A lock is held from the step that takes it to the one that lets it go,   *)
(* by nobody else, and what waits in the queue is pending and there once.   *)
THEOREM TypeCorrect == Spec => []TypeOK
<1>1. IInv => TypeOK
  BY DEF IInv
<1>2. QED
  BY <1>1, Invariant, PTL

(* The lifetime lock of the worker keeps a second service from recovering,  *)
(* as interrupted, a request that the first one is at work on.              *)
THEOREM NoOverlap == Spec => []AttemptsDontOverlap
<1>1. IInv => AttemptsDontOverlap
  <2>1. SUFFICES ASSUME IInv PROVE AttemptsDontOverlap
    OBVIOUS
  <2>2. ASSUME NEW p \in Workers, sync[p].req # None
        PROVE  worker = p /\ (sync[p].pc # "resettle" => request[sync[p].req].state = "running")
    BY <2>1, <2>2 DEF IInv, TypeOK, Owners, Hands, Hand, Attempt
  <2>3. QED
    BY <2>2 DEF AttemptsDontOverlap
<1>2. QED
  BY <1>1, Invariant, PTL

(* Neither a result frozen before a crash nor one settled twice answers a   *)
(* request with positions older than the request.                           *)
THEOREM Observed == Spec => []CompletedWasObserved
<1>1. IInv => CompletedWasObserved
  BY DEF IInv
<1>2. QED
  BY <1>1, Invariant, PTL

(* What a full sync still writes is never older than what was written since *)
(* it observed the broker: between the two it holds the full-sync lock.     *)
THEOREM NeverBack == Spec => PositionsNeverGoBack
<1>1. IInv /\ [Next]_vars => [written' >= written]_vars
  <2> SUFFICES ASSUME IInv, [Next]_vars PROVE [written' >= written]_vars
    OBVIOUS
  <2>1. written \in Nat
    BY VersionsAreNat DEF IInv, TypeOK, Shapes
  <2>2. CASE \E p \in Procs, keys \in SUBSET Positions, error \in BOOLEAN : WriteBatch(p, keys, error)
    <3>1. PICK p \in Procs, keys \in SUBSET Positions, error \in BOOLEAN : WriteBatch(p, keys, error)
      BY <2>2
    <3>2. sync[p].pc \in Writing /\ IsFull(p) /\ Hand(p, sync[p], request, written)
      BY <3>1, OnlyFull, InHand DEF WriteBatch, Writing
    <3>3. QED
      BY <2>1, <3>1, <3>2 DEF Hand, WriteBatch, Landed
  <2>3. CASE UNCHANGED written
    BY <2>1, <2>3
  <2>4. CASE Next
    <3>1. CASE Trade \/ (\E a \in Assets, row \in Edited : Edit(a, row)) \/ (\E r \in Requests : Accept(r) \/ Due(r))
      BY <2>3, <3>1 DEF Trade, Edit, Accept, Due
    <3>2. ASSUME NEW p \in Procs,
                 \/ Own(p) \/ LockFull(p) \/ LockAccount(p) \/ Stop(p) \/ Crash(p)
                 \/ \E allow \in BOOLEAN : Start(p, allow)
          PROVE  UNCHANGED written
      BY <3>2 DEF Own, LockFull, LockAccount, Stop, Crash, Start
    <3>3. ASSUME NEW p \in Procs, Advance(p),
                 ~ \E keys \in SUBSET Positions, error \in BOOLEAN : WriteBatch(p, keys, error)
          PROVE  UNCHANGED written
      <4>1. CASE Poll(p) \/ Balances(p) \/ QueryPositions(p) \/ Diff(p) \/ BaseRead(p)
        BY <4>1 DEF Poll, Balances, QueryPositions, Diff, BaseRead
      <4>2. CASE Compare(p) \/ Prove(p) \/ FundRead(p) \/ FundCompare(p) \/ FundProof(p) \/ Reconcile(p)
        BY <4>2 DEF Compare, Prove, FundRead, FundCompare, FundProof, Reconcile
      <4>3. CASE \/ \E landed, error \in BOOLEAN : FundWrite(p, landed, error)
                 \/ \E ok \in BOOLEAN : Evidence(p, ok)
                 \/ \E outcome \in Outcomes : Settle(p, outcome)
        BY <4>3 DEF FundWrite, Evidence, Settle
      <4>4. QED
        BY <3>3, <4>1, <4>2, <4>3 DEF Advance
    <3>4. QED
      BY <2>2, <2>3, <2>4, <3>1, <3>2, <3>3 DEF Next
  <2>5. QED
    BY <2>3, <2>4 DEF vars
<1>2. QED
  BY <1>1, Invariant, PTL DEF PositionsNeverGoBack, Spec
=============================================================================

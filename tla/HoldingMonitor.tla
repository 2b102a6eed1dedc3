---------------------------- MODULE HoldingMonitor ----------------------------
(***************************************************************************)
(* The monitor of changes of the holdings sheet: the pure comparison of    *)
(* two observations (domain/holding_changes.py), the stored baseline with  *)
(* its generations and schedule (operation_state/_holding_monitor_mixin.py)*)
(* the scans of the background worker and of the operator                  *)
(* (holding_change_monitor_service.py), and the cases of duplicate rows    *)
(* settled in the same transaction (_reconcile_duplicate_cases_tx).        *)
(*                                                                         *)
(* A row is its identity (asset_id, account, broker: `asset`), its type    *)
(* and currency (`unit`) and its quantity; a negative quantity stands for  *)
(* every content that cannot be compared.  An identity is in scope or not: *)
(* excluded rows differ from monitored ones in identity.  Time counts in   *)
(* steps of two seconds, the least distance of two absences.               *)
(***************************************************************************)
EXTENDS Integers, FiniteSets

CONSTANTS
    Rids,           \* record ids of the sheet
    Assets,         \* business identities
    OutOfScope,     \* the ones of Futu, of cash, of other accounts
    Row,            \* the contents people type: asset, unit, quantity
    None,           \* no row, SQL NULL
    Interval,       \* reconcile interval, in steps
    Restores,       \* TRUE: a deleted record may come back under its id
    MaxEdits,       \* bound: edits of the sheet
    MaxTroubles     \* bound: commands, failures and crashes together

ASSUME MonitorAssumption ==
    /\ OutOfScope \subseteq Assets
    /\ IsFiniteSet(Rids)
    /\ \A x \in Row : x.asset \in Assets /\ x.quantity \in Int
    /\ None \notin Row \cup Int \cup {"background", "manual"} \cup [Rids -> Row \cup {None}]
    /\ Interval \in Nat /\ Interval > 1
    /\ Restores \in BOOLEAN
    /\ MaxEdits \in Nat /\ MaxTroubles \in Nat

VARIABLES
    sheet,      \* the rows of the sheet
    base,       \* rows_json: what the monitor knows of each record
    open,       \* the open duplicate_identity cases
    mon,        \* the other columns of the monitor's row
    worker,     \* the background worker: off or on
    scan,       \* the scan of each mode: its pc and what it read
    lock,       \* the owner of the observation lock
    told,       \* what a reader of all receipts believes of each record
    budget      \* edits, announced edits and troubles so far

vars == <<sheet, base, open, mon, worker, scan, lock, told, budget>>

Modes == {"background", "manual"}
States == {"untracked", "active", "gap", "missing_candidate", "deleted", "out_of_scope"}

Untracked == [state |-> "untracked", snapshot |-> None, missing |-> "no", current |-> None]

-----------------------------------------------------------------------------
(* project_record and observe: one complete read against the baseline.      *)
Excluded(x) == x.asset \in OutOfScope
Bad(x) == x.quantity < 0
Eligible(x) == ~ Excluded(x) /\ ~ Bad(x)

Present(rows) == {r \in Rids : rows[r] # None}
Same(rows, r) == {s \in Present(rows) : rows[s].asset = rows[r].asset}

DuplicateIds(rows, old) ==
    {r \in Present(rows) : /\ Cardinality(Same(rows, r)) > 1
                           /\ \E s \in Same(rows, r) : Eligible(rows[s]) \/ old[s].state # "untracked"}

Identity(o) == IF o.snapshot # None THEN o.snapshot.asset ELSE o.current.asset

Gone(rows, old) == {r \in Rids \ Present(rows) : old[r].state \notin {"untracked", "deleted", "out_of_scope"}}

(* Mutant: every read renews the time of the first absence.                 *)
Deleted_Renewed(rows, old) == {}

(* An absence counts when it was first seen two seconds ago or more.        *)
Deleted(rows, old) == {r \in Gone(rows, old) : old[r].missing = "aged"}

Protected(rows, old) == {Identity(old[r]) : r \in Gone(rows, old) \ Deleted(rows, old)}

MissingSince(o) == IF o.missing = "no" THEN "fresh" ELSE o.missing

Problem(rows, old, r) ==
    /\ ~ Excluded(rows[r])
    /\ r \in DuplicateIds(rows, old) \/ Bad(rows[r]) \/ rows[r].asset \in Protected(rows, old)

Observed(rows, old, r) ==
    CASE r \in Deleted(rows, old) -> [old[r] EXCEPT !.state = "deleted", !.missing = "no"]
      [] r \in Gone(rows, old) \ Deleted(rows, old) ->
           [old[r] EXCEPT !.state = "missing_candidate", !.missing = MissingSince(old[r])]
      [] r \notin Present(rows) \cup Gone(rows, old) -> old[r]
      [] rows[r] # None /\ Excluded(rows[r]) ->
           IF old[r].snapshot # None /\ old[r].state \notin {"deleted", "out_of_scope"}
           THEN [Untracked EXCEPT !.state = "out_of_scope", !.snapshot = rows[r]]
           ELSE old[r]
      [] rows[r] # None /\ Problem(rows, old, r) ->
           [state |-> "gap", snapshot |-> old[r].snapshot, missing |-> "no", current |-> rows[r]]
      [] OTHER -> [Untracked EXCEPT !.state = "active", !.snapshot = rows[r]]

(* The record that a new one replaces, if there is exactly one and it is    *)
(* confirmed deleted.                                                       *)
Replaced(rows, old, r) ==
    LET gone == {s \in Gone(rows, old) : Identity(old[s]) = rows[r].asset}
    IN  IF old[r].snapshot = None /\ Cardinality(gone) = 1 THEN gone \cap Deleted(rows, old) ELSE {}

(* A comparable row is reported when it takes the place of another, is seen *)
(* for the first time with a quantity, comes back into scope or differs in  *)
(* identity, type, currency or quantity from what was known of its record.  *)
Changed(rows, old, r) ==
    LET before == old[r].snapshot
        after  == rows[r]
    IN  \/ Replaced(rows, old, r) # {}
        \/ IF before = None \/ old[r].state = "deleted" THEN after.quantity > 0
           ELSE old[r].state = "out_of_scope" \/ before # after

(* What the reader believes after the changes: the row it was last told,    *)
(* None after a deletion or before a first observation.                     *)
Told(rows, old, r) ==
    CASE r \in Deleted(rows, old) -> None
      [] rows[r] # None /\ Observed(rows, old, r).state = "out_of_scope" ->
           IF old[r].state = "out_of_scope" THEN told[r] ELSE rows[r]
      [] rows[r] # None /\ Observed(rows, old, r).state = "active" /\ Changed(rows, old, r) -> rows[r]
      [] OTHER -> told[r]

(* The records whose duplicate cases this read may open or close.           *)
Covered(rows, old) ==
    LET settled == Deleted(rows, old) \cup
                   {r \in Present(rows) :
                      CASE Excluded(rows[r]) -> old[r].snapshot # None
                        [] Problem(rows, old, r) -> /\ r \in DuplicateIds(rows, old)
                                                    /\ rows[r].asset \notin Protected(rows, old)
                        [] OTHER -> TRUE}
    IN  {r \in settled : Identity(Observed(rows, old, r)) \notin Protected(rows, old)}

-----------------------------------------------------------------------------
(* _reconcile_duplicate_cases_tx.                                           *)
Case == [record : Rids, asset : Assets, members : SUBSET Rids]

DuplicateCases(rows, covered) ==
    {[record |-> r, asset |-> rows[r].asset, members |-> Same(rows, r)] :
        r \in {s \in covered \cap Present(rows) : Cardinality(Same(rows, s)) > 1}}

FullyObserved(c, rows, covered, deleted) ==
    \/ c.record \in deleted
    \/ c.record \in covered /\ c.members \subseteq deleted \cup Present(rows)

(* Mutant: a case is closed when its row no longer has a duplicate.         *)
Closes_WhenAlone(c, rows, covered, deleted) ==
    rows[c.record] # None /\ Same(rows, c.record) = {c.record}

Closes(c, rows, covered, deleted) ==
    /\ FullyObserved(c, rows, covered, deleted)
    /\ \/ c.record \in deleted
       \/ rows[c.record].asset # c.asset
       \/ ~ Bad(rows[c.record]) /\ Same(rows, c.record) = {c.record}

Reconciled(rows, covered, deleted) ==
    LET safe == {c \in DuplicateCases(rows, covered) :
                    c \in open \/ \A d \in open : d.record = c.record => FullyObserved(d, rows, covered, deleted)}
    IN  safe \cup {c \in open : /\ \A d \in safe : d.record # c.record
                                /\ ~ Closes(c, rows, covered, deleted)}

-----------------------------------------------------------------------------
(* External: people edit the sheet (what they do before there is a baseline *)
(* is in the first sheet); Feishu announces an edit or loses it.            *)
Spend(kind, limit) == budget[kind] < limit /\ budget' = [budget EXCEPT ![kind] = @ + 1]

Edit(r, x) ==
    /\ mon.ready
    /\ Spend("edits", MaxEdits)
    /\ x # sheet[r]
    /\ (x # None /\ sheet[r] = None) => Restores \/ base[r].state \in {"untracked", "active"}
    /\ sheet' = [sheet EXCEPT ![r] = x]
    /\ UNCHANGED <<base, open, mon, worker, scan, lock, told>>

Sooner(due, steps) == IF due = None \/ due > steps THEN steps ELSE due

Request(m, steps) ==
    IF m.ready /\ m.enabled
    THEN [m EXCEPT !.requested = @ + 1, !.due = IF m.failures > 0 THEN @ ELSE Sooner(@, steps)]
    ELSE m

(* accept_holding_event, whose inbox is that of HoldingCases.               *)
Announce ==
    /\ Spend("announced", budget.edits)
    /\ mon' = Request(mon, 1)
    /\ UNCHANGED <<sheet, base, open, worker, scan, lock, told>>

Tick ==
    /\ mon.due \notin {None, 0} \/ \E r \in Rids : base[r].missing = "fresh"
    /\ mon' = [mon EXCEPT !.due = IF @ \in {None, 0} THEN @ ELSE @ - 1]
    /\ base' = [r \in Rids |-> IF base[r].missing = "fresh" THEN [base[r] EXCEPT !.missing = "aged"] ELSE base[r]]
    /\ UNCHANGED <<sheet, open, worker, scan, lock, told, budget>>

-----------------------------------------------------------------------------
(* The worker's loop: once there is a baseline it enables the monitor and   *)
(* asks for a first scan.                                                   *)
Start ==
    /\ worker = "off"
    /\ mon.ready
    /\ worker' = "on"
    /\ mon' = Request([mon EXCEPT !.enabled = TRUE], 0)
    /\ UNCHANGED <<sheet, base, open, scan, lock, told, budget>>

Idle == [pc |-> "idle", old |-> None, generation |-> 0, rows |-> None, asked |-> 0]

Stop ==
    /\ worker = "on" /\ scan["background"].pc = "idle"
    /\ Spend("troubles", MaxTroubles)
    /\ worker' = "off"
    /\ mon' = [mon EXCEPT !.enabled = FALSE]
    /\ UNCHANGED <<sheet, base, open, scan, lock, told>>

(* Initialize or rebuild: refused while any row cannot be compared.         *)
Initialize ==
    LET fresh == [r \in Rids |-> Untracked]
    IN  /\ lock = None
        /\ ~ mon.ready \/ Spend("troubles", MaxTroubles)
        /\ mon.ready \/ budget' = budget
        /\ \A r \in Present(sheet) : ~ Problem(sheet, fresh, r)
        /\ base' = [r \in Rids |-> Observed(sheet, fresh, r)]
        /\ told' = [r \in Rids |-> base'[r].snapshot]
        /\ mon' = [ready |-> TRUE, enabled |-> FALSE, requested |-> 0, completed |-> 0,
                   due |-> None, failures |-> 0, seen |-> 0]
        /\ UNCHANGED <<sheet, open, worker, scan, lock>>

-----------------------------------------------------------------------------
(* scan: under the observation lock the state is read, then the sheet.      *)
(* Mutant: no lock.                                                         *)
Enter_Unlocked(m) == lock' = lock

Enter(m) == lock = None /\ lock' = m

Begin(m) ==
    /\ scan[m].pc = "idle"
    /\ mon.ready
    /\ Enter(m)
    /\ IF m = "background"
       THEN worker = "on" /\ mon.due \in {None, 0} /\ budget' = budget
       ELSE Spend("troubles", MaxTroubles)
    /\ scan' = [scan EXCEPT ![m] = [Idle EXCEPT !.pc = "read", !.old = base, !.generation = mon.requested]]
    /\ UNCHANGED <<sheet, base, open, mon, worker, told>>

Read(m) ==
    /\ scan[m].pc = "read"
    /\ scan' = [scan EXCEPT ![m].pc = "settle", ![m].rows = sheet, ![m].asked = mon.requested]
    /\ UNCHANGED <<sheet, base, open, mon, worker, lock, told, budget>>

Delay(rows, now, requested, generation) ==
    IF requested > generation \/ \E r \in Rids : rows[r].state = "missing_candidate" THEN 1 ELSE Interval

(* Mutant: the requests that arrived during the scan are settled with it.   *)
Settled_Latest(m, x) ==
    [mon EXCEPT !.completed = mon.requested, !.due = Interval, !.failures = 0, !.seen = x.asked]

(* The background scan completes the generation it began with; `seen` is    *)
(* the number of requests made before the read it settles.                  *)
Settled(m, x) ==
    IF m = "manual" THEN mon
    ELSE [mon EXCEPT !.completed = x.generation, !.failures = 0, !.seen = x.asked,
                     !.due = Delay(base', 0, mon.requested, x.generation)]

Settle(m) ==
    LET x == scan[m]
    IN  /\ x.pc = "settle"
        /\ base' = [r \in Rids |-> Observed(x.rows, x.old, r)]
        /\ told' = [r \in Rids |-> IF \E s \in Present(x.rows) :
                                         /\ Observed(x.rows, x.old, s).state = "active"
                                         /\ r \in Replaced(x.rows, x.old, s)
                                   THEN None ELSE Told(x.rows, x.old, r)]
        /\ open' = Reconciled(x.rows, Covered(x.rows, x.old), Deleted(x.rows, x.old))
        /\ mon' = Settled(m, x)
        /\ lock' = None
        /\ scan' = [scan EXCEPT ![m] = Idle]
        /\ UNCHANGED <<sheet, worker, budget>>

Backoff(failures) == IF failures = 1 THEN 1 ELSE Interval

Fail(m) ==
    /\ scan[m].pc # "idle"
    /\ Spend("troubles", MaxTroubles)
    /\ mon' = IF m = "manual" THEN mon
              ELSE [mon EXCEPT !.failures = @ + 1, !.due = Backoff(mon.failures + 1)]
    /\ lock' = None
    /\ scan' = [scan EXCEPT ![m] = Idle]
    /\ UNCHANGED <<sheet, base, open, worker, told>>

(* The process dies: the lock is released, enabled stays as it was.         *)
Crash(m) ==
    /\ scan[m].pc # "idle"
    /\ Spend("troubles", MaxTroubles)
    /\ worker' = IF m = "background" THEN "off" ELSE worker
    /\ lock' = None
    /\ scan' = [scan EXCEPT ![m] = Idle]
    /\ UNCHANGED <<sheet, base, open, mon, told>>

-----------------------------------------------------------------------------
Init ==
    /\ sheet \in [Rids -> Row \cup {None}]
    /\ \A r \in Present(sheet) : ~ Bad(sheet[r]) /\ Cardinality(Same(sheet, r)) = 1
    /\ base = [r \in Rids |-> Untracked]
    /\ open = {}
    /\ mon = [ready |-> FALSE, enabled |-> FALSE, requested |-> 0, completed |-> 0,
              due |-> None, failures |-> 0, seen |-> 0]
    /\ worker = "off"
    /\ scan = [m \in Modes |-> Idle]
    /\ lock = None
    /\ told = [r \in Rids |-> None]
    /\ budget = [kind \in {"edits", "announced", "troubles"} |-> 0]

Next ==
    \/ \E r \in Rids, x \in Row \cup {None} : Edit(r, x)
    \/ Announce \/ Tick
    \/ Start \/ Stop \/ Initialize
    \/ \E m \in Modes : Begin(m) \/ Read(m) \/ Settle(m) \/ Fail(m) \/ Crash(m)

(* Time passes, the worker is restarted by its supervisor and polls every   *)
(* second, and a scan that has begun goes on.                               *)
Fairness ==
    /\ WF_vars(Tick) /\ WF_vars(Start)
    /\ SF_vars(Begin("background"))
    /\ \A m \in Modes : WF_vars(Read(m)) /\ WF_vars(Settle(m))

Spec == Init /\ [][Next]_vars /\ Fairness

-----------------------------------------------------------------------------
(* The stored rows have the fields their state needs, a record has at most  *)
(* one duplicate case, and a scan past the lock owns it.                    *)
Known == [state : States, snapshot : Row \cup {None}, missing : {"no", "fresh", "aged"}, current : Row \cup {None}]

Complete(o) ==
    /\ (o.state = "missing_candidate") = (o.missing # "no")
    /\ o.state \in {"active", "out_of_scope"} => o.snapshot # None
    /\ o.state \notin {"untracked", "active", "out_of_scope"} => o.snapshot # None \/ o.current # None

Sheet == [Rids -> Row \cup {None}]

Baseline == {b \in [Rids -> Known] : \A r \in Rids : Complete(b[r])}

Monitor == [ready : BOOLEAN, enabled : BOOLEAN, requested : Nat, completed : Nat,
            due : 0 .. Interval \cup {None}, failures : Nat, seen : Nat]

Scan == [pc : {"idle", "read", "settle"}, old : Baseline \cup {None}, generation : Nat,
         rows : Sheet \cup {None}, asked : Nat]

Shapes ==
    /\ sheet \in Sheet
    /\ base \in Baseline
    /\ open \in SUBSET Case
    /\ mon \in Monitor
    /\ worker \in {"off", "on"}
    /\ scan \in [Modes -> Scan]
    /\ lock \in Modes \cup {None}
    /\ told \in Sheet
    /\ budget \in [{"edits", "announced", "troubles"} -> Nat]

OneCaseEach == \A c, d \in open : c.record = d.record => c = d

Owners == \A m \in Modes : (lock = m) = (scan[m].pc # "idle")

TypeOK == Shapes /\ OneCaseEach /\ Owners

(* A request that reached the monitor after the sheet was read is never     *)
(* completed by that read: the edit it announces may not be in it.          *)
CompletedWasRead == mon.completed <= mon.seen

(* Whoever reads every receipt knows what the monitor knows, whatever scans *)
(* of the worker and of the operator interleave with edits, rebuilds and    *)
(* failures: no change of the baseline goes untold, none is told falsely.   *)
ReaderKnows ==
    \A r \in Rids :
        CASE base[r].state = "deleted"      -> told[r] = None
          [] OTHER -> \/ told[r] = base[r].snapshot
                      \/ told[r] = None /\ base[r].snapshot.quantity = 0

(* docs/non-futu-holdings-change-monitor-design.md:72, "删除 tombstone 和     *)
(* out_of_scope 状态保留到显式重建基线": a record that was told deleted and  *)
(* is monitored again has been told so.                                     *)
MonitoredIsTold ==
    \A r \in Rids : base[r].state = "active" /\ base[r].snapshot.quantity > 0 => told[r] = base[r].snapshot

GoneTwice(r) == base[r].state = "deleted" \/ base[r].missing = "aged"

(* A duplicate case is given up only on proof: its row was absent from two  *)
(* reads two seconds apart, has another identity, is part of another set of duplicates, or  *)
(* every former member was read somewhere or was absent twice.              *)
DuplicateClosedOnProof ==
    [][\A c \in open \ open' :
         \/ GoneTwice(c.record)
         \/ \E d \in open' : d.record = c.record
         \/ \E m \in Modes : /\ scan[m].rows # None /\ scan[m].rows[c.record] # None
                             /\ \/ scan[m].rows[c.record].asset # c.asset
                                \/ \A s \in c.members : scan[m].rows[s] # None \/ GoneTwice(s)]_vars

(* The periodic scan makes up for lost events, failures, restarts and       *)
(* rebuilds: when people stop editing, the baseline becomes the sheet.      *)
Reflects(r) ==
    CASE sheet[r] = None -> base[r].state \in {"untracked", "deleted", "out_of_scope"}
      [] sheet[r] # None /\ Excluded(sheet[r]) -> base[r].state \in {"untracked", "deleted", "out_of_scope"}
                                                  \/ base[r].snapshot = None
      [] sheet[r] # None /\ (Bad(sheet[r]) \/ Cardinality(Same(sheet, r)) > 1) -> base[r].state = "gap"
      [] OTHER -> base[r].state = "active" /\ base[r].snapshot = sheet[r]

BaselineCatchesUp == <>[](mon.ready => \A r \in Rids : Reflects(r))
=============================================================================

-------------------------------- MODULE NavRun --------------------------------
(***************************************************************************)
(* A run that records the NAV of one account and date together with the    *)
(* exact set of its holdings snapshot, and its recovery: the daily job's   *)
(* check and the recorder (daily_nav_job_service.py,                       *)
(* account_nav_recorder_service.py), the write in five remote steps with   *)
(* its prepared task (nav_record_service.py, snapshot_service.py), the NAV *)
(* index each process keeps (nav_history_repository.py), and the retry of  *)
(* the task (compensation_service.py).                                     *)
(*                                                                         *)
(* Runs hold the account lock from the calculation to the end, so between  *)
(* two of their steps only crashes, failing calls and people come.  A call *)
(* that fails may have reached the table or not.  The details of a row are *)
(* bound by digests to the plan of one task: the row carries that task.    *)
(***************************************************************************)
EXTENDS Integers, FiniteSets, SnapshotSets

CONSTANTS
    Procs,          \* processes of the host: the service, command lines
    Runs,           \* runs, each with its run id and its task
    Dates,          \* 1 .. n, consecutive NAV dates
    Values,         \* valuations of the account
    Target(_),      \* the snapshot slice of a valuation
    Budgets,        \* bounds of a scenario: the runs, with the processes, dates,
                    \* valuations and overwrite_existing flags they may have, the
                    \* faults (failing calls and crashes), NAV rows people delete,
                    \* repairs (see NavRepair)
    Histories       \* the tables there are at first: rows of older versions

Budget == [runs : Nat, procs : SUBSET Procs, dates : SUBSET Dates, values : SUBSET Values,
           overwrites : SUBSET BOOLEAN, faults : Nat, deletes : Nat, repairs : Nat]

Older(row) == [id |-> row.id, task |-> None, status |-> "legacy", value |-> row.value,
               base |-> row.base, repaired |-> FALSE]

ASSUME NavRunAssumption ==
    /\ IsFiniteSet(Dates) /\ Dates = 1 .. Cardinality(Dates)
    /\ None \notin Procs /\ None \notin Runs /\ "repair" \notin Procs /\ None # "repair"
    /\ \A v \in Values : Target(v) \in Slice
    /\ Budgets \subseteq Budget
    /\ \A h \in Histories :
         /\ h = [d \in Dates |-> h[d]]
         /\ \A d \in Dates : h[d] # None => h[d] = Older(h[d]) /\ h[d].id \in Dates
         /\ \A d, e \in Dates : h[d] # None /\ h[e] # None /\ h[d].id = h[e].id => d = e

VARIABLES
    nav,        \* nav_history: the row of each date
    snap,       \* holdings_snapshot: the slice of each date
    task,       \* each run's call and its compensation task
    proc,       \* what each process is doing
    lock,       \* the owner of the account lock
    index,      \* the NAV index in the memory of each process
    ids,        \* record ids given so far
    left        \* what is left of the budget

vars == <<nav, snap, task, proc, lock, index, ids, left>>

Statuses == {"unused", "called", "PREPARED", "PENDING", "RUNNING", "FAILED", "RESOLVED"}
Idle == [pc |-> "idle", run |-> None, id |-> 0, retry |-> FALSE]
Steps == {"write", "check", "create", "update", "delete", "patch", "confirm", "fail"}

Incomplete(row) == row.status \in {"prepared", "failed"}

(* What a row gives to the calculation of the next one.                     *)
Fresh == [d \in Dates |-> IF nav[d] = None THEN None ELSE [value |-> nav[d].value, base |-> nav[d].base]]

-----------------------------------------------------------------------------
(* The daily job audits the account's rows, which refreshes the index of    *)
(* its process, and goes on if there is no row of that date or it may be    *)
(* overwritten; the manual command does not look.                           *)
Skips(d, overwrite) == nav[d] # None /\ ~ overwrite

Call(p, r, d, v, overwrite, daily) ==
    /\ proc[p].pc = "idle"
    /\ task[r].status = "unused"
    /\ \A s \in Runs : s < r => task[s].status # "unused"
    /\ daily => ~ Skips(d, overwrite)
    /\ index' = IF daily THEN [index EXCEPT ![p] = Fresh] ELSE index
    /\ task' = [task EXCEPT ![r] = [status |-> "called", date |-> d, value |-> v,
                                    overwrite |-> overwrite, base |-> None, before |-> None]]
    /\ proc' = [proc EXCEPT ![p] = [Idle EXCEPT !.pc = "called", !.run = r]]
    /\ left.runs > 0 /\ left' = [left EXCEPT !.runs = @ - 1]
    /\ UNCHANGED <<nav, snap, lock, ids>>

(* _load_navs: the index of the process if there is one.                    *)
History(p) == IF index[p] = None THEN Fresh ELSE index[p]

(* _find_latest_nav_before.                                                 *)
Previous(rows, d) ==
    LET earlier == {e \in Dates : e < d /\ rows[e] # None}
    IN  IF earlier = {} THEN None ELSE rows[CHOOSE e \in earlier : \A f \in earlier : f <= e]

(* bind: a slice or a row that exists is only replaced with the flag.       *)
Refused(r) ==
    LET t == task[r]
    IN  /\ ~ t.overwrite
        /\ nav[t.date] # None \/ \E k \in Keys : snap[t.date][k] # None

(* Under the lock: the calculation, the plan, the preview and the prepared  *)
(* task, forced to disk before the first remote change.                     *)
Prepare(p) ==
    LET r == proc[p].run
    IN  /\ proc[p].pc = "called"
        /\ lock = None
        /\ index' = [index EXCEPT ![p] = Fresh]
        /\ IF Refused(r)
           THEN /\ proc' = [proc EXCEPT ![p] = Idle]
                /\ UNCHANGED <<task, lock>>
           ELSE /\ lock' = p
                /\ task' = [task EXCEPT ![r].status = "PREPARED", ![r].before = snap[task[r].date],
                                        ![r].base = Previous(History(p), task[r].date)]
                /\ proc' = [proc EXCEPT ![p].pc = "write"]
        /\ UNCHANGED <<nav, snap, ids, left>>

-----------------------------------------------------------------------------
(* A remote call succeeds, or fails having reached the table or not.        *)
Outcomes == {[error |-> FALSE, landed |-> TRUE]} \cup
            IF left.faults > 0 THEN {[error |-> TRUE, landed |-> l] : l \in BOOLEAN} ELSE {}

Charge(o) == left' = IF o.error THEN [left EXCEPT !.faults = @ - 1] ELSE left

(* Mutant: the row is written with its final details.                       *)
Row_Complete(r, id) == [id |-> id, task |-> r, status |-> "complete", value |-> task[r].value,
                         base |-> task[r].base, repaired |-> FALSE]

Row(r, id) == [id |-> id, task |-> r, status |-> "prepared", value |-> task[r].value,
                base |-> task[r].base, repaired |-> FALSE]

(* classify_recovery_nav_state: the row's details are those of the task, or *)
(* not; nothing else than the task's own transitions may have changed them. *)
(* Mutant: the row's digests are not compared with the task's.              *)
Classify_AnyTask(row, r) == IF row.status = "complete" THEN "complete" ELSE "incomplete"

Classify(row, r) ==
    IF row.task # r \/ row.repaired THEN "conflict" ELSE IF row.status = "complete" THEN "complete" ELSE "incomplete"

(* After a failed write a fresh read tells: no row, then nothing is to be   *)
(* replayed; this run's row, then it goes on; another row, then the outcome *)
(* stays unknown.                                                           *)
AfterWrite(row, r) == IF row = None THEN "RESOLVED" ELSE "PENDING"

Release(p) ==
    /\ lock' = None
    /\ proc' = [proc EXCEPT ![p] = Idle]

Write(p, o) ==
    LET r   == proc[p].run
        d   == task[r].date
        id  == IF nav[d] = None THEN ids + 1 ELSE nav[d].id
        row == IF o.landed THEN Row(r, id) ELSE nav[d]
    IN  /\ proc[p].pc = "write"
        /\ nav' = [nav EXCEPT ![d] = row]
        /\ Charge(o)
        /\ ids' = IF o.landed /\ nav[d] = None THEN id ELSE ids
        /\ index' = [index EXCEPT ![p] = None]
        /\ IF ~ o.error
           THEN /\ proc' = [proc EXCEPT ![p].pc = "check", ![p].id = id]
                /\ UNCHANGED <<task, lock>>
           ELSE /\ task' = [task EXCEPT ![r].status = AfterWrite(row, r)]
                /\ IF row # None /\ Classify(row, r) # "conflict"
                   THEN proc' = [proc EXCEPT ![p].pc = "check", ![p].id = row.id] /\ lock' = lock
                   ELSE Release(p)
        /\ UNCHANGED snap

(* What the run or the retry reads again before each change of the NAV.     *)
Lost(p, d) == nav[d] = None \/ nav[d].id # proc[p].id \/ Classify(nav[d], proc[p].run) = "conflict"

Goto(p, pc) ==
    /\ proc' = [proc EXCEPT ![p].pc = pc]
    /\ UNCHANGED <<task, lock>>

Desired(r) == Target(task[r].value)

Check(p) ==
    LET r == proc[p].run
        d == task[r].date
    IN  /\ proc[p].pc = "check"
        /\ Goto(p, IF Lost(p, d) \/ Conflict(task[r].before, Desired(r), snap[d]) THEN "fail" ELSE "create")
        /\ UNCHANGED <<nav, snap, index, ids, left>>

(* Three batches, creates before updates before deletes.                    *)
Stage == [create |-> "update", update |-> "delete", delete |-> "patch"]

Rows(stage, desired, current) ==
    CASE stage = "create" -> Creates(desired, current)
      [] stage = "update" -> Updates(desired, current)
      [] stage = "delete" -> Deletes(desired, current)

Batch(p, o) ==
    LET r    == proc[p].run
        d    == task[r].date
        keys == Rows(proc[p].pc, Desired(r), snap[d])
    IN  /\ proc[p].pc \in DOMAIN Stage
        /\ keys = {} => ~ o.error
        /\ snap' = IF o.landed THEN [snap EXCEPT ![d] = Written(@, Desired(r), keys)] ELSE snap
        /\ Charge(o)
        /\ Goto(p, IF o.error THEN "fail" ELSE Stage[proc[p].pc])
        /\ UNCHANGED <<nav, index, ids>>

(* _assert_exact_readback.                                                  *)
Verified(r, d) == Exact(Desired(r), snap[d])

(* The slice is read back, then the row; the row is marked complete.        *)
Patch(p, o) ==
    LET r == proc[p].run
        d == task[r].date
    IN  /\ proc[p].pc = "patch"
        /\ IF Lost(p, d) \/ ~ Verified(r, d)
           THEN ~ o.error /\ Goto(p, "fail") /\ UNCHANGED <<nav, left, index>>
           ELSE /\ Classify(nav[d], r) = "complete" => ~ o.error
                /\ nav' = IF o.landed THEN [nav EXCEPT ![d].status = "complete"] ELSE nav
                /\ Charge(o)
                /\ index' = [index EXCEPT ![p] = None]
                /\ Goto(p, IF o.error THEN "fail" ELSE "confirm")
        /\ UNCHANGED <<snap, ids>>

Confirm(p) ==
    LET r == proc[p].run
        d == task[r].date
    IN  /\ proc[p].pc = "confirm"
        /\ IF Lost(p, d) \/ Classify(nav[d], r) # "complete"
           THEN Goto(p, "fail")
           ELSE task' = [task EXCEPT ![r].status = "RESOLVED"] /\ Release(p)
        /\ UNCHANGED <<nav, snap, index, ids, left>>

(* The run marks the row failed, unless a fresh read shows it complete; a   *)
(* retry leaves the row alone.                                              *)
Fail(p, o) ==
    LET r == proc[p].run
        d == task[r].date
        recovered == ~ proc[p].retry /\ ~ Lost(p, d) /\ Classify(nav[d], r) = "complete"
        marks     == ~ proc[p].retry /\ ~ Lost(p, d) /\ ~ recovered
    IN  /\ proc[p].pc = "fail"
        /\ ~ marks => ~ o.error
        /\ nav' = IF marks /\ o.landed THEN [nav EXCEPT ![d].status = "failed"] ELSE nav
        /\ Charge(o)
        /\ index' = [index EXCEPT ![p] = None]
        /\ task' = [task EXCEPT ![r].status = IF recovered THEN "RESOLVED" ELSE "FAILED"]
        /\ Release(p)
        /\ UNCHANGED <<snap, ids>>

-----------------------------------------------------------------------------
(* compensation.retry: any task that is not resolved may be retried, also   *)
(* one that was running when its process died.                              *)
Retryable(status) == status \in {"PREPARED", "PENDING", "RUNNING", "FAILED"}

Retry(p, r) ==
    LET d == task[r].date
    IN  /\ proc[p].pc = "idle"
        /\ lock = None
        /\ Retryable(task[r].status)
        /\ index' = [index EXCEPT ![p] = Fresh]
        /\ IF nav[d] = None
           THEN task' = [task EXCEPT ![r].status = "RESOLVED"] /\ UNCHANGED <<proc, lock>>
           ELSE /\ lock' = p
                /\ task' = [task EXCEPT ![r].status = "RUNNING"]
                /\ proc' = [proc EXCEPT ![p] = [pc |-> "check", run |-> r, id |-> nav[d].id, retry |-> TRUE]]
        /\ UNCHANGED <<nav, snap, ids, left>>

(* External: the process dies; its memory and its lock are gone.            *)
Crash(p) ==
    /\ proc[p].pc # "idle"
    /\ left.faults > 0
    /\ left' = [left EXCEPT !.faults = @ - 1]
    /\ lock' = IF lock = p THEN None ELSE lock
    /\ proc' = [proc EXCEPT ![p] = Idle]
    /\ index' = [index EXCEPT ![p] = None]
    /\ UNCHANGED <<nav, snap, task, ids>>

(* External: someone deletes a NAV row in the table.                        *)
Delete(d) ==
    /\ nav[d] # None
    /\ left.deletes > 0
    /\ left' = [left EXCEPT !.deletes = @ - 1]
    /\ nav' = [nav EXCEPT ![d] = None]
    /\ UNCHANGED <<snap, task, proc, lock, index, ids>>

-----------------------------------------------------------------------------
Unused == [status |-> "unused", date |-> 1, value |-> None, overwrite |-> FALSE, base |-> None, before |-> None]

Init ==
    /\ nav \in Histories
    /\ snap = [d \in Dates |-> [k \in Keys |-> None]]
    /\ task = [r \in Runs |-> Unused]
    /\ proc = [p \in Procs |-> Idle]
    /\ lock = None
    /\ index = [p \in Procs |-> None]
    /\ ids = Cardinality(Dates)
    /\ left \in Budgets

Advance(p) ==
    \/ Check(p) \/ Confirm(p)
    \/ \E o \in Outcomes : Write(p, o) \/ Batch(p, o) \/ Patch(p, o) \/ Fail(p, o)

Next ==
    \/ \E p \in left.procs :
         \/ \E r \in Runs, d \in left.dates, v \in left.values, w \in left.overwrites, daily \in BOOLEAN :
               Call(p, r, d, v, w, daily)
         \/ Prepare(p)
         \/ Check(p) \/ Confirm(p)
         \/ \E o \in Outcomes : Write(p, o) \/ Batch(p, o) \/ Patch(p, o) \/ Fail(p, o)
         \/ \E r \in Runs : Retry(p, r)
         \/ Crash(p)
    \/ \E d \in Dates : Delete(d)

(* A process goes on with what it does, and somebody enters the command     *)
(* that a row which is not complete names.                                  *)
Asked(p, r) == (\E d \in Dates : nav[d] # None /\ Incomplete(nav[d]) /\ nav[d].task = r) /\ Retry(p, r)

Fairness ==
    /\ \A p \in Procs : WF_vars(Advance(p))
    /\ \A r \in Runs : SF_vars(\E p \in left.procs : Asked(p, r))

Spec == Init /\ [][Next]_vars /\ Fairness

-----------------------------------------------------------------------------
(* Whoever is past the preparation owns the account lock and has a task on  *)
(* disk with the slice it found; ids are fresh.                             *)
TypeOK ==
    /\ \A r \in Runs : task[r].status \in Statuses
    /\ \A r \in Runs : task[r].status \notin {"unused", "called"} => task[r].before \in Slice
    /\ \A p \in Procs : (lock = p) = (proc[p].pc \in Steps)
    /\ \A p \in Procs : proc[p].pc \in Steps => task[proc[p].run].status \in {"PREPARED", "PENDING", "RUNNING"}
    /\ \A d \in Dates : nav[d] # None => nav[d].id \in 1 .. ids /\ nav[d].status \in {"legacy", "prepared", "failed", "complete"}
    /\ \A d, e \in Dates : nav[d] # None /\ nav[e] # None /\ nav[d].id = nav[e].id => d = e
    /\ \A d \in Dates : snap[d] \in Slice

(* A row that says its snapshot is complete has exactly the snapshot of its *)
(* valuation beside it, whatever runs, retries of old tasks, failing calls  *)
(* and crashes came in between.                                             *)
CompleteIsExact ==
    \A d \in Dates : nav[d] # None /\ nav[d].status = "complete" => snap[d] = Target(nav[d].value)

(* implementation-plan.md:157, "Any unknown/partial stage remains           *)
(* recoverable": a row that is not complete has a task that can be retried. *)
PartialIsRecoverable ==
    \A d \in Dates : nav[d] # None /\ Incomplete(nav[d]) => task[nav[d].task].status # "RESOLVED"

(* A row that says its snapshot is complete has exactly the slice of its    *)
(* valuation, and a row that does not names a task that can be retried.     *)
RowsMatchSlices == CompleteIsExact /\ PartialIsRecoverable

(* A slice is changed only for the task that the row of its date names: the *)
(* retry of an older task never touches what a later run wrote.             *)
SliceFollowsRow ==
    [][\A d \in Dates : snap'[d] # snap[d] /\ nav[d] # None
         => \E p \in Procs : lock = p /\ proc[p].run = nav[d].task]_vars

(* A row that is not complete, which the command it names would finish,     *)
(* unless a repair has changed it (see NavRepair).                          *)
Unfinished == \E d \in Dates : nav[d] # None /\ Incomplete(nav[d]) /\ ~ nav[d].repaired
=============================================================================

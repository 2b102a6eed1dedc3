---------------------------- MODULE NavRepairProofs ----------------------------
(***************************************************************************)
(* What is proved of the NAV runs and of the repair beside them, for any   *)
(* processes, runs, dates, keys and valuations, any tables to begin with   *)
(* and any number of faults, deletions and retries.                        *)
(*                                                                         *)
(* The account lock carries the argument: whoever changes a slice or a row *)
(* owns it, and has read under it what the row of its date says (Holding   *)
(* for a run, Command for the repair).  What runs between two of its steps *)
(* is people, who can only take the row away.                              *)
(***************************************************************************)
EXTENDS NavRepair, FiniteSetTheorems, WellFoundedInduction, TLAPS

IsRow(x) == x = [id |-> x.id, task |-> x.task, status |-> x.status, value |-> x.value,
                 base |-> x.base, repaired |-> x.repaired]

IsTask(t) == t = [status |-> t.status, date |-> t.date, value |-> t.value,
                  overwrite |-> t.overwrite, base |-> t.base, before |-> t.before]

IsFields(f) == f = [base |-> f.base, task |-> f.task, status |-> f.status, repaired |-> f.repaired]

IsEntry(e) == e = [id |-> e.id, value |-> e.value, was |-> e.was, want |-> e.want, status |-> e.status]

-----------------------------------------------------------------------------
(* The runs.  A row that a run wrote names its task, which has its date and *)
(* its value.                                                               *)
Begun == {"PREPARED", "PENDING", "RUNNING"}

RowOf(x, d, tasks) ==
    /\ IsRow(x)
    /\ x.status \in {"legacy", "prepared", "failed", "complete"}
    /\ x.repaired \in BOOLEAN
    /\ x.status = "legacy" => x.task = None
    /\ x.status # "legacy" => /\ x.task \in Runs
                              /\ tasks[x.task].date = d /\ tasks[x.task].value = x.value
                              /\ tasks[x.task].status \notin {"unused", "called"}

Table == nav = [d \in Dates |-> nav[d]] /\ \A d \in Dates : nav[d] # None => RowOf(nav[d], d, task)

Ids ==
    /\ ids \in Nat
    /\ \A d \in Dates : nav[d] # None => nav[d].id \in 1 .. ids
    /\ \A d, e \in Dates : nav[d] # None /\ nav[e] # None /\ nav[d].id = nav[e].id => d = e

TaskOf(t) ==
    /\ IsTask(t)
    /\ t.status \in Statuses
    /\ t.status # "unused" => t.date \in Dates /\ t.value \in Values
    /\ t.status \notin {"unused", "called"} => t.before \in Slice

Tasks == task = [r \in Runs |-> task[r]] /\ \A r \in Runs : TaskOf(task[r])

Process == [pc : {"idle", "called"} \cup Steps, run : Runs \cup {None}, id : Nat, retry : BOOLEAN]

After == {"create", "update", "delete", "patch", "confirm"}

(* The row that a run has read: still there, unless people deleted it.      *)
Mine(row, x) == row = None \/ (row.id = x.id /\ row.task = x.run /\ row.repaired = FALSE)

Holding(p, x, owner, rows, tasks) ==
    /\ x.pc # "idle" => x.run \in Runs
    /\ x.pc = "called" => tasks[x.run].status = "called"
    /\ x.pc \in Steps => tasks[x.run].status \in Begun
    /\ (owner = p) = (x.pc \in Steps)
    /\ x.pc \in After => Mine(rows[tasks[x.run].date], x)

Hands == \A p \in Procs : Holding(p, proc[p], lock, nav, task)

OneCaller ==
    \A p, q \in Procs : proc[p].pc = "called" /\ proc[q].pc = "called" /\ proc[p].run = proc[q].run => p = q

RunShapes ==
    /\ Table /\ Ids /\ Tasks
    /\ snap \in [Dates -> Slice]
    /\ proc \in [Procs -> Process]
    /\ lock \in Procs \cup {None, "repair"}
    /\ left \in Budget

RunInv == RunShapes /\ Hands /\ OneCaller

-----------------------------------------------------------------------------
(* The repair.  The journal knows of every target the fields that the plan  *)
(* found and those it wants, which differ in what is derived only.          *)
Entry(e) ==
    /\ IsEntry(e) /\ IsFields(e.was) /\ IsFields(e.want)
    /\ e.want.task = e.was.task /\ e.want.status = e.was.status
    /\ e.was.repaired = FALSE /\ e.want.repaired = TRUE
    /\ e.status \in {"pending", "applied", "failed", "rolled_back", "rollback_failed"}

Applying == {"PLANNED", "APPLYING", "PARTIAL", "COMPLETED"}
RollingBack == {"ROLLING_BACK", "ROLLBACK_PARTIAL", "ROLLED_BACK"}

Journal ==
    /\ journal = [state |-> journal.state, rows |-> journal.rows, deps |-> journal.deps]
    /\ journal.state \in {"none"} \cup Applying \cup RollingBack
    /\ journal.rows = [d \in Targets |-> journal.rows[d]]
    /\ Targets \subseteq Dates /\ (journal.state = "none") = (Targets = {})
    /\ \A d \in Targets : Entry(journal.rows[d])
    /\ journal.state \in Applying => \A d \in Targets : journal.rows[d].status \in {"pending", "applied", "failed"}
    /\ journal.state = "COMPLETED" => Pending = {}
    /\ journal.state = "ROLLED_BACK" => ToUndo = {}

Known(row, d) == Shows(row, d, journal.rows[d].was) \/ Shows(row, d, journal.rows[d].want)

Command ==
    /\ cmd = [pc |-> cmd.pc, current |-> cmd.current]
    /\ cmd.pc \in {"idle", "planned", "apply", "applied", "undo", "undone"}
    /\ cmd.pc = "planned" => journal.state = "PLANNED"
    /\ cmd.pc \in {"apply", "applied"} => /\ journal.state = "APPLYING"
                                          /\ \A d \in Targets : nav[d] = None \/ Known(nav[d], d)
    /\ cmd.pc \in {"undo", "undone"} => journal.state = "ROLLING_BACK"
    /\ cmd.pc \in {"apply", "undo"} => \A d \in Dates : nav[d] = None \/ nav[d] = cmd.current[d]
    /\ (lock = "repair") = (cmd.pc \notin {"idle", "planned"})

(* Only the repair leaves its trace in a row, and a rollback removes it.    *)
Traces ==
    /\ journal.state = "none" => \A d \in Dates : nav[d] # None => nav[d].repaired = FALSE
    /\ \A d \in Targets : journal.rows[d].status = "rolled_back" => nav[d] = None \/ nav[d].repaired = FALSE

RepairInv == Journal /\ Command /\ Traces

IInv == RunInv /\ RepairInv /\ RowsMatchSlices

-----------------------------------------------------------------------------
(* What the invariant says of a process at work.                            *)
LEMMA Names == None \notin Procs /\ None \notin Runs /\ "repair" \notin Procs /\ None # "repair"
BY NavRunAssumption

LEMMA OwnerOf ==
    ASSUME RunInv, NEW p \in Procs, proc[p].pc \in Steps
    PROVE  /\ lock = p /\ proc[p].run \in Runs
           /\ task[proc[p].run].status \in Begun
           /\ task[proc[p].run].date \in Dates /\ task[proc[p].run].value \in Values
           /\ task[proc[p].run].before \in Slice /\ TaskOf(task[proc[p].run])
           /\ Target(task[proc[p].run].value) \in Slice
           /\ proc[p] \in Process
BY NavRunAssumption
   DEF RunInv, RunShapes, Hands, Holding, Tasks, TaskOf, Begun, Steps

LEMMA OthersRest ==
    ASSUME RunInv, NEW p \in Procs, lock = p, NEW q \in Procs, q # p
    PROVE  proc[q].pc \in {"idle", "called"} /\ lock # q
BY DEF RunInv, RunShapes, Hands, Holding, Process

LEMMA AllRest ==
    ASSUME RunInv, lock \notin Procs, NEW q \in Procs
    PROVE  proc[q].pc \in {"idle", "called"} /\ lock # q
BY DEF RunInv, RunShapes, Hands, Holding, Process

LEMMA OutcomeFacts ==
    ASSUME NEW o \in Outcomes
    PROVE  /\ o.error \in BOOLEAN /\ o.landed \in BOOLEAN
           /\ ~ o.error => o.landed
           /\ o.error => left.faults > 0
<1>1. CASE o = [error |-> FALSE, landed |-> TRUE]
  BY <1>1
<1>2. CASE left.faults > 0 /\ \E l \in BOOLEAN : o = [error |-> TRUE, landed |-> l]
  BY <1>2
<1>3. QED
  BY <1>1, <1>2 DEF Outcomes

LEMMA FaultKeeps ==
    ASSUME left \in Budget, left.faults > 0
    PROVE  [left EXCEPT !.faults = @ - 1] \in Budget
BY DEF Budget

LEMMA ChargeKeeps ==
    ASSUME left \in Budget, NEW o \in Outcomes, Charge(o)
    PROVE  left' \in Budget
BY OutcomeFacts, FaultKeeps DEF Charge

LEMMA IdleIsProcess == Idle \in Process /\ Idle.pc = "idle"
BY DEF Idle, Process, Steps

(* A row keeps its form when a task changes its status only.                *)
LEMMA RowsFollowTasks ==
    ASSUME NEW x, NEW d, RowOf(x, d, task), Tasks, NEW r \in Runs, NEW t,
           task' = [task EXCEPT ![r] = t],
           task[r].status \in {"unused", "called"}
             \/ (t.date = task[r].date /\ t.value = task[r].value /\ t.status \notin {"unused", "called"})
    PROVE  RowOf(x, d, task')
<1>1. \A s \in Runs : task'[s] = IF s = r THEN t ELSE task[s]
  BY DEF Tasks
<1>2. QED
  BY <1>1 DEF RowOf

(* The owner of the lock moves: its task goes on or ends, it writes the row *)
(* of its date at most, and it lets the lock go when it is done.            *)
Moves(p, x, r, d, t, y) ==
    /\ r = proc[p].run /\ d = task[r].date
    /\ proc' = [proc EXCEPT ![p] = x] /\ x \in Process
    /\ task' = [task EXCEPT ![r] = t]
    /\ TaskOf(t) /\ t.date = d /\ t.value = task[r].value /\ t.status \notin {"unused", "called"}
    /\ IF x.pc = "idle" THEN lock' = None
       ELSE x.pc \in Steps /\ lock' = p /\ x.run = r /\ t.status \in Begun
    /\ nav' = [nav EXCEPT ![d] = y]
    /\ y # None => RowOf(y, d, task') /\ (y = nav[d] \/ y.repaired = FALSE)
    /\ y # None /\ nav[d] # None => y.id = nav[d].id
    /\ y # None /\ nav[d] = None => y.id = ids + 1 /\ ids' = ids + 1
    /\ ids' \in {ids, ids + 1}
    /\ x.pc \in After => Mine(y, x)
    /\ snap' \in [Dates -> Slice] /\ left' \in Budget
    /\ UNCHANGED repairVars

LEMMA OwnerMoves ==
    ASSUME RunInv, RepairInv, NEW p \in Procs, proc[p].pc \in Steps,
           NEW x, NEW t, NEW y, NEW r \in Runs, NEW d \in Dates, Moves(p, x, r, d, t, y)
    PROVE  RunInv' /\ RepairInv'
<1> USE DEF Moves
<1>1. lock = p /\ RunShapes /\ Hands /\ OneCaller /\ Journal /\ Command /\ Traces
  BY OwnerOf DEF RunInv, RepairInv
<1>2. \A q \in Procs : proc'[q] = IF q = p THEN x ELSE proc[q]
  BY <1>1 DEF RunShapes
<1>3. \A s \in Runs : task'[s] = IF s = r THEN t ELSE task[s]
  BY <1>1 DEF RunShapes, Tasks
<1>4. \A e \in Dates : nav'[e] = IF e = d THEN y ELSE nav[e]
  BY <1>1 DEF RunShapes, Table
<1>5. Table'
  <2>1. nav' = [e \in Dates |-> nav'[e]]
    BY <1>1 DEF RunShapes, Table
  <2>2. ASSUME NEW e \in Dates, nav'[e] # None  PROVE RowOf(nav'[e], e, task')
    <3>1. CASE e = d
      BY <2>2, <3>1, <1>4
    <3>2. CASE e # d
      BY <1>1, <1>4, <2>2, <3>2, RowsFollowTasks DEF RunShapes, Table
    <3>3. QED
      BY <3>1, <3>2
  <2>3. QED
    BY <2>1, <2>2 DEF Table
<1>6. Ids'
  <2>1. ids' \in Nat /\ ids <= ids' /\ ids \in Nat
    BY <1>1 DEF RunShapes, Ids
  <2>2. \A e \in Dates : nav'[e] # None =>
           /\ nav'[e].id \in 1 .. ids'
           /\ nav[e] # None => nav'[e].id = nav[e].id
           /\ nav[e] = None => nav'[e].id = ids + 1 /\ e = d
    BY <1>1, <1>4, <2>1 DEF RunShapes, Ids
  <2>3. ASSUME NEW e \in Dates, NEW f \in Dates, nav'[e] # None, nav'[f] # None, nav'[e].id = nav'[f].id
        PROVE e = f
    BY <1>1, <2>1, <2>2, <2>3 DEF RunShapes, Ids
  <2>4. QED
    BY <2>1, <2>2, <2>3 DEF Ids
<1>7. Tasks'
  <2>1. task' = [s \in Runs |-> task'[s]]
    BY <1>1 DEF RunShapes, Tasks
  <2>2. \A s \in Runs : TaskOf(task'[s])
    BY <1>1, <1>3 DEF RunShapes, Tasks
  <2>3. QED
    BY <2>1, <2>2 DEF Tasks
<1>8. proc' \in [Procs -> Process] /\ lock' \in Procs \cup {None, "repair"}
  BY <1>1 DEF RunShapes
<1>9. Hands'
  <2> SUFFICES ASSUME NEW q \in Procs  PROVE Holding(q, proc'[q], lock', nav', task')
    BY DEF Hands
  <2>1. CASE q = p
    <3>1. x.pc \notin Steps => x.pc = "idle"
      OBVIOUS
    <3>2. x.pc = "idle" => x.pc \notin Steps /\ x.pc \notin After /\ lock' # p
      BY Names DEF Steps, After
    <3>3. x.pc \in After => x.pc \in Steps
      BY DEF After, Steps
    <3>4. x.pc # "idle" => x.pc # "called"
      BY DEF Steps
    <3>5. QED
      BY <1>2, <1>3, <1>4, <2>1, <3>1, <3>2, <3>3, <3>4 DEF Holding
  <2>2. CASE q # p
    <3>1. proc[q].pc \in {"idle", "called"} /\ proc'[q] = proc[q]
      BY <1>1, <1>2, <2>2, OthersRest
    <3>2. lock' # q
      BY <2>2, Names
    <3>3. Holding(q, proc[q], lock, nav, task)
      BY <1>1 DEF Hands
    <3>4. task[r].status # "called"
      BY OwnerOf DEF Begun
    <3>5. QED
      BY <1>3, <3>1, <3>2, <3>3, <3>4 DEF Holding, Steps, After
  <2>3. QED
    BY <2>1, <2>2
<1>10. OneCaller'
  BY <1>1, <1>2 DEF OneCaller, Steps
<1>11. Journal'
  BY <1>1 DEF Journal, repairVars, Targets, Pending, ToUndo
<1>12. cmd.pc \in {"idle", "planned"} /\ lock' # "repair"
  BY <1>1, Names DEF Command
<1>13. Command'
  BY <1>1, <1>12 DEF Command, repairVars
<1>14. Traces'
  BY <1>1, <1>4 DEF Traces, repairVars, Targets, Journal
<1>15. QED
  BY <1>5, <1>6, <1>7, <1>8, <1>9, <1>10, <1>11, <1>13, <1>14 DEF RunInv, RunShapes, RepairInv

-----------------------------------------------------------------------------
(* The steps of the owner of the lock.                                      *)
LEMMA OwnTask ==
    ASSUME RunInv, NEW p \in Procs, NEW r, r = proc[p].run, proc[p].pc \in Steps
    PROVE  /\ task = [task EXCEPT ![r] = task[r]]
           /\ nav = [nav EXCEPT ![task[r].date] = nav[task[r].date]]
           /\ task[r].status \notin {"unused", "called"}
           /\ left \in Budget /\ snap \in [Dates -> Slice] /\ ids \in Nat
<1>1. Table /\ Tasks /\ Ids /\ left \in Budget /\ snap \in [Dates -> Slice]
  BY DEF RunInv, RunShapes
<1>2. QED
  BY <1>1, OwnerOf DEF Table, Tasks, Ids, Begun

(* A step that only takes the process on, or that ends it on a task that    *)
(* stays open.                                                              *)
LEMMA GoesOn ==
    ASSUME RunInv, RepairInv, NEW p \in Procs, proc[p].pc \in Steps, NEW pc \in Steps,
           Goto(p, pc), UNCHANGED <<nav, ids, repairVars>>,
           snap' \in [Dates -> Slice], left' \in Budget,
           pc \in After => Mine(nav[task[proc[p].run].date], proc[p])
    PROVE  RunInv' /\ RepairInv'
<1> DEFINE r == proc[p].run
           d == task[r].date
           x == [proc[p] EXCEPT !.pc = pc]
<1>1. /\ r \in Runs /\ d \in Dates /\ task[r].status \in Begun /\ TaskOf(task[r])
      /\ proc[p] \in Process /\ lock = p
  BY OwnerOf
<1>2. x \in Process /\ x.run = r /\ x.id = proc[p].id /\ x.pc = pc
  BY <1>1 DEF Process
<1>3. proc' = [proc EXCEPT ![p] = x] /\ task' = task /\ lock' = lock
  BY DEF Goto
<1>4. task' = [task EXCEPT ![r] = task[r]] /\ nav' = [nav EXCEPT ![d] = nav[d]]
      /\ task[r].status \notin {"unused", "called"}
  BY <1>3, OwnTask
<1>5. nav[d] # None => RowOf(nav[d], d, task')
  BY <1>1, <1>3 DEF RunInv, RunShapes, Table
<1>6. x.pc \in After => Mine(nav[d], x)
  BY <1>2 DEF Mine
<1>7. x.pc # "idle"
  BY <1>2 DEF Steps
<1>8. Moves(p, x, r, d, task[r], nav[d])
  <2> HIDE DEF x
  <2>1. QED
    BY <1>1, <1>2, <1>3, <1>4, <1>5, <1>6, <1>7 DEF Moves
<1> HIDE DEF x, r, d
<1>9. QED
  BY <1>1, <1>8, OwnerMoves

LEMMA NotLost ==
    ASSUME NEW p \in Procs, NEW d \in Dates, RunInv, ~ Lost(p, d)
    PROVE  /\ nav[d] # None /\ Mine(nav[d], proc[p])
           /\ nav[d].task = proc[p].run
           /\ nav[d].id = proc[p].id
           /\ Classify(nav[d], proc[p].run) = (IF nav[d].status = "complete" THEN "complete" ELSE "incomplete")
<1>1. nav[d] # None => nav[d].repaired \in BOOLEAN
  BY DEF RunInv, RunShapes, Table, RowOf
<1>2. QED
  BY <1>1 DEF Lost, Classify, Mine

LEMMA CheckKeeps ==
    ASSUME RunInv, RepairInv, NEW p \in Procs, Check(p), UNCHANGED repairVars
    PROVE  RunInv' /\ RepairInv'
<1> DEFINE r == proc[p].run
           d == task[r].date
           pc == IF Lost(p, d) \/ Conflict(task[r].before, Desired(r), snap[d]) THEN "fail" ELSE "create"
<1>1. proc[p].pc \in Steps /\ Goto(p, pc) /\ UNCHANGED <<nav, snap, ids, left>>
  BY DEF Check, Steps
<1>2. d \in Dates
  BY <1>1, OwnerOf
<1>3. pc \in Steps /\ (pc \in After => Mine(nav[d], proc[p]))
  BY <1>2, NotLost DEF Steps, After
<1>4. left \in Budget /\ snap \in [Dates -> Slice]
  BY <1>1, OwnTask
<1> HIDE DEF pc
<1>5. QED
  BY <1>1, <1>3, <1>4, GoesOn

LEMMA WrittenIsSlice ==
    ASSUME NEW current \in Slice, NEW desired \in Slice, NEW keys
    PROVE  Written(current, desired, keys) \in Slice
BY DEF Written, Slice

LEMMA BatchKeeps ==
    ASSUME RunInv, RepairInv, NEW p \in Procs, NEW o \in Outcomes, Batch(p, o), UNCHANGED repairVars
    PROVE  RunInv' /\ RepairInv'
<1> DEFINE r == proc[p].run
           d == task[r].date
           keys == Rows(proc[p].pc, Desired(r), snap[d])
           pc == IF o.error THEN "fail" ELSE Stage[proc[p].pc]
<1>1. /\ proc[p].pc \in {"create", "update", "delete"} /\ Goto(p, pc) /\ UNCHANGED <<nav, ids>>
      /\ Charge(o)
      /\ snap' = IF o.landed THEN [snap EXCEPT ![d] = Written(@, Desired(r), keys)] ELSE snap
  BY DEF Batch, Stage
<1>2. proc[p].pc \in Steps /\ proc[p].pc \in After
  BY <1>1 DEF Steps, After
<1>3. pc \in Steps
  BY <1>1 DEF Steps, Stage
<1>4. Mine(nav[d], proc[p])
  BY <1>2 DEF RunInv, Hands, Holding
<1>5. left \in Budget /\ snap \in [Dates -> Slice] /\ d \in Dates /\ Desired(r) \in Slice
  BY <1>2, OwnTask, OwnerOf DEF Desired
<1>6. left' \in Budget
  BY <1>1, <1>5, ChargeKeeps
<1>7. Written(snap[d], Desired(r), keys) \in Slice
  BY <1>5, WrittenIsSlice
<1>8. snap' \in [Dates -> Slice]
  <2> HIDE DEF keys, d, r
  <2>1. QED
    BY <1>1, <1>5, <1>7
<1> HIDE DEF pc, keys
<1>9. QED
  BY <1>1, <1>2, <1>3, <1>4, <1>6, <1>8, GoesOn

(* A task that gets another status.                                         *)
LEMMA TaskGets ==
    ASSUME NEW t, TaskOf(t), NEW status \in Statuses \ {"unused", "called"}, t.status \notin {"unused", "called"}
    PROVE  /\ TaskOf([t EXCEPT !.status = status])
           /\ [t EXCEPT !.status = status].date = t.date
           /\ [t EXCEPT !.status = status].value = t.value
           /\ [t EXCEPT !.status = status].before = t.before
           /\ [t EXCEPT !.status = status].status = status
BY DEF TaskOf, IsTask

LEMMA RowGets ==
    ASSUME NEW x, NEW d, RowOf(x, d, task), x.status # "legacy", NEW status \in {"prepared", "failed", "complete"}
    PROVE  /\ RowOf([x EXCEPT !.status = status], d, task)
           /\ [x EXCEPT !.status = status].id = x.id
           /\ [x EXCEPT !.status = status].task = x.task
           /\ [x EXCEPT !.status = status].value = x.value
           /\ [x EXCEPT !.status = status].repaired = x.repaired
           /\ [x EXCEPT !.status = status].status = status
BY DEF RowOf, IsRow


(* A step of the owner that gives its task a status and its row a form.     *)
LEMMA OwnerGives ==
    ASSUME RunInv, RepairInv, NEW p \in Procs, proc[p].pc \in Steps,
           NEW x \in Process, NEW y, NEW status \in Statuses \ {"unused", "called"},
           proc' = [proc EXCEPT ![p] = x],
           task' = [task EXCEPT ![proc[p].run] = [task[proc[p].run] EXCEPT !.status = status]],
           nav' = [nav EXCEPT ![task[proc[p].run].date] = y],
           IF x.pc = "idle" THEN lock' = None
           ELSE x.pc \in Steps /\ lock' = p /\ x.run = proc[p].run /\ status \in Begun,
           y # None /\ y # nav[task[proc[p].run].date] =>
             RowOf(y, task[proc[p].run].date, task) /\ y.repaired = FALSE,
           y # None /\ nav[task[proc[p].run].date] # None => y.id = nav[task[proc[p].run].date].id,
           y # None /\ nav[task[proc[p].run].date] = None => y.id = ids + 1 /\ ids' = ids + 1,
           ids' \in {ids, ids + 1},
           x.pc \in After => Mine(y, x),
           snap' \in [Dates -> Slice], left' \in Budget,
           UNCHANGED repairVars
    PROVE  RunInv' /\ RepairInv'
<1> DEFINE r == proc[p].run
           d == task[r].date
           t == [task[r] EXCEPT !.status = status]
<1>1. r \in Runs /\ d \in Dates /\ TaskOf(task[r]) /\ task[r].status \notin {"unused", "called"}
  BY OwnerOf DEF Begun
<1>2. TaskOf(t) /\ t.date = d /\ t.value = task[r].value /\ t.status = status
  BY <1>1, TaskGets
<1>3. status \notin {"unused", "called"}
  OBVIOUS
<1>4. Tasks /\ Table
  BY DEF RunInv, RunShapes
<1>5. y # None => RowOf(y, d, task)
  BY <1>1, <1>4 DEF Table
<1> HIDE DEF t, r, d
<1>6. task' = [task EXCEPT ![r] = t] /\ nav' = [nav EXCEPT ![d] = y]
  BY DEF t, r, d
<1>8. r = proc[p].run /\ d = task[r].date
  BY DEF r, d
<1>7. ASSUME y # None  PROVE RowOf(y, d, task') /\ (y = nav[d] \/ y.repaired = FALSE)
  <2>1. y = nav[d] \/ y.repaired = FALSE
    BY <1>7 DEF r, d
  <2>2. RowOf(y, d, task')
    BY <1>1, <1>2, <1>3, <1>4, <1>5, <1>6, <1>7, <1>8, RowsFollowTasks DEF r, d
  <2>3. QED
    BY <2>1, <2>2
<1>9. /\ IF x.pc = "idle" THEN lock' = None ELSE x.pc \in Steps /\ lock' = p /\ x.run = r /\ t.status \in Begun
      /\ y # None /\ nav[d] # None => y.id = nav[d].id
      /\ y # None /\ nav[d] = None => y.id = ids + 1 /\ ids' = ids + 1
  BY <1>2 DEF r, d
<1>10. t.status \notin {"unused", "called"}
  BY <1>2, <1>3
<1>11. Moves(p, x, r, d, t, y)
  BY <1>2, <1>6, <1>7, <1>8, <1>9, <1>10 DEF Moves
<1>12. QED
  BY <1>1, <1>11, OwnerMoves

LEMMA OwnStatus ==
    ASSUME RunInv, NEW p \in Procs, proc[p].pc \in Steps
    PROVE  /\ task[proc[p].run].status \in Statuses \ {"unused", "called"}
           /\ task = [task EXCEPT ![proc[p].run] = [task[proc[p].run] EXCEPT !.status = task[proc[p].run].status]]
<1>1. task[proc[p].run].status \in Begun /\ IsTask(task[proc[p].run])
  BY OwnerOf DEF TaskOf
<1>2. [task[proc[p].run] EXCEPT !.status = task[proc[p].run].status] = task[proc[p].run]
  BY <1>1 DEF IsTask
<1>3. QED
  BY <1>1, <1>2, OwnTask DEF Begun, Statuses

LEMMA WriteKeeps ==
    ASSUME RunInv, RepairInv, NEW p \in Procs, NEW o \in Outcomes, Write(p, o), UNCHANGED repairVars
    PROVE  RunInv' /\ RepairInv'
<1> DEFINE r   == proc[p].run
           d   == task[r].date
           id  == IF nav[d] = None THEN ids + 1 ELSE nav[d].id
           row == IF o.landed THEN Row(r, id) ELSE nav[d]
           on(i) == [proc[p] EXCEPT !.pc = "check", !.id = i]
<1>1. /\ proc[p].pc = "write" /\ nav' = [nav EXCEPT ![d] = row] /\ Charge(o)
      /\ ids' = (IF o.landed /\ nav[d] = None THEN id ELSE ids)
      /\ snap' = snap
  BY DEF Write
<1>2. /\ ~ o.error => /\ proc' = [proc EXCEPT ![p].pc = "check", ![p].id = id]
                      /\ UNCHANGED <<task, lock>>
      /\ o.error =>
           /\ task' = [task EXCEPT ![r].status = AfterWrite(row, r)]
           /\ IF row # None /\ Classify(row, r) # "conflict"
              THEN proc' = [proc EXCEPT ![p].pc = "check", ![p].id = row.id] /\ lock' = lock
              ELSE Release(p)
  BY DEF Write
<1>3. /\ proc[p].pc \in Steps
      /\ o.landed \in BOOLEAN /\ o.error \in BOOLEAN /\ (~ o.error => o.landed)
  BY <1>1, OutcomeFacts DEF Steps
<1>4. /\ r \in Runs /\ d \in Dates /\ task[r].status \in Begun /\ TaskOf(task[r])
      /\ proc[p] \in Process /\ lock = p
      /\ left \in Budget /\ snap \in [Dates -> Slice] /\ ids \in Nat
  BY <1>3, OwnerOf, OwnTask
<1>5. Table /\ Ids
  BY DEF RunInv, RunShapes
<1>6. left' \in Budget
  BY <1>1, <1>4, ChargeKeeps
<1>7. nav[d] # None => RowOf(nav[d], d, task) /\ nav[d].id \in Nat
  BY <1>4, <1>5 DEF Table, Ids
<1>8. RowOf(Row(r, id), d, task) /\ Row(r, id).repaired = FALSE /\ Row(r, id).id = id
  BY <1>4 DEF Row, RowOf, IsRow, Begun
<1>9. id \in Nat
  BY <1>4, <1>7
<1>10. \A i \in Nat : on(i) \in Process /\ on(i).pc = "check" /\ on(i).run = r
  BY <1>4 DEF Process, Steps
<1>11. "check" \in Steps /\ "check" \notin After /\ "check" # "idle"
  BY DEF Steps, After
<1>12. ids' \in {ids, ids + 1}
  BY <1>1
<1>13. row # None => row.id \in Nat
  BY <1>7, <1>8, <1>9
<1>14. /\ row # None /\ row # nav[d] => RowOf(row, d, task) /\ row.repaired = FALSE
       /\ row # None /\ nav[d] # None => row.id = nav[d].id
       /\ row # None /\ nav[d] = None => row.id = ids + 1 /\ ids' = ids + 1
  BY <1>1, <1>3, <1>8
<1> HIDE DEF row, id
<1>15. CASE ~ o.error
  <2>1. proc' = [proc EXCEPT ![p] = on(id)] /\ task' = task /\ lock' = p
    BY <1>2, <1>4, <1>15
  <2>2. task' = [task EXCEPT ![r] = [task[r] EXCEPT !.status = task[r].status]]
        /\ task[r].status \in Statuses \ {"unused", "called"}
    BY <1>3, <2>1, OwnStatus
  <2>3. on(id) \in Process /\ on(id).pc = "check" /\ on(id).run = r
    BY <1>9, <1>10
  <2> HIDE DEF on
  <2>4. QED
    BY <1>1, <1>3, <1>4, <1>6, <1>11, <1>12, <1>14, <2>1, <2>2, <2>3, OwnerGives
<1>16. CASE o.error
  <2> DEFINE status == AfterWrite(row, r)
  <2>1. task' = [task EXCEPT ![r] = [task[r] EXCEPT !.status = status]]
    BY <1>2, <1>16
  <2>2. status \in Statuses \ {"unused", "called"} /\ (row # None => status \in Begun)
    BY DEF AfterWrite, Statuses, Begun
  <2> HIDE DEF status
  <2>3. CASE row # None /\ Classify(row, r) # "conflict"
    <3>1. proc' = [proc EXCEPT ![p] = on(row.id)] /\ lock' = p
      BY <1>2, <1>4, <1>16, <2>3
    <3>2. on(row.id) \in Process /\ on(row.id).pc = "check" /\ on(row.id).run = r
      BY <1>13, <1>10, <2>3
    <3> HIDE DEF on
    <3>3. QED
      BY <1>1, <1>3, <1>4, <1>6, <1>11, <1>12, <1>14, <2>1, <2>2, <2>3, <3>1, <3>2, OwnerGives
  <2>4. CASE ~ (row # None /\ Classify(row, r) # "conflict")
    <3>1. proc' = [proc EXCEPT ![p] = Idle] /\ lock' = None
      BY <1>2, <1>16, <2>4 DEF Release
    <3>2. Idle \in Process /\ Idle.pc = "idle" /\ "idle" \notin After
      BY IdleIsProcess DEF After
    <3>3. QED
      BY <1>1, <1>3, <1>4, <1>6, <1>12, <1>14, <2>1, <2>2, <3>1, <3>2, OwnerGives
  <2>5. QED
    BY <2>3, <2>4
<1>17. QED
  BY <1>3, <1>15, <1>16

LEMMA PatchKeeps ==
    ASSUME RunInv, RepairInv, NEW p \in Procs, NEW o \in Outcomes, Patch(p, o), UNCHANGED repairVars
    PROVE  RunInv' /\ RepairInv'
<1> DEFINE r == proc[p].run
           d == task[r].date
<1>1. proc[p].pc = "patch" /\ snap' = snap /\ ids' = ids /\ proc[p].pc \in Steps /\ proc[p].pc \in After
  BY DEF Patch, Steps, After
<1>2. /\ r \in Runs /\ d \in Dates /\ task[r].status \in Begun /\ TaskOf(task[r])
      /\ proc[p] \in Process /\ lock = p
      /\ left \in Budget /\ snap \in [Dates -> Slice] /\ ids \in Nat
  BY <1>1, OwnerOf, OwnTask
<1>3. "fail" \in Steps /\ "fail" \notin After /\ "confirm" \in Steps /\ "confirm" # "idle" /\ "fail" # "idle"
  BY DEF Steps, After
<1>4. CASE Lost(p, d) \/ ~ Verified(r, d)
  <2>1. Goto(p, "fail") /\ UNCHANGED <<nav, left>>
    BY <1>4 DEF Patch
  <2>2. QED
    BY <1>1, <1>2, <1>3, <2>1, GoesOn
<1>5. CASE ~ (Lost(p, d) \/ ~ Verified(r, d))
  <2> DEFINE y == IF o.landed THEN [nav[d] EXCEPT !.status = "complete"] ELSE nav[d]
             pc == IF o.error THEN "fail" ELSE "confirm"
             x == [proc[p] EXCEPT !.pc = pc]
  <2>1. /\ nav' = (IF o.landed THEN [nav EXCEPT ![d].status = "complete"] ELSE nav)
        /\ Charge(o) /\ Goto(p, pc)
    BY <1>5 DEF Patch
  <2>2. nav[d] # None /\ Mine(nav[d], proc[p]) /\ nav[d].task = r
    BY <1>2, <1>5, NotLost
  <2>3. RowOf(nav[d], d, task)
    BY <1>2, <2>2 DEF RunInv, RunShapes, Table
  <2>4. nav[d].status # "legacy"
    BY <1>2, <2>2, <2>3, Names DEF RowOf
  <2>5. /\ RowOf([nav[d] EXCEPT !.status = "complete"], d, task)
        /\ [nav[d] EXCEPT !.status = "complete"].id = nav[d].id
        /\ [nav[d] EXCEPT !.status = "complete"].task = nav[d].task
        /\ [nav[d] EXCEPT !.status = "complete"].repaired = nav[d].repaired
    BY <2>3, <2>4, RowGets
  <2>6. nav' = [nav EXCEPT ![d] = y]
    BY <1>1, <2>1, OwnTask
  <2>7. RowOf(y, d, task) /\ y.id = nav[d].id /\ y.task = nav[d].task /\ y.repaired = nav[d].repaired
    BY <2>3, <2>5
  <2>8. x \in Process /\ x.pc = pc /\ x.run = r /\ x.id = proc[p].id
    BY <1>2 DEF Process, Steps
  <2>9. nav[d].repaired = FALSE
    BY <2>2 DEF Mine
  <2>10. Mine(y, x)
    BY <2>2, <2>7, <2>8 DEF Mine
  <2>11. proc' = [proc EXCEPT ![p] = x] /\ task' = task /\ lock' = p
    BY <1>2, <2>1 DEF Goto
  <2>12. task' = [task EXCEPT ![r] = [task[r] EXCEPT !.status = task[r].status]]
        /\ task[r].status \in Statuses \ {"unused", "called"}
    BY <1>1, <2>11, OwnStatus
  <2>13. left' \in Budget
    BY <1>2, <2>1, ChargeKeeps
  <2>14. pc \in Steps /\ pc # "idle"
    BY <1>3
  <2> HIDE DEF y, x, pc
  <2>15. QED
    BY <1>1, <1>2, <2>2, <2>6, <2>7, <2>8, <2>9, <2>10, <2>11, <2>12, <2>13, <2>14, OwnerGives
<1>6. QED
  BY <1>4, <1>5

LEMMA ConfirmKeeps ==
    ASSUME RunInv, RepairInv, NEW p \in Procs, Confirm(p), UNCHANGED repairVars
    PROVE  RunInv' /\ RepairInv'
<1> DEFINE r == proc[p].run
           d == task[r].date
<1>1. proc[p].pc = "confirm" /\ UNCHANGED <<nav, snap, index, ids, left>> /\ proc[p].pc \in Steps
  BY DEF Confirm, Steps
<1>2. /\ d \in Dates /\ left \in Budget /\ snap \in [Dates -> Slice] /\ ids \in Nat
      /\ nav = [nav EXCEPT ![d] = nav[d]]
  BY <1>1, OwnerOf, OwnTask
<1>3. CASE Lost(p, d) \/ Classify(nav[d], r) # "complete"
  <2>1. Goto(p, "fail") /\ "fail" \in Steps /\ "fail" \notin After
    BY <1>3 DEF Confirm, Steps, After
  <2>2. QED
    BY <1>1, <1>2, <2>1, GoesOn
<1>4. CASE ~ (Lost(p, d) \/ Classify(nav[d], r) # "complete")
  <2>1. /\ task' = [task EXCEPT ![r] = [task[r] EXCEPT !.status = "RESOLVED"]]
        /\ proc' = [proc EXCEPT ![p] = Idle] /\ lock' = None
    BY <1>4 DEF Confirm, Release
  <2>2. Idle \in Process /\ Idle.pc = "idle" /\ "idle" \notin After /\ "RESOLVED" \in Statuses \ {"unused", "called"}
    BY IdleIsProcess DEF After, Statuses
  <2>3. nav' = [nav EXCEPT ![d] = nav[d]] /\ ids' \in {ids, ids + 1}
        /\ snap' \in [Dates -> Slice] /\ left' \in Budget
    BY <1>1, <1>2
  <2>4. nav[d] # None /\ nav[d] # None => nav[d].id = nav[d].id
    OBVIOUS
  <2>5. nav[d] # None
    BY <1>4 DEF Lost
  <2>6. QED
    BY <1>1, <2>1, <2>2, <2>3, <2>5, OwnerGives
<1>5. QED
  BY <1>3, <1>4

LEMMA FailKeeps ==
    ASSUME RunInv, RepairInv, NEW p \in Procs, NEW o \in Outcomes, Fail(p, o), UNCHANGED repairVars
    PROVE  RunInv' /\ RepairInv'
<1> DEFINE r == proc[p].run
           d == task[r].date
           recovered == ~ proc[p].retry /\ ~ Lost(p, d) /\ Classify(nav[d], r) = "complete"
           marks     == ~ proc[p].retry /\ ~ Lost(p, d) /\ ~ recovered
           status    == IF recovered THEN "RESOLVED" ELSE "FAILED"
           y         == IF marks /\ o.landed THEN [nav[d] EXCEPT !.status = "failed"] ELSE nav[d]
<1>1. /\ proc[p].pc \in Steps /\ UNCHANGED <<snap, ids>> /\ Charge(o)
      /\ nav' = (IF marks /\ o.landed THEN [nav EXCEPT ![d].status = "failed"] ELSE nav)
      /\ task' = [task EXCEPT ![r] = [task[r] EXCEPT !.status = status]]
      /\ proc' = [proc EXCEPT ![p] = Idle] /\ lock' = None
  BY DEF Fail, Release, Steps
<1>2. /\ r \in Runs /\ d \in Dates /\ left \in Budget /\ snap \in [Dates -> Slice] /\ ids \in Nat
  BY <1>1, OwnerOf, OwnTask
<1>3. nav' = [nav EXCEPT ![d] = y]
  BY <1>1, OwnTask
<1>4. Idle \in Process /\ Idle.pc = "idle" /\ "idle" \notin After /\ status \in Statuses \ {"unused", "called"}
  BY IdleIsProcess DEF After, Statuses
<1>5. left' \in Budget
  BY <1>1, <1>2, ChargeKeeps
<1>6. CASE y = nav[d]
  <2> HIDE DEF y, status
  <2>1. y # None /\ nav[d] # None => y.id = nav[d].id
    BY <1>6
  <2>2. QED
    BY <1>1, <1>2, <1>3, <1>4, <1>5, <1>6, <2>1, OwnerGives
<1>7. CASE y = [nav[d] EXCEPT !.status = "failed"] /\ ~ Lost(p, d)
  <2>1. nav[d] # None /\ nav[d].task = r /\ nav[d].repaired = FALSE
    BY <1>2, <1>7, NotLost DEF Mine
  <2>2. RowOf(nav[d], d, task)
    BY <1>2, <2>1 DEF RunInv, RunShapes, Table
  <2>3. nav[d].status # "legacy"
    BY <1>2, <2>1, <2>2, Names DEF RowOf
  <2>4. RowOf(y, d, task) /\ y.id = nav[d].id /\ y.repaired = FALSE
    BY <1>7, <2>1, <2>2, <2>3, RowGets
  <2> HIDE DEF y, status
  <2>5. QED
    BY <1>1, <1>2, <1>3, <1>4, <1>5, <2>1, <2>4, OwnerGives
<1>8. QED
  BY <1>6, <1>7

-----------------------------------------------------------------------------
(* Steps of others than the owner: they begin, give up or die.              *)
LEMMA RepairRests ==
    ASSUME RepairInv, UNCHANGED repairVars,
           \A d \in Dates : nav'[d] = None \/ nav'[d] = nav[d],
           (lock' = "repair") = (lock = "repair")
    PROVE  RepairInv'
<1>1. Journal /\ Command /\ Traces
  BY DEF RepairInv
<1>2. Targets \subseteq Dates /\ Targets' = Targets
  BY <1>1 DEF Journal, repairVars, Targets
<1>3. Journal'
  BY <1>1 DEF Journal, repairVars, Targets, Pending, ToUndo
<1>4. Command'
  <2>1. journal' = journal /\ cmd' = cmd
    BY DEF repairVars
  <2>2. \A d \in Targets : Known(nav[d], d) /\ nav'[d] = nav[d] => Known(nav[d], d)'
    BY <2>1 DEF Known, Shows
  <2>3. cmd.pc \in {"apply", "applied"} => \A d \in Targets : (nav[d] = None \/ Known(nav[d], d))'
    BY <1>1, <1>2, <2>2 DEF Command
  <2>4. cmd.pc \in {"apply", "undo"} => \A d \in Dates : nav'[d] = None \/ nav'[d] = cmd.current[d]
    BY <1>1 DEF Command
  <2>5. QED
    BY <1>1, <1>2, <2>1, <2>3, <2>4 DEF Command
<1>5. Traces'
  BY <1>1, <1>2 DEF Traces, repairVars
<1>6. QED
  BY <1>3, <1>4, <1>5 DEF RepairInv

(* A process takes a new form, and the task of one run with it: it begins,  *)
(* takes the free lock, gives up, or dies and loses what it held.           *)
Turns(p, x, r, t) ==
    /\ proc' = [proc EXCEPT ![p] = x] /\ x \in Process
    /\ task' = [task EXCEPT ![r] = t] /\ TaskOf(t)
    /\ UNCHANGED <<nav, ids, snap, repairVars>> /\ left' \in Budget
    /\ \/ task[r].status \in {"unused", "called"}
       \/ t.date = task[r].date /\ t.value = task[r].value /\ t.status \notin {"unused", "called"}
    /\ t = task[r] \/ \A q \in Procs : q # p /\ proc[q].pc # "idle" => proc[q].run # r
    /\ x.pc # "idle" => x.run = r
    /\ x.pc \notin After
    /\ x.pc = "called" => t.status = "called" /\ t # task[r]
    /\ x.pc \in Steps => t.status \in Begun
    /\ IF x.pc \in Steps THEN lock = None /\ lock' = p
       ELSE lock' = IF lock = p THEN None ELSE lock

LEMMA TurnKeeps ==
    ASSUME RunInv, RepairInv, NEW p \in Procs, NEW r \in Runs, NEW x, NEW t, Turns(p, x, r, t)
    PROVE  RunInv' /\ RepairInv'
<1>1. RunShapes /\ Hands /\ OneCaller /\ Table /\ Ids /\ Tasks
  BY DEF RunInv, RunShapes
<1>2. \A q \in Procs : proc'[q] = IF q = p THEN x ELSE proc[q]
  BY <1>1 DEF RunShapes, Turns
<1>3. \A s \in Runs : task'[s] = IF s = r THEN t ELSE task[s]
  BY <1>1 DEF Tasks, Turns
<1>4. nav' = nav /\ ids' = ids
  BY DEF Turns
<1>5. Table'
  <2>1. ASSUME NEW d \in Dates, nav[d] # None  PROVE RowOf(nav[d], d, task')
    BY <1>1, <2>1, RowsFollowTasks DEF Table, Turns
  <2>2. QED
    BY <1>1, <1>4, <2>1 DEF Table
<1>6. Ids'
  BY <1>1, <1>4 DEF Ids
<1>7. Tasks'
  <2>1. task' = [s \in Runs |-> task'[s]]
    BY <1>1 DEF Tasks, Turns
  <2>2. \A s \in Runs : TaskOf(task'[s])
    BY <1>1, <1>3 DEF Tasks, Turns
  <2>3. QED
    BY <2>1, <2>2 DEF Tasks
<1>8. /\ proc' \in [Procs -> Process] /\ lock' \in Procs \cup {None, "repair"}
      /\ snap' \in [Dates -> Slice] /\ left' \in Budget
  BY <1>1 DEF RunShapes, Turns
<1>9. Hands'
  <2> SUFFICES ASSUME NEW q \in Procs  PROVE Holding(q, proc'[q], lock', nav', task')
    BY DEF Hands
  <2>1. CASE q = p
    <3>1. x.pc \notin Steps => lock' # p
      BY Names DEF Turns
    <3>2. x.pc \in Steps => lock' = p
      BY DEF Turns
    <3>3. "idle" \notin Steps /\ "called" # "idle"
      BY DEF Steps
    <3>4. /\ x.pc # "idle" => x.run \in Runs /\ task'[x.run] = t
          /\ x.pc = "called" => t.status = "called"
          /\ x.pc \in Steps => t.status \in Begun
          /\ x.pc \notin After
      BY <1>3 DEF Turns
    <3>5. Holding(p, x, lock', nav', task')
      BY <3>1, <3>2, <3>3, <3>4 DEF Holding
    <3>6. QED
      BY <1>2, <2>1, <3>5
  <2>2. CASE q # p
    <3>1. proc'[q] = proc[q] /\ Holding(q, proc[q], lock, nav, task)
      BY <1>1, <1>2, <2>2 DEF Hands
    <3>2. (lock' = q) = (lock = q)
      BY <2>2, Names DEF Turns
    <3>3. proc[q].pc # "idle" => proc[q].run \in Runs /\ task'[proc[q].run] = task[proc[q].run]
      BY <1>3, <2>2, <3>1 DEF Turns, Holding
    <3>4. "idle" \notin Steps /\ "idle" \notin After /\ "called" # "idle"
      BY DEF Steps, After
    <3>5. QED
      BY <1>4, <3>1, <3>2, <3>3, <3>4 DEF Holding
  <2>3. QED
    BY <2>1, <2>2
<1>10. OneCaller'
  <2> SUFFICES ASSUME NEW q \in Procs, NEW s \in Procs, proc'[q].pc = "called", proc'[s].pc = "called",
                      proc'[q].run = proc'[s].run
               PROVE  q = s
    BY DEF OneCaller
  <2>1. CASE q # p /\ s # p
    BY <1>1, <1>2, <2>1 DEF OneCaller
  <2>2. x.pc = "called" => x.run = r /\ \A u \in Procs : u # p /\ proc[u].pc # "idle" => proc[u].run # r
    BY DEF Turns
  <2>3. QED
    BY <1>2, <2>1, <2>2
<1>11. RepairInv'
  <2>1. (lock' = "repair") = (lock = "repair")
    BY Names DEF Turns
  <2>2. QED
    BY <1>4, <2>1, RepairRests DEF Turns
<1>12. QED
  BY <1>5, <1>6, <1>7, <1>8, <1>9, <1>10, <1>11 DEF RunInv, RunShapes

LEMMA RunInRuns ==
    ASSUME RunInv, NEW p \in Procs, proc[p].pc # "idle"
    PROVE  proc[p].run \in Runs /\ proc[p] \in Process /\ TaskOf(task[proc[p].run])
BY DEF RunInv, RunShapes, Hands, Holding, Tasks

LEMMA CallKeeps ==
    ASSUME RunInv, RepairInv, NEW p \in Procs, NEW r \in Runs, NEW d \in Dates, NEW v \in Values,
           NEW w \in BOOLEAN, NEW daily \in BOOLEAN, Call(p, r, d, v, w, daily), UNCHANGED repairVars
    PROVE  RunInv' /\ RepairInv'
<1> DEFINE t == [status |-> "called", date |-> d, value |-> v, overwrite |-> w, base |-> None, before |-> None]
           x == [Idle EXCEPT !.pc = "called", !.run = r]
<1>1. /\ proc[p].pc = "idle" /\ task[r].status = "unused" /\ left.runs > 0
      /\ left' = [left EXCEPT !.runs = @ - 1]
      /\ task' = [task EXCEPT ![r] = t] /\ proc' = [proc EXCEPT ![p] = x]
      /\ UNCHANGED <<nav, snap, lock, ids>>
  BY DEF Call
<1>2. left \in Budget
  BY DEF RunInv, RunShapes
<1>3. left' \in Budget
  BY <1>1, <1>2 DEF Budget
<1>4. TaskOf(t) /\ t.status = "called"
  BY DEF TaskOf, IsTask, Statuses
<1>5. x \in Process /\ x.pc = "called" /\ x.run = r
  BY DEF Idle, Process
<1>6. lock # p
  BY <1>1 DEF RunInv, Hands, Holding, Steps
<1>7. \A q \in Procs : proc[q].pc # "idle" => proc[q].run # r
  <2> SUFFICES ASSUME NEW q \in Procs, proc[q].pc # "idle"  PROVE proc[q].run # r
    OBVIOUS
  <2>1. Holding(q, proc[q], lock, nav, task) /\ proc[q].pc \in {"idle", "called"} \cup Steps
    BY DEF RunInv, RunShapes, Hands, Process
  <2>2. QED
    BY <1>1, <2>1 DEF Holding, Begun
<1>8. "called" \notin Steps /\ "called" \notin After /\ t # task[r]
  BY <1>1, <1>4 DEF Steps, After
<1> HIDE DEF t, x
<1>9. Turns(p, x, r, t)
  BY <1>1, <1>3, <1>4, <1>5, <1>6, <1>7, <1>8 DEF Turns
<1>10. QED
  BY <1>9, TurnKeeps

Prepared(t, before, base) == [t EXCEPT !.status = "PREPARED", !.before = before, !.base = base]

LEMMA TaskPrepared ==
    ASSUME NEW t, IsTask(t), NEW before, NEW base
    PROVE  /\ IsTask(Prepared(t, before, base))
           /\ Prepared(t, before, base).status = "PREPARED"
           /\ Prepared(t, before, base).before = before
           /\ Prepared(t, before, base).date = t.date
           /\ Prepared(t, before, base).value = t.value
<1> DEFINE a == [t EXCEPT !.status = "PREPARED"]
           b == [a EXCEPT !.before = before]
           c == [b EXCEPT !.base = base]
<1>1. IsTask(a) /\ a.status = "PREPARED" /\ a.date = t.date /\ a.value = t.value
  BY DEF IsTask
<1> HIDE DEF a
<1>2. IsTask(b) /\ b.status = "PREPARED" /\ b.before = before /\ b.date = t.date /\ b.value = t.value
  BY <1>1 DEF IsTask
<1> HIDE DEF b
<1>3. IsTask(c) /\ c.status = "PREPARED" /\ c.before = before /\ c.date = t.date /\ c.value = t.value
  BY <1>2 DEF IsTask
<1>4. Prepared(t, before, base) = c
  BY DEF a, b, c, Prepared
<1> HIDE DEF c
<1>5. QED
  BY <1>3, <1>4

LEMMA PrepareKeeps ==
    ASSUME RunInv, RepairInv, NEW p \in Procs, Prepare(p), UNCHANGED repairVars
    PROVE  RunInv' /\ RepairInv'
<1> DEFINE r == proc[p].run
<1>1. proc[p].pc = "called" /\ lock = None /\ UNCHANGED <<nav, snap, ids, left>>
  BY DEF Prepare
<1>2. r \in Runs /\ proc[p] \in Process /\ TaskOf(task[r]) /\ task[r].status = "called"
      /\ task[r].date \in Dates /\ task[r].value \in Values
  BY <1>1, RunInRuns DEF RunInv, Hands, Holding, TaskOf
<1>3. left \in Budget /\ snap \in [Dates -> Slice] /\ task = [task EXCEPT ![r] = task[r]]
  BY <1>2 DEF RunInv, RunShapes, Tasks
<1>4. lock # p
  BY <1>1, Names
<1>5. CASE Refused(r)
  <2>1. proc' = [proc EXCEPT ![p] = Idle] /\ task' = task /\ lock' = lock
    BY <1>5 DEF Prepare
  <2>2. Idle \in Process /\ Idle.pc = "idle" /\ "idle" \notin Steps /\ "idle" \notin After /\ "idle" # "called"
    BY IdleIsProcess DEF Steps, After
  <2>3. Turns(p, Idle, r, task[r])
    BY <1>1, <1>2, <1>3, <1>4, <2>1, <2>2 DEF Turns
  <2>4. QED
    BY <1>2, <2>3, TurnKeeps
<1>6. CASE ~ Refused(r)
  <2> DEFINE before == snap[task[r].date]
             base == Previous(History(p), task[r].date)
             t == Prepared(task[r], before, base)
             x == [proc[p] EXCEPT !.pc = "write"]
  <2>1. proc' = [proc EXCEPT ![p] = x] /\ lock' = p
    BY <1>6 DEF Prepare
  <2>2. task' = [task EXCEPT ![r].status = "PREPARED", ![r].before = before, ![r].base = base]
    BY <1>6 DEF Prepare
  <2>3. before \in Slice
    BY <1>2, <1>3
  <2> HIDE DEF before, base
  <2>4. task' = [task EXCEPT ![r] = t]
    BY <1>2, <2>2 DEF RunInv, RunShapes, Tasks, Prepared
  <2>5. TaskOf(t) /\ t.status = "PREPARED"
    <3>1. IsTask(task[r])
      BY <1>2 DEF TaskOf
    <3>2. IsTask(t) /\ t.status = "PREPARED" /\ t.before = before
          /\ t.date = task[r].date /\ t.value = task[r].value
      BY <3>1, TaskPrepared
    <3> HIDE DEF t
    <3>3. QED
      BY <1>2, <2>3, <3>2 DEF TaskOf, Statuses
  <2>6. x \in Process /\ x.pc = "write" /\ x.run = r
    BY <1>2 DEF Process, Steps
  <2>7. \A q \in Procs : q # p /\ proc[q].pc # "idle" => proc[q].run # r
    <3> SUFFICES ASSUME NEW q \in Procs, q # p, proc[q].pc # "idle"  PROVE proc[q].run # r
      OBVIOUS
    <3>1. proc[q].pc \in {"idle", "called"}
      BY <1>1, Names, AllRest
    <3>2. QED
      BY <1>1, <3>1 DEF RunInv, OneCaller
  <2>8. "write" \in Steps /\ "write" \notin After /\ "write" # "called" /\ "PREPARED" \in Begun
    BY DEF Steps, After, Begun
  <2> HIDE DEF t, x
  <2>9. Turns(p, x, r, t)
    BY <1>1, <1>2, <1>3, <2>1, <2>4, <2>5, <2>6, <2>7, <2>8 DEF Turns
  <2>10. QED
    BY <1>2, <2>9, TurnKeeps
<1>7. QED
  BY <1>5, <1>6

LEMMA RetryKeeps ==
    ASSUME RunInv, RepairInv, NEW p \in Procs, NEW r \in Runs, Retry(p, r), UNCHANGED repairVars
    PROVE  RunInv' /\ RepairInv'
<1> DEFINE d == task[r].date
<1>1. /\ proc[p].pc = "idle" /\ lock = None /\ task[r].status \in {"PREPARED", "PENDING", "RUNNING", "FAILED"}
      /\ UNCHANGED <<nav, snap, ids, left>>
  BY DEF Retry, Retryable
<1>2. left \in Budget /\ Tasks /\ Table /\ Ids /\ proc \in [Procs -> Process]
  BY DEF RunInv, RunShapes
<1>3. TaskOf(task[r]) /\ task[r].status \notin {"unused", "called"} /\ d \in Dates
  BY <1>1, <1>2 DEF Tasks, TaskOf
<1>4. lock # p
  BY <1>1, Names
<1>5. \A q \in Procs : q # p /\ proc[q].pc # "idle" => proc[q].run # r
  <2> SUFFICES ASSUME NEW q \in Procs, q # p, proc[q].pc # "idle"  PROVE proc[q].run # r
    OBVIOUS
  <2>1. proc[q].pc = "called"
    BY <1>1, Names, AllRest
  <2>2. QED
    BY <1>1, <2>1 DEF RunInv, Hands, Holding
<1>6. CASE nav[d] = None
  <2> DEFINE t == [task[r] EXCEPT !.status = "RESOLVED"]
  <2>1. task' = [task EXCEPT ![r] = t] /\ proc' = proc /\ lock' = lock
    BY <1>6 DEF Retry
  <2>2. TaskOf(t) /\ t.date = d /\ t.value = task[r].value /\ t.status = "RESOLVED"
    BY <1>3, TaskGets DEF Statuses
  <2>3. proc' = [proc EXCEPT ![p] = proc[p]] /\ proc[p] \in Process
    BY <1>2, <2>1
  <2>4. "idle" \notin Steps /\ "idle" \notin After /\ "idle" # "called" /\ "RESOLVED" \notin {"unused", "called"}
    BY DEF Steps, After
  <2> HIDE DEF t
  <2>5. Turns(p, proc[p], r, t)
    BY <1>1, <1>2, <1>4, <1>5, <2>1, <2>2, <2>3, <2>4 DEF Turns
  <2>6. QED
    BY <2>5, TurnKeeps
<1>7. CASE nav[d] # None
  <2> DEFINE t == [task[r] EXCEPT !.status = "RUNNING"]
             x == [pc |-> "check", run |-> r, id |-> nav[d].id, retry |-> TRUE]
  <2>1. task' = [task EXCEPT ![r] = t] /\ proc' = [proc EXCEPT ![p] = x] /\ lock' = p
    BY <1>7 DEF Retry
  <2>2. TaskOf(t) /\ t.date = d /\ t.value = task[r].value /\ t.status = "RUNNING"
    BY <1>3, TaskGets DEF Statuses
  <2>3. nav[d].id \in Nat
    BY <1>2, <1>3, <1>7 DEF Ids
  <2>4. x \in Process /\ x.pc = "check" /\ x.run = r
    BY <2>3 DEF Process, Steps
  <2>5. "check" \in Steps /\ "check" \notin After /\ "check" # "called" /\ "RUNNING" \in Begun
        /\ "RUNNING" \notin {"unused", "called"}
    BY DEF Steps, After, Begun
  <2> HIDE DEF t, x
  <2>6. Turns(p, x, r, t)
    BY <1>1, <1>2, <1>5, <2>1, <2>2, <2>4, <2>5 DEF Turns
  <2>7. QED
    BY <2>6, TurnKeeps
<1>8. QED
  BY <1>6, <1>7

LEMMA CrashKeeps ==
    ASSUME RunInv, RepairInv, NEW p \in Procs, Crash(p), UNCHANGED repairVars
    PROVE  RunInv' /\ RepairInv'
<1> DEFINE r == proc[p].run
<1>1. /\ proc[p].pc # "idle" /\ left.faults > 0 /\ left' = [left EXCEPT !.faults = @ - 1]
      /\ lock' = (IF lock = p THEN None ELSE lock) /\ proc' = [proc EXCEPT ![p] = Idle]
      /\ UNCHANGED <<nav, snap, task, ids>>
  BY DEF Crash
<1>2. r \in Runs /\ TaskOf(task[r]) /\ left \in Budget /\ Tasks
  BY <1>1, RunInRuns DEF RunInv, RunShapes
<1>3. left' \in Budget
  BY <1>1, <1>2, FaultKeeps
<1>4. task' = [task EXCEPT ![r] = task[r]]
  BY <1>1, <1>2 DEF Tasks
<1>5. Idle \in Process /\ Idle.pc = "idle" /\ "idle" \notin Steps /\ "idle" \notin After /\ "idle" # "called"
  BY IdleIsProcess DEF Steps, After
<1>6. task[r].status \in {"unused", "called"}
        \/ (task[r].date = task[r].date /\ task[r].value = task[r].value /\ task[r].status \notin {"unused", "called"})
  OBVIOUS
<1>7. Turns(p, Idle, r, task[r])
  BY <1>1, <1>2, <1>3, <1>4, <1>5, <1>6 DEF Turns
<1>8. QED
  BY <1>2, <1>7, TurnKeeps

LEMMA DeleteKeeps ==
    ASSUME RunInv, RepairInv, NEW d \in Dates, Delete(d), UNCHANGED repairVars
    PROVE  RunInv' /\ RepairInv'
<1>1. /\ left.deletes > 0 /\ left' = [left EXCEPT !.deletes = @ - 1]
      /\ nav' = [nav EXCEPT ![d] = None]
      /\ UNCHANGED <<snap, task, proc, lock, ids>>
  BY DEF Delete
<1>2. RunShapes /\ Hands /\ OneCaller /\ Table /\ Ids /\ Tasks /\ left \in Budget
  BY DEF RunInv, RunShapes
<1>3. \A e \in Dates : nav'[e] = IF e = d THEN None ELSE nav[e]
  BY <1>1, <1>2 DEF Table
<1>4. left' \in Budget
  BY <1>1, <1>2 DEF Budget
<1>5. Table'
  BY <1>1, <1>2, <1>3 DEF Table
<1>6. Ids'
  BY <1>1, <1>2, <1>3 DEF Ids
<1>7. Hands'
  <2> SUFFICES ASSUME NEW q \in Procs  PROVE Holding(q, proc[q], lock, nav', task)
    BY <1>1 DEF Hands
  <2>1. Holding(q, proc[q], lock, nav, task)
    BY <1>2 DEF Hands
  <2>2. ASSUME proc[q].pc \in After  PROVE Mine(nav'[task[proc[q].run].date], proc[q])
    <3>1. proc[q].pc \in Steps
      BY <2>2 DEF After, Steps
    <3>2. task[proc[q].run].date \in Dates /\ Mine(nav[task[proc[q].run].date], proc[q])
      BY <2>1, <2>2, <3>1, OwnerOf DEF Holding
    <3>3. QED
      BY <1>3, <3>2 DEF Mine
  <2>3. QED
    BY <2>1, <2>2 DEF Holding
<1>8. RepairInv'
  BY <1>1, <1>3, RepairRests
<1>9. QED
  BY <1>1, <1>2, <1>4, <1>5, <1>6, <1>7, <1>8 DEF RunInv, RunShapes, Tasks, OneCaller

-----------------------------------------------------------------------------
(* Rows and slices.  A row that is there names a task of its own date.      *)
LEMMA RowNames ==
    ASSUME RunInv, NEW d \in Dates, nav[d] # None, nav[d].status # "legacy"
    PROVE  nav[d].task \in Runs /\ task[nav[d].task].date = d /\ task[nav[d].task].value = nav[d].value
BY DEF RunInv, RunShapes, Table, RowOf

(* Rows and slices stay; a task is resolved only if no open row names it.   *)
LEMMA TurnMatches ==
    ASSUME RunInv, RowsMatchSlices, NEW r \in Runs, NEW t,
           \A d \in Dates : nav'[d] = None \/ nav'[d] = nav[d],
           snap' = snap, task' = [task EXCEPT ![r] = t],
           t.status = "RESOLVED" => t = task[r] \/ nav[task[r].date] = None
    PROVE  RowsMatchSlices'
<1>1. \A s \in Runs : task'[s] = IF s = r THEN t ELSE task[s]
  BY DEF RunInv, RunShapes, Tasks
<1>2. CompleteIsExact'
  BY DEF RowsMatchSlices, CompleteIsExact
<1>3. ASSUME NEW d \in Dates, nav'[d] # None, Incomplete(nav[d])  PROVE task'[nav[d].task].status # "RESOLVED"
  <2>1. nav[d] # None /\ nav'[d] = nav[d] /\ task[nav[d].task].status # "RESOLVED"
    BY <1>3 DEF RowsMatchSlices, PartialIsRecoverable
  <2>2. nav[d].task \in Runs /\ task[nav[d].task].date = d
    BY <1>3, <2>1, RowNames DEF Incomplete
  <2>3. QED
    BY <1>1, <2>1, <2>2
<1>4. PartialIsRecoverable'
  BY <1>3 DEF PartialIsRecoverable, Incomplete
<1>5. QED
  BY <1>2, <1>4 DEF RowsMatchSlices

(* The owner writes the row and the slice of its date, and its task.        *)
LEMMA OwnerMatches ==
    ASSUME RunInv, RowsMatchSlices, NEW p \in Procs, proc[p].pc \in Steps, NEW t, NEW y,
           task' = [task EXCEPT ![proc[p].run] = t],
           nav' = [nav EXCEPT ![task[proc[p].run].date] = y],
           \A e \in Dates : e # task[proc[p].run].date => snap'[e] = snap[e],
           y # None /\ y.status = "complete" => snap'[task[proc[p].run].date] = Target(y.value),
           y # None /\ Incomplete(y) => task'[y.task].status # "RESOLVED"
    PROVE  RowsMatchSlices'
<1> DEFINE r == proc[p].run
           d == task[r].date
<1>1. r \in Runs /\ d \in Dates
  BY OwnerOf
<1>2. \A s \in Runs : task'[s] = IF s = r THEN t ELSE task[s]
  BY DEF RunInv, RunShapes, Tasks
<1>3. \A e \in Dates : nav'[e] = IF e = d THEN y ELSE nav[e]
  BY DEF RunInv, RunShapes, Table
<1>4. CompleteIsExact'
  BY <1>3 DEF RowsMatchSlices, CompleteIsExact
<1>5. ASSUME NEW e \in Dates, nav'[e] # None, Incomplete(nav'[e])  PROVE task'[nav'[e].task].status # "RESOLVED"
  <2>1. CASE e = d
    BY <1>3, <1>5, <2>1
  <2>2. CASE e # d
    <3>1. nav[e] # None /\ nav'[e] = nav[e] /\ Incomplete(nav[e]) /\ task[nav[e].task].status # "RESOLVED"
      BY <1>3, <1>5, <2>2 DEF RowsMatchSlices, PartialIsRecoverable
    <3>2. nav[e].task \in Runs /\ task[nav[e].task].date = e
      BY <3>1, RowNames DEF Incomplete
    <3>3. QED
      BY <1>2, <2>2, <3>1, <3>2
  <2>3. QED
    BY <2>1, <2>2
<1>6. PartialIsRecoverable'
  BY <1>5 DEF PartialIsRecoverable, Incomplete
<1>7. QED
  BY <1>4, <1>6 DEF RowsMatchSlices

(* What the invariants say of the owner's row before its step.              *)
LEMMA OwnRow ==
    ASSUME RunInv, RowsMatchSlices, NEW p \in Procs, proc[p].pc \in Steps,
           nav[task[proc[p].run].date] # None
    PROVE  /\ nav[task[proc[p].run].date].status = "complete" =>
                snap[task[proc[p].run].date] = Target(nav[task[proc[p].run].date].value)
           /\ Incomplete(nav[task[proc[p].run].date]) =>
                task[nav[task[proc[p].run].date].task].status # "RESOLVED"
BY OwnerOf DEF RowsMatchSlices, CompleteIsExact, PartialIsRecoverable

LEMMA WriteMatches ==
    ASSUME RunInv, RowsMatchSlices, NEW p \in Procs, NEW o \in Outcomes, Write(p, o)
    PROVE  RowsMatchSlices'
<1> DEFINE r   == proc[p].run
           d   == task[r].date
           id  == IF nav[d] = None THEN ids + 1 ELSE nav[d].id
           row == IF o.landed THEN Row(r, id) ELSE nav[d]
           t   == IF o.error THEN [task[r] EXCEPT !.status = AfterWrite(row, r)] ELSE task[r]
<1>1. proc[p].pc \in Steps /\ nav' = [nav EXCEPT ![d] = row] /\ snap' = snap
  BY DEF Write, Steps
<1>2. task' = [task EXCEPT ![r] = t]
  <2>1. o.error \in BOOLEAN
    BY OutcomeFacts
  <2>2. task = [task EXCEPT ![r] = task[r]]
    BY <1>1, OwnTask
  <2>3. o.error => task' = [task EXCEPT ![r] = [task[r] EXCEPT !.status = AfterWrite(row, r)]]
    BY DEF Write
  <2>4. ~ o.error => task' = task
    BY DEF Write
  <2>5. QED
    BY <2>1, <2>2, <2>3, <2>4
<1>3. r \in Runs /\ TaskOf(task[r]) /\ task[r].status \in Begun /\ d \in Dates
  BY <1>1, OwnerOf
<1>4. row # None => t.status # "RESOLVED"
  <2>1. row # None => AfterWrite(row, r) = "PENDING"
    BY DEF AfterWrite
  <2>2. row # None => [task[r] EXCEPT !.status = AfterWrite(row, r)].status = "PENDING"
    BY <1>3, <2>1 DEF TaskOf, IsTask
  <2> HIDE DEF row
  <2>3. QED
    BY <1>3, <2>2 DEF Begun
<1>5. \A s \in Runs : task'[s] = IF s = r THEN t ELSE task[s]
  BY <1>2 DEF RunInv, RunShapes, Tasks
<1>6. row # None /\ row.status = "complete" => snap'[d] = Target(row.value)
  <2>1. row = nav[d] \/ row.status = "prepared"
    BY DEF Row
  <2> HIDE DEF row
  <2>2. QED
    BY <1>1, <2>1, OwnRow
<1>7. row # None /\ Incomplete(row) => task'[row.task].status # "RESOLVED"
  <2>1. row = nav[d] \/ row.task = r
    BY DEF Row
  <2>2. CASE row # None /\ row.task = r
    BY <1>3, <1>4, <1>5, <2>2
  <2>3. CASE row # None /\ row = nav[d] /\ Incomplete(row)
    <3> HIDE DEF row
    <3>1. task[row.task].status # "RESOLVED" /\ row.task \in Runs
      BY <1>1, <1>3, <2>3, OwnRow, RowNames DEF Incomplete
    <3>2. QED
      BY <1>4, <1>5, <2>3, <3>1
  <2>4. QED
    BY <2>1, <2>2, <2>3
<1> HIDE DEF row, t
<1>8. QED
  BY <1>1, <1>2, <1>6, <1>7, OwnerMatches

(* A slice that is what the task wants already is written as it is.         *)
LEMMA NothingToWrite ==
    ASSUME NEW slice \in Slice, NEW stage \in {"create", "update", "delete"}
    PROVE  Written(slice, slice, Rows(stage, slice, slice)) = slice
BY DEF Written, Rows, Creates, Updates, Deletes, Slice

LEMMA BatchMatches ==
    ASSUME RunInv, RowsMatchSlices, NEW p \in Procs, NEW o \in Outcomes, Batch(p, o)
    PROVE  /\ RowsMatchSlices'
           /\ \A d \in Dates : snap'[d] # snap[d] /\ nav[d] # None => lock = p /\ proc[p].run = nav[d].task
<1> DEFINE r == proc[p].run
           d == task[r].date
           slice == Written(snap[d], Desired(r), Rows(proc[p].pc, Desired(r), snap[d]))
<1>1. /\ proc[p].pc \in {"create", "update", "delete"} /\ nav' = nav /\ task' = task
      /\ snap' = (IF o.landed THEN [snap EXCEPT ![d] = slice] ELSE snap)
  BY DEF Batch, Goto, Stage
<1>2. proc[p].pc \in Steps /\ proc[p].pc \in After
  BY <1>1 DEF Steps, After
<1>3. /\ r \in Runs /\ d \in Dates /\ Desired(r) \in Slice /\ lock = p
      /\ task' = [task EXCEPT ![r] = task[r]] /\ nav' = [nav EXCEPT ![d] = nav[d]]
      /\ snap \in [Dates -> Slice]
  BY <1>1, <1>2, OwnerOf, OwnTask DEF Desired
<1>4. Mine(nav[d], proc[p])
  BY <1>2 DEF RunInv, Hands, Holding
<1> HIDE DEF slice
<1>5. \A e \in Dates : e # d => snap'[e] = snap[e]
  BY <1>1, <1>3
<1>6. \A e \in Dates : snap'[e] # snap[e] /\ nav[e] # None => lock = p /\ proc[p].run = nav[e].task
  BY <1>3, <1>4, <1>5 DEF Mine
<1>7. nav[d] # None /\ nav[d].status = "complete" => snap'[d] = Target(nav[d].value)
  <2> HAVE nav[d] # None /\ nav[d].status = "complete"
  <2>1. nav[d].task = r /\ nav[d].value = task[r].value
    BY <1>3, <1>4, RowNames DEF Mine
  <2>2. snap[d] = Target(nav[d].value) /\ snap[d] = Desired(r)
    BY <1>2, <2>1, OwnRow DEF Desired
  <2>3. slice = snap[d]
    BY <1>1, <1>3, <2>2, NothingToWrite DEF slice
  <2>4. snap'[d] = snap[d]
    BY <1>1, <1>3, <2>3
  <2>5. QED
    BY <2>2, <2>4
<1>8. nav[d] # None /\ Incomplete(nav[d]) => task'[nav[d].task].status # "RESOLVED"
  BY <1>1, <1>2, OwnRow
<1>9. RowsMatchSlices'
  BY <1>2, <1>3, <1>5, <1>7, <1>8, OwnerMatches
<1>10. QED
  BY <1>6, <1>9

LEMMA PatchMatches ==
    ASSUME RunInv, RowsMatchSlices, NEW p \in Procs, NEW o \in Outcomes, Patch(p, o)
    PROVE  RowsMatchSlices'
<1> DEFINE r == proc[p].run
           d == task[r].date
<1>1. proc[p].pc \in Steps /\ snap' = snap /\ task' = task
  BY DEF Patch, Goto, Steps
<1>2. /\ r \in Runs /\ d \in Dates
      /\ task' = [task EXCEPT ![r] = task[r]] /\ nav = [nav EXCEPT ![d] = nav[d]]
  BY <1>1, OwnerOf, OwnTask
<1>3. CASE nav' = nav
  <2>1. /\ nav[d] # None /\ nav[d].status = "complete" => snap'[d] = Target(nav[d].value)
        /\ nav[d] # None /\ Incomplete(nav[d]) => task'[nav[d].task].status # "RESOLVED"
    BY <1>1, OwnRow
  <2>2. QED
    BY <1>1, <1>2, <1>3, <2>1, OwnerMatches
<1>4. CASE nav' # nav
  <2> DEFINE y == [nav[d] EXCEPT !.status = "complete"]
  <2>1. nav' = [nav EXCEPT ![d] = y] /\ ~ Lost(p, d) /\ snap[d] = Desired(r)
    BY <1>4 DEF Patch, Verified, Exact
  <2>2. nav[d] # None /\ nav[d].task = r
    BY <1>2, <2>1, NotLost
  <2>3. RowOf(nav[d], d, task) /\ nav[d].status # "legacy"
    BY <1>2, <2>2, Names DEF RunInv, RunShapes, Table, RowOf
  <2>4. y.status = "complete" /\ y.value = nav[d].value /\ nav[d].value = task[r].value
    BY <1>2, <2>2, <2>3, RowGets, RowNames
  <2> HIDE DEF y
  <2>5. y.status = "complete" => snap'[d] = Target(y.value)
    BY <1>1, <2>1, <2>4 DEF Desired
  <2>6. ~ Incomplete(y)
    BY <2>4 DEF Incomplete
  <2>7. QED
    BY <1>1, <1>2, <2>1, <2>5, <2>6, OwnerMatches
<1>5. QED
  BY <1>3, <1>4

(* A task is resolved only when the row of its date is complete.            *)
LEMMA ResolvesMatches ==
    ASSUME RunInv, RowsMatchSlices, NEW p \in Procs, proc[p].pc \in Steps,
           ~ Lost(p, task[proc[p].run].date), nav[task[proc[p].run].date].status = "complete",
           UNCHANGED <<nav, snap>>, NEW t, task' = [task EXCEPT ![proc[p].run] = t]
    PROVE  RowsMatchSlices'
<1> DEFINE r == proc[p].run
           d == task[r].date
<1>1. d \in Dates /\ nav = [nav EXCEPT ![d] = nav[d]]
  BY OwnerOf, OwnTask
<1>2. nav[d] # None => snap'[d] = Target(nav[d].value)
  BY OwnRow
<1>3. ~ Incomplete(nav[d])
  BY DEF Incomplete
<1>4. nav' = [nav EXCEPT ![d] = nav[d]]
  BY <1>1
<1>5. QED
  BY <1>1, <1>2, <1>3, <1>4, OwnerMatches

LEMMA ConfirmMatches ==
    ASSUME RunInv, RowsMatchSlices, NEW p \in Procs, Confirm(p)
    PROVE  RowsMatchSlices'
<1> DEFINE r == proc[p].run
           d == task[r].date
<1>1. proc[p].pc \in Steps /\ UNCHANGED <<nav, snap>>
  BY DEF Confirm, Steps
<1>2. r \in Runs /\ d \in Dates /\ task = [task EXCEPT ![r] = task[r]]
  BY <1>1, OwnerOf, OwnTask
<1>3. CASE Lost(p, d) \/ Classify(nav[d], r) # "complete"
  <2>1. task' = task
    BY <1>3 DEF Confirm, Goto
  <2>2. QED
    BY <1>1, <1>2, <2>1, TurnMatches
<1>4. CASE ~ (Lost(p, d) \/ Classify(nav[d], r) # "complete")
  <2>1. task' = [task EXCEPT ![r] = [task[r] EXCEPT !.status = "RESOLVED"]]
    BY <1>4 DEF Confirm
  <2>2. nav[d].status = "complete"
    BY <1>2, <1>4, NotLost
  <2>3. QED
    BY <1>1, <1>4, <2>1, <2>2, ResolvesMatches
<1>5. QED
  BY <1>3, <1>4

LEMMA FailMatches ==
    ASSUME RunInv, RowsMatchSlices, NEW p \in Procs, NEW o \in Outcomes, Fail(p, o)
    PROVE  RowsMatchSlices'
<1> DEFINE r == proc[p].run
           d == task[r].date
           recovered == ~ proc[p].retry /\ ~ Lost(p, d) /\ Classify(nav[d], r) = "complete"
           marks     == ~ proc[p].retry /\ ~ Lost(p, d) /\ ~ recovered
           status    == IF recovered THEN "RESOLVED" ELSE "FAILED"
           t         == [task[r] EXCEPT !.status = status]
<1>1. /\ proc[p].pc \in Steps /\ snap' = snap
      /\ nav' = (IF marks /\ o.landed THEN [nav EXCEPT ![d].status = "failed"] ELSE nav)
      /\ task' = [task EXCEPT ![r] = t]
  BY DEF Fail, Steps
<1>2. r \in Runs /\ d \in Dates /\ TaskOf(task[r]) /\ nav = [nav EXCEPT ![d] = nav[d]]
      /\ task[r].status \notin {"unused", "called"}
  BY <1>1, OwnerOf, OwnTask
<1>3. t.status = status
  BY <1>2 DEF TaskOf, IsTask
<1>4. CASE recovered
  <2>1. nav[d].status = "complete" /\ nav' = nav
    BY <1>1, <1>2, <1>4, NotLost
  <2>2. QED
    BY <1>1, <1>4, <2>1, ResolvesMatches
<1>5. CASE ~ recovered /\ nav' = nav
  <2>1. t.status = "FAILED"
    BY <1>3, <1>5
  <2> HIDE DEF t
  <2>2. QED
    BY <1>1, <1>2, <1>5, <2>1, TurnMatches
<1>6. CASE ~ recovered /\ nav' # nav
  <2> DEFINE y == [nav[d] EXCEPT !.status = "failed"]
  <2>1. nav' = [nav EXCEPT ![d] = y] /\ ~ Lost(p, d)
    BY <1>1, <1>6
  <2>2. nav[d] # None /\ nav[d].task = r
    BY <1>2, <2>1, NotLost
  <2>3. RowOf(nav[d], d, task) /\ nav[d].status # "legacy"
    BY <1>2, <2>2, Names DEF RunInv, RunShapes, Table, RowOf
  <2>4. y.status = "failed" /\ y.task = r
    BY <2>2, <2>3, RowGets
  <2>5. t.status = "FAILED"
    BY <1>3, <1>6
  <2> HIDE DEF y, t
  <2>6. task'[r] = t
    BY <1>1, <1>2 DEF RunInv, RunShapes, Tasks
  <2>7. task'[y.task].status # "RESOLVED"
    BY <2>4, <2>5, <2>6
  <2>8. QED
    BY <1>1, <1>2, <2>1, <2>4, <2>7, OwnerMatches
<1>7. QED
  BY <1>4, <1>5, <1>6

LEMMA CallMatches ==
    ASSUME RunInv, RowsMatchSlices, NEW p \in Procs, NEW r \in Runs, NEW d, NEW v, NEW w, NEW daily \in BOOLEAN,
           Call(p, r, d, v, w, daily)
    PROVE  RowsMatchSlices'
<1> DEFINE t == [status |-> "called", date |-> d, value |-> v, overwrite |-> w, base |-> None, before |-> None]
<1>1. task' = [task EXCEPT ![r] = t] /\ nav' = nav /\ snap' = snap
  BY DEF Call
<1>2. t.status = "called"
  OBVIOUS
<1> HIDE DEF t
<1>3. QED
  BY <1>1, <1>2, TurnMatches

LEMMA PrepareMatches ==
    ASSUME RunInv, RowsMatchSlices, NEW p \in Procs, Prepare(p)
    PROVE  RowsMatchSlices'
<1> DEFINE r == proc[p].run
           t == IF Refused(r) THEN task[r]
                ELSE Prepared(task[r], snap[task[r].date], Previous(History(p), task[r].date))
<1>1. nav' = nav /\ snap' = snap /\ proc[p].pc # "idle"
  BY DEF Prepare
<1>2. r \in Runs /\ IsTask(task[r]) /\ task = [task EXCEPT ![r] = task[r]]
  BY <1>1, RunInRuns DEF RunInv, RunShapes, Tasks, TaskOf
<1>3. task' = [task EXCEPT ![r] = t]
  <2>1. CASE Refused(r)
    BY <1>2, <2>1 DEF Prepare
  <2>2. CASE ~ Refused(r)
    <3>1. task' = [task EXCEPT ![r] = Prepared(task[r], snap[task[r].date], Previous(History(p), task[r].date))]
      BY <1>2, <2>2 DEF Prepare, Prepared, RunInv, RunShapes, Tasks
    <3>2. QED
      BY <2>2, <3>1
  <2>3. QED
    BY <2>1, <2>2
<1>4. t = task[r] \/ t.status = "PREPARED"
  BY <1>2, TaskPrepared
<1> HIDE DEF t
<1>5. QED
  BY <1>1, <1>2, <1>3, <1>4, TurnMatches

LEMMA RetryMatches ==
    ASSUME RunInv, RowsMatchSlices, NEW p \in Procs, NEW r \in Runs, Retry(p, r)
    PROVE  RowsMatchSlices'
<1> DEFINE d == task[r].date
           t == [task[r] EXCEPT !.status = IF nav[d] = None THEN "RESOLVED" ELSE "RUNNING"]
<1>1. nav' = nav /\ snap' = snap /\ task' = [task EXCEPT ![r] = t]
  BY DEF Retry
<1>2. t.status = IF nav[d] = None THEN "RESOLVED" ELSE "RUNNING"
  BY DEF RunInv, RunShapes, Tasks, TaskOf, IsTask
<1> HIDE DEF t
<1>3. QED
  BY <1>1, <1>2, TurnMatches

(* Everything a run and people do.  Only a batch touches a slice.           *)
SlicesFollow == \A d \in Dates : snap'[d] # snap[d] /\ nav[d] # None
                  => \E p \in Procs : lock = p /\ proc[p].run = nav[d].task

LEMMA SlicesStay ==
    ASSUME UNCHANGED snap
    PROVE  SlicesFollow
BY DEF SlicesFollow

LEMMA RunStep ==
    ASSUME IInv, Next, UNCHANGED repairVars
    PROVE  IInv' /\ SlicesFollow
<1>1. RunInv /\ RepairInv /\ RowsMatchSlices /\ left.procs \subseteq Procs
      /\ left.dates \subseteq Dates /\ left.values \subseteq Values /\ left.overwrites \subseteq BOOLEAN
  BY DEF IInv, RunInv, RunShapes, Budget
<1>2. ASSUME NEW p \in left.procs, NEW r \in Runs, NEW d \in left.dates, NEW v \in left.values,
             NEW w \in left.overwrites, NEW daily \in BOOLEAN, Call(p, r, d, v, w, daily)
      PROVE  IInv' /\ SlicesFollow
  <2>1. p \in Procs /\ d \in Dates /\ v \in Values /\ w \in BOOLEAN
    BY <1>1
  <2>2. UNCHANGED snap
    BY <1>2 DEF Call
  <2>3. QED
    BY <1>1, <1>2, <2>1, <2>2, CallKeeps, CallMatches, SlicesStay DEF IInv
<1>3. ASSUME NEW p \in Procs, Prepare(p)  PROVE IInv' /\ SlicesFollow
  <2>1. UNCHANGED snap
    BY <1>3 DEF Prepare
  <2>2. QED
    BY <1>1, <1>3, <2>1, PrepareKeeps, PrepareMatches, SlicesStay DEF IInv
<1>4. ASSUME NEW p \in Procs, Check(p)  PROVE IInv' /\ SlicesFollow
  <2>1. UNCHANGED <<nav, snap, task>> /\ proc[p].pc \in Steps
    BY <1>4 DEF Check, Goto, Steps
  <2>2. proc[p].run \in Runs /\ task' = [task EXCEPT ![proc[p].run] = task[proc[p].run]]
    BY <1>1, <2>1, OwnerOf, OwnTask
  <2>3. RowsMatchSlices'
    BY <1>1, <2>1, <2>2, TurnMatches
  <2>4. QED
    BY <1>1, <1>4, <2>1, <2>3, CheckKeeps, SlicesStay DEF IInv
<1>5. ASSUME NEW p \in Procs, Confirm(p)  PROVE IInv' /\ SlicesFollow
  <2>1. UNCHANGED snap
    BY <1>5 DEF Confirm
  <2>2. QED
    BY <1>1, <1>5, <2>1, ConfirmKeeps, ConfirmMatches, SlicesStay DEF IInv
<1>6. ASSUME NEW p \in Procs, NEW o \in Outcomes, Write(p, o)  PROVE IInv' /\ SlicesFollow
  <2>1. UNCHANGED snap
    BY <1>6 DEF Write
  <2>2. QED
    BY <1>1, <1>6, <2>1, WriteKeeps, WriteMatches, SlicesStay DEF IInv
<1>7. ASSUME NEW p \in Procs, NEW o \in Outcomes, Batch(p, o)  PROVE IInv' /\ SlicesFollow
  <2>1. RowsMatchSlices'
        /\ \A d \in Dates : snap'[d] # snap[d] /\ nav[d] # None => lock = p /\ proc[p].run = nav[d].task
    BY <1>1, <1>7, BatchMatches
  <2>2. SlicesFollow
    BY <2>1 DEF SlicesFollow
  <2>3. QED
    BY <1>1, <1>7, <2>1, <2>2, BatchKeeps DEF IInv
<1>8. ASSUME NEW p \in Procs, NEW o \in Outcomes, Patch(p, o)  PROVE IInv' /\ SlicesFollow
  <2>1. UNCHANGED snap
    BY <1>8 DEF Patch
  <2>2. QED
    BY <1>1, <1>8, <2>1, PatchKeeps, PatchMatches, SlicesStay DEF IInv
<1>9. ASSUME NEW p \in Procs, NEW o \in Outcomes, Fail(p, o)  PROVE IInv' /\ SlicesFollow
  <2>1. UNCHANGED snap
    BY <1>9 DEF Fail
  <2>2. QED
    BY <1>1, <1>9, <2>1, FailKeeps, FailMatches, SlicesStay DEF IInv
<1>10. ASSUME NEW p \in Procs, NEW r \in Runs, Retry(p, r)  PROVE IInv' /\ SlicesFollow
  <2>1. UNCHANGED snap
    BY <1>10 DEF Retry
  <2>2. QED
    BY <1>1, <1>10, <2>1, RetryKeeps, RetryMatches, SlicesStay DEF IInv
<1>11. ASSUME NEW p \in Procs, Crash(p)  PROVE IInv' /\ SlicesFollow
  <2>1. UNCHANGED <<nav, snap, task>>
    BY <1>11 DEF Crash
  <2>2. RowsMatchSlices'
    BY <1>1, <2>1 DEF RowsMatchSlices, CompleteIsExact, PartialIsRecoverable
  <2>3. QED
    BY <1>1, <1>11, <2>1, <2>2, CrashKeeps, SlicesStay DEF IInv
<1>12. ASSUME NEW d \in Dates, Delete(d)  PROVE IInv' /\ SlicesFollow
  <2>1. nav' = [nav EXCEPT ![d] = None] /\ UNCHANGED <<snap, task>>
    BY <1>12 DEF Delete
  <2>2. \A e \in Dates : nav'[e] = None \/ nav'[e] = nav[e]
    BY <1>1, <2>1 DEF RunInv, RunShapes, Table
  <2>3. RowsMatchSlices'
    BY <1>1, <2>1, <2>2 DEF RowsMatchSlices, CompleteIsExact, PartialIsRecoverable
  <2>4. QED
    BY <1>1, <1>12, <2>1, <2>3, DeleteKeeps, SlicesStay DEF IInv
<1>13. QED
  BY <1>1, <1>2, <1>3, <1>4, <1>5, <1>6, <1>7, <1>8, <1>9, <1>10, <1>11, <1>12 DEF Next

-----------------------------------------------------------------------------
(* The journal of the repair: what is appended to it changes its state and  *)
(* the status of rows, never what it knows of them.                         *)
RowStatuses == {"pending", "applied", "failed", "rolled_back", "rollback_failed"}

SameRow(e, f) == IsEntry(e) /\ e.id = f.id /\ e.value = f.value /\ e.was = f.was /\ e.want = f.want

SameRows(j) ==
    /\ j = [state |-> j.state, rows |-> j.rows, deps |-> j.deps]
    /\ j.deps = journal.deps
    /\ j.rows = [d \in Targets |-> j.rows[d]]
    /\ \A d \in Targets : SameRow(j.rows[d], journal.rows[d]) /\ j.rows[d].status \in RowStatuses

LEMMA SameJournal ==
    ASSUME Journal
    PROVE  SameRows(journal)
BY DEF Journal, Entry, SameRows, SameRow, RowStatuses

LEMMA MarkedRows ==
    ASSUME NEW j, SameRows(j), NEW d \in Targets, NEW status \in RowStatuses
    PROVE  /\ SameRows(MarkRow(j, d, status)) /\ MarkRow(j, d, status).state = j.state
           /\ \A e \in Targets : MarkRow(j, d, status).rows[e].status = IF e = d THEN status ELSE j.rows[e].status
<1> DEFINE x == [j.rows[d] EXCEPT !.status = status]
           rows == [j.rows EXCEPT ![d] = x]
           k == [j EXCEPT !.rows = rows]
<1>1. /\ j = [state |-> j.state, rows |-> j.rows, deps |-> j.deps] /\ j.deps = journal.deps
      /\ j.rows = [e \in Targets |-> j.rows[e]]
      /\ \A e \in Targets : SameRow(j.rows[e], journal.rows[e]) /\ j.rows[e].status \in RowStatuses
  BY DEF SameRows
<1>2. MarkRow(j, d, status) = k
  BY <1>1 DEF MarkRow
<1>3. SameRow(x, journal.rows[d]) /\ x.status = status
  <2>1. PICK e : e = j.rows[d]
    OBVIOUS
  <2>2. SameRow(e, journal.rows[d]) /\ x = [e EXCEPT !.status = status]
    BY <1>1, <2>1
  <2>3. IsEntry(e)
    BY <2>2 DEF SameRow
  <2>4. /\ IsEntry(x) /\ x.status = status /\ x.id = e.id /\ x.value = e.value
        /\ x.was = e.was /\ x.want = e.want
    BY <2>2, <2>3 DEF IsEntry
  <2>5. QED
    BY <2>2, <2>4 DEF SameRow
<1> HIDE DEF x
<1>4. rows = [e \in Targets |-> rows[e]] /\ \A e \in Targets : rows[e] = IF e = d THEN x ELSE j.rows[e]
  BY <1>1
<1> HIDE DEF rows
<1>5. k = [state |-> k.state, rows |-> k.rows, deps |-> k.deps] /\ k.deps = journal.deps
      /\ k.state = j.state /\ k.rows = rows
  BY <1>1
<1> HIDE DEF k
<1>6. SameRows(k)
  BY <1>1, <1>3, <1>4, <1>5 DEF SameRows
<1>7. QED
  BY <1>2, <1>3, <1>4, <1>5, <1>6

LEMMA StateRows ==
    ASSUME NEW j, SameRows(j), NEW state
    PROVE  /\ SameRows([j EXCEPT !.state = state]) /\ [j EXCEPT !.state = state].state = state
           /\ [j EXCEPT !.state = state].rows = j.rows
<1> DEFINE k == [j EXCEPT !.state = state]
<1>1. /\ k = [state |-> k.state, rows |-> k.rows, deps |-> k.deps] /\ k.deps = j.deps
      /\ k.state = state /\ k.rows = j.rows
  BY DEF SameRows
<1> HIDE DEF k
<1>2. SameRows(k)
  BY <1>1 DEF SameRows
<1>3. QED
  BY <1>1, <1>2 DEF k

LEMMA RecoveredRows ==
    ASSUME Journal, NEW bad
    PROVE  /\ SameRows(Recovered(bad)) /\ Recovered(bad).state = journal.state
           /\ \A d \in Targets : \/ Recovered(bad).rows[d].status = journal.rows[d].status
                                 \/ /\ Recovered(bad).rows[d].status = "applied"
                                    /\ Shows(nav[d], d, journal.rows[d].want)
           /\ bad = {} => \A d \in Targets : Shows(nav[d], d, journal.rows[d].want)
                                               => Recovered(bad).rows[d].status = "applied"
<1> DEFINE shows(d) == (\A e \in bad : d < e) /\ Shows(nav[d], d, journal.rows[d].want)
           x(d) == IF shows(d) THEN [journal.rows[d] EXCEPT !.status = "applied"] ELSE journal.rows[d]
           rows == [d \in Targets |-> x(d)]
           k == [journal EXCEPT !.rows = rows]
<1>1. Recovered(bad) = k
  BY DEF Recovered
<1>2. ASSUME NEW d \in Targets
      PROVE  /\ SameRow(x(d), journal.rows[d])
             /\ x(d).status = IF shows(d) THEN "applied" ELSE journal.rows[d].status
  <2>1. IsEntry(journal.rows[d])
    BY DEF Journal, Entry
  <2> HIDE DEF shows
  <2>2. QED
    BY <2>1 DEF SameRow, IsEntry
<1>3. \A d \in Targets : journal.rows[d].status \in RowStatuses
  BY DEF Journal, Entry, RowStatuses
<1> HIDE DEF x
<1>4. rows = [d \in Targets |-> rows[d]] /\ \A d \in Targets : rows[d] = x(d)
  OBVIOUS
<1> HIDE DEF rows
<1>5. k = [state |-> k.state, rows |-> k.rows, deps |-> k.deps] /\ k.deps = journal.deps
      /\ k.state = journal.state /\ k.rows = rows
  BY DEF Journal
<1> HIDE DEF k
<1>6. SameRows(k)
  <2>1. ASSUME NEW d \in Targets  PROVE SameRow(rows[d], journal.rows[d]) /\ rows[d].status \in RowStatuses
    BY <1>2, <1>3, <1>4 DEF RowStatuses
  <2>2. QED
    BY <1>4, <1>5, <2>1 DEF SameRows
<1>7. QED
  BY <1>1, <1>2, <1>4, <1>5, <1>6

(* Of two dates one is the earlier: a non-empty set has a first and a last. *)
LEMMA DatesAreNumbers == Dates \subseteq Nat /\ IsFiniteSet(Dates) /\ \E n \in Nat : Dates = 1 .. n
<1>1. IsFiniteSet(Dates) /\ Dates = 1 .. Cardinality(Dates)
  BY NavRunAssumption
<1>2. Cardinality(Dates) \in Nat
  BY <1>1, FS_CardinalityType
<1>3. QED
  BY <1>1, <1>2

LEMMA HasLeast ==
    ASSUME NEW S, S \subseteq Nat, S # {}
    PROVE  \E m \in S : \A e \in S : m <= e
<1>1. PICK m \in S : \A e \in S : ~ (<<e, m>> \in OpToRel(<, Nat))
  BY NatLessThanWellFounded, WFMin
<1>2. \A e \in S : m \in Nat /\ e \in Nat /\ ~ (e < m)
  BY <1>1 DEF OpToRel
<1>3. \A e \in S : m <= e
  BY <1>2
<1>4. QED
  BY <1>3

LEMMA FirstIsIn ==
    ASSUME NEW S \in SUBSET Dates, S # {}
    PROVE  First(S) \in S /\ \A e \in S : First(S) <= e
<1>1. PICK m \in S : \A e \in S : m <= e
  BY DatesAreNumbers, HasLeast
<1>2. QED
  BY <1>1 DEF First

LEMMA LastIsIn ==
    ASSUME NEW S \in SUBSET Dates, S # {}
    PROVE  LastOf(S) \in S /\ \A e \in S : e <= LastOf(S)
<1>1. PICK n \in Nat : Dates = 1 .. n
  BY DatesAreNumbers
<1> DEFINE T == {m \in Nat : \E e \in S : m = n - e}
<1>2. T \subseteq Nat
  OBVIOUS
<1>3. PICK f : f \in S /\ f \in 1 .. n
  BY <1>1
<1>4. n - f \in T
  BY <1>3
<1>5. \A e \in S : n - e \in T /\ e \in Int
  BY <1>1
<1>6. PICK m \in T : \A t \in T : m <= t
  BY <1>2, <1>4, HasLeast
<1>7. PICK l \in S : m = n - l
  BY <1>6
<1> HIDE DEF T
<1>8. \A e \in S : n - l <= n - e
  BY <1>5, <1>6, <1>7
<1>9. \A e \in S : e <= l
  BY <1>5, <1>7, <1>8
<1>10. QED
  BY <1>9 DEF LastOf

LEMMA JournalMoves ==
    ASSUME Journal, journal.state # "none", SameRows(journal'),
           journal'.state \in Applying \cup RollingBack,
           journal'.state \in Applying => \A d \in Targets : journal'.rows[d].status \in {"pending", "applied", "failed"},
           journal'.state = "COMPLETED" => \A d \in Targets : journal'.rows[d].status = "applied",
           journal'.state = "ROLLED_BACK" => \A d \in Targets : journal'.rows[d].status = "rolled_back"
    PROVE  /\ Journal' /\ Targets' = Targets /\ journal'.state # "none"
           /\ \A d \in Targets : SameRow(journal'.rows[d], journal.rows[d])
<1>1. Targets' = Targets
  BY DEF Targets, SameRows
<1>2. journal'.state # "none"
  BY DEF Applying, RollingBack
<1>3. ASSUME NEW d \in Targets  PROVE Entry(journal'.rows[d])
  <2>1. Entry(journal.rows[d]) /\ SameRow(journal'.rows[d], journal.rows[d]) /\ journal'.rows[d].status \in RowStatuses
    BY DEF Journal, SameRows
  <2>2. QED
    BY <2>1 DEF Entry, SameRow, RowStatuses
<1>4. Targets # {} /\ Targets \subseteq Dates
  BY DEF Journal
<1>5. /\ journal'.state = "COMPLETED" => Pending' = {}
      /\ journal'.state = "ROLLED_BACK" => ToUndo' = {}
  BY <1>1 DEF Pending, ToUndo
<1>6. Journal'
  BY <1>1, <1>2, <1>3, <1>4, <1>5 DEF Journal, SameRows
<1>7. QED
  BY <1>1, <1>2, <1>6 DEF SameRows

LEMMA KnownStays ==
    ASSUME NEW d \in Targets, SameRow(journal'.rows[d], journal.rows[d]), NEW row
    PROVE  /\ Known(row, d) = Known(row, d)'
           /\ Shows(row, d, journal.rows[d].want) = Shows(row, d, journal.rows[d].want)'
           /\ Shows(row, d, journal.rows[d].was) = Shows(row, d, journal.rows[d].was)'
BY DEF Known, Shows, SameRow, Maintained

(* A step of the repair changes one row at most, when it owns the lock.     *)
LEMMA RunRests ==
    ASSUME RunInv, UNCHANGED <<snap, task, proc, ids>>, left' \in Budget,
           lock' = lock \/ (lock \notin Procs /\ lock' \in {None, "repair"}),
           \/ nav' = nav
           \/ lock \notin Procs /\ \E d \in Dates : \E y :
                /\ nav' = [nav EXCEPT ![d] = y] /\ nav[d] # None
                /\ RowOf(y, d, task) /\ y.id = nav[d].id
    PROVE  RunInv'
<1>1. RunShapes /\ Hands /\ OneCaller /\ Table /\ Ids /\ Tasks
  BY DEF RunInv, RunShapes
<1>2. Table' /\ Ids'
  <2>1. CASE nav' = nav
    BY <1>1, <2>1 DEF Table, Ids
  <2>2. CASE nav' # nav
    <3>. PICK d \in Dates : \E y : /\ nav' = [nav EXCEPT ![d] = y] /\ nav[d] # None
                                   /\ RowOf(y, d, task) /\ y.id = nav[d].id
      BY <2>2
    <3>1. PICK y : /\ nav' = [nav EXCEPT ![d] = y] /\ nav[d] # None
                   /\ RowOf(y, d, task) /\ y.id = nav[d].id
      OBVIOUS
    <3>2. \A e \in Dates : nav'[e] = IF e = d THEN y ELSE nav[e]
      BY <1>1, <3>1 DEF Table
    <3>3. nav' = [e \in Dates |-> nav'[e]]
      BY <1>1, <3>1 DEF Table
    <3>4. Table'
      BY <1>1, <3>1, <3>2, <3>3 DEF Table
    <3>5. \A e \in Dates : nav'[e] # None => nav[e] # None /\ nav'[e].id = nav[e].id
      BY <3>1, <3>2
    <3>6. Ids'
      BY <1>1, <3>5 DEF Ids
    <3>7. QED
      BY <3>4, <3>6
  <2>3. QED
    BY <2>1, <2>2
<1>3. Hands'
  <2> SUFFICES ASSUME NEW q \in Procs  PROVE Holding(q, proc[q], lock', nav', task)
    BY DEF Hands
  <2>1. Holding(q, proc[q], lock, nav, task)
    BY <1>1 DEF Hands
  <2>2. (lock' = q) = (lock = q)
    BY Names
  <2>3. CASE nav' = nav
    BY <2>1, <2>2, <2>3 DEF Holding
  <2>4. CASE nav' # nav
    <3>1. proc[q].pc \notin After
      BY <2>4, AllRest DEF After
    <3>2. QED
      BY <2>1, <2>2, <3>1 DEF Holding
  <2>5. QED
    BY <2>3, <2>4
<1>4. lock' \in Procs \cup {None, "repair"}
  BY <1>1 DEF RunShapes
<1>5. QED
  BY <1>1, <1>2, <1>3, <1>4 DEF RunInv, RunShapes, OneCaller, Tasks

(* A row fails; the journal says which and lets the lock go.                *)
LEMMA GiveKeeps ==
    ASSUME RepairInv, journal.state # "none", NEW j, SameRows(j), NEW d \in Targets,
           NEW status, NEW state, Give(j, d, status, state),
           \/ /\ status = "failed" /\ state = "PARTIAL"
              /\ \A e \in Targets : j.rows[e].status \in {"pending", "applied", "failed"}
           \/ /\ status = "rollback_failed" /\ state = "ROLLBACK_PARTIAL"
              /\ \A e \in Targets : j.rows[e].status = journal.rows[e].status,
           \A e \in Dates : e # d => nav'[e] = nav[e]
    PROVE  RepairInv'
<1> DEFINE k == MarkRow(j, d, status)
<1>1. Journal /\ Command /\ Traces /\ Targets \subseteq Dates
  BY DEF RepairInv, Journal
<1>2. journal' = [k EXCEPT !.state = state] /\ cmd' = NoCommand /\ lock' = None
  BY DEF Give, Append, Leave
<1>3. status \in RowStatuses
  BY DEF RowStatuses
<1>4. SameRows(k) /\ \A e \in Targets : k.rows[e].status = IF e = d THEN status ELSE j.rows[e].status
  BY <1>3, MarkedRows
<1> HIDE DEF k
<1>5. SameRows(journal') /\ journal'.state = state /\ journal'.rows = k.rows
  BY <1>2, <1>4, StateRows
<1>6. state \in {"PARTIAL", "ROLLBACK_PARTIAL"} /\ (state \in Applying => state = "PARTIAL")
  BY DEF Applying
<1>7. state = "PARTIAL" => \A e \in Targets : journal'.rows[e].status \in {"pending", "applied", "failed"}
  BY <1>4, <1>5
<1>8. Journal' /\ Targets' = Targets /\ journal'.state # "none"
  BY <1>1, <1>5, <1>6, <1>7, JournalMoves DEF Applying, RollingBack
<1>9. Command'
  BY <1>2, Names DEF Command, NoCommand
<1>10. Traces'
  <2>1. \A e \in Targets : journal'.rows[e].status = "rolled_back" => e # d /\ journal.rows[e].status = "rolled_back"
    BY <1>4, <1>5
  <2>2. QED
    BY <1>1, <1>8, <2>1 DEF Traces
<1>11. QED
  BY <1>8, <1>9, <1>10 DEF RepairInv

(* What a row shows that was patched.                                       *)
Rewritten(row, fields) ==
    [row EXCEPT !.base = fields.base, !.task = fields.task, !.status = fields.status, !.repaired = fields.repaired]

LEMMA RewrittenRow ==
    ASSUME NEW row, NEW fields, IsRow(row), IsFields(fields)
    PROVE  /\ Rewritten(row, fields) = [id |-> row.id, task |-> fields.task, status |-> fields.status,
                                        value |-> row.value, base |-> fields.base, repaired |-> fields.repaired]
           /\ Maintained(Rewritten(row, fields)) = fields
<1> DEFINE a == [row EXCEPT !.base = fields.base]
           b == [a EXCEPT !.task = fields.task]
           c == [b EXCEPT !.status = fields.status]
           e == [c EXCEPT !.repaired = fields.repaired]
<1>1. IsRow(a) /\ a.id = row.id /\ a.value = row.value /\ a.base = fields.base
  BY DEF IsRow
<1>2. a.task = row.task /\ a.status = row.status
  BY DEF IsRow
<1> HIDE DEF a
<1>3. IsRow(b) /\ b.id = row.id /\ b.value = row.value /\ b.base = fields.base /\ b.task = fields.task
  BY <1>1 DEF IsRow
<1> HIDE DEF b
<1>4. IsRow(c) /\ c.id = row.id /\ c.value = row.value /\ c.base = fields.base /\ c.task = fields.task
      /\ c.status = fields.status
  BY <1>3 DEF IsRow
<1> HIDE DEF c
<1>5. IsRow(e) /\ e.id = row.id /\ e.value = row.value /\ e.base = fields.base /\ e.task = fields.task
      /\ e.status = fields.status /\ e.repaired = fields.repaired
  BY <1>4 DEF IsRow
<1>6. Rewritten(row, fields) = e
  BY DEF a, b, c, e, Rewritten
<1> HIDE DEF e
<1>7. Rewritten(row, fields) = [id |-> row.id, task |-> fields.task, status |-> fields.status,
                                value |-> row.value, base |-> fields.base, repaired |-> fields.repaired]
  BY <1>5, <1>6 DEF IsRow
<1>8. Maintained(Rewritten(row, fields)) = fields
  BY <1>7 DEF Maintained, IsFields
<1>9. QED
  BY <1>7, <1>8

LEMMA PatchedRow ==
    ASSUME RunInv, Journal, NEW d \in Targets, NEW fields, fields \in {journal.rows[d].was, journal.rows[d].want},
           nav[d] # None, Known(nav[d], d)
    PROVE  /\ Patched(d, fields) = [nav EXCEPT ![d] = Rewritten(nav[d], fields)]
           /\ RowOf(Rewritten(nav[d], fields), d, task)
           /\ Rewritten(nav[d], fields).id = nav[d].id
           /\ Rewritten(nav[d], fields).task = nav[d].task
           /\ Rewritten(nav[d], fields).status = nav[d].status
           /\ Rewritten(nav[d], fields).status = fields.status
           /\ Rewritten(nav[d], fields).repaired = fields.repaired
           /\ Shows(Rewritten(nav[d], fields), d, fields)
<1>1. d \in Dates /\ Entry(journal.rows[d]) /\ Table
  BY DEF Journal, RunInv, RunShapes
<1>2. RowOf(nav[d], d, task) /\ IsRow(nav[d]) /\ IsFields(fields)
  BY <1>1 DEF Table, RowOf, Entry
<1>3. /\ fields.task = nav[d].task /\ fields.status = nav[d].status /\ fields.repaired \in BOOLEAN
      /\ nav[d].value = journal.rows[d].value
  <2>1. PICK f : f \in {journal.rows[d].was, journal.rows[d].want} /\ Shows(nav[d], d, f)
    BY DEF Known
  <2>2. nav[d].value = journal.rows[d].value /\ f = Maintained(nav[d])
    BY <2>1 DEF Shows
  <2>3. f.task = nav[d].task /\ f.status = nav[d].status
    BY <2>2 DEF Maintained
  <2>4. fields.task = f.task /\ fields.status = f.status
    BY <1>1, <2>1 DEF Entry
  <2>5. fields.repaired \in BOOLEAN
    BY <1>1 DEF Entry
  <2>6. QED
    BY <2>2, <2>3, <2>4, <2>5
<1>4. Patched(d, fields) = [nav EXCEPT ![d] = Rewritten(nav[d], fields)]
  BY DEF Patched, Rewritten
<1>5. PICK y : y = Rewritten(nav[d], fields)
  OBVIOUS
<1>6. /\ y = [id |-> nav[d].id, task |-> fields.task, status |-> fields.status,
              value |-> nav[d].value, base |-> fields.base, repaired |-> fields.repaired]
      /\ Maintained(y) = fields
  BY <1>2, <1>5, RewrittenRow
<1>7. IsRow(y)
  BY <1>6 DEF IsRow
<1>8. RowOf(y, d, task)
  BY <1>2, <1>3, <1>6, <1>7 DEF RowOf
<1>9. Shows(y, d, fields)
  BY <1>3, <1>6 DEF Shows
<1>10. QED
  BY <1>3, <1>4, <1>5, <1>6, <1>8, <1>9

(* A patch keeps the task and the status of its row.                        *)
LEMMA RepairMatches ==
    ASSUME RunInv, RowsMatchSlices, UNCHANGED <<snap, task>>,
           \/ nav' = nav
           \/ \E d \in Dates : \E y :
                /\ nav' = [nav EXCEPT ![d] = y] /\ nav[d] # None
                /\ y.task = nav[d].task /\ y.status = nav[d].status /\ y.status # "complete"
    PROVE  RowsMatchSlices'
<1>1. CASE nav' = nav
  BY <1>1 DEF RowsMatchSlices, CompleteIsExact, PartialIsRecoverable
<1>2. CASE nav' # nav
  <2>. PICK d \in Dates : \E y :
             /\ nav' = [nav EXCEPT ![d] = y] /\ nav[d] # None
             /\ y.task = nav[d].task /\ y.status = nav[d].status /\ y.status # "complete"
    BY <1>2
  <2>1. PICK y : /\ nav' = [nav EXCEPT ![d] = y] /\ nav[d] # None
                 /\ y.task = nav[d].task /\ y.status = nav[d].status /\ y.status # "complete"
    OBVIOUS
  <2>2. \A e \in Dates : nav'[e] = IF e = d THEN y ELSE nav[e]
    BY <2>1 DEF RunInv, RunShapes, Table
  <2>3. QED
    BY <2>1, <2>2 DEF RowsMatchSlices, CompleteIsExact, PartialIsRecoverable, Incomplete
<1>3. QED
  BY <1>1, <1>2

-----------------------------------------------------------------------------
(* The steps of the repair.                                                 *)
Careful == \A d \in Targets : lock = "repair" /\ nav'[d] # nav[d] /\ nav'[d] # None => Known(nav[d], d)

LEMMA CarefulIfStill ==
    ASSUME nav' = nav
    PROVE  Careful
BY DEF Careful

Wanted(fields, base) == [fields EXCEPT !.base = base, !.repaired = TRUE]

LEMMA WantedFields ==
    ASSUME NEW fields, IsFields(fields), NEW base
    PROVE  /\ IsFields(Wanted(fields, base)) /\ Wanted(fields, base).repaired = TRUE
           /\ Wanted(fields, base).base = base
           /\ Wanted(fields, base).task = fields.task /\ Wanted(fields, base).status = fields.status
<1> DEFINE a == [fields EXCEPT !.base = base]
<1>0. PICK yes : yes = TRUE
  OBVIOUS
<1> DEFINE b == [a EXCEPT !.repaired = yes]
<1>1. IsFields(a) /\ a.base = base /\ a.task = fields.task /\ a.status = fields.status
  BY DEF IsFields
<1> HIDE DEF a
<1>2. IsFields(b) /\ b.repaired = yes /\ b.base = base /\ b.task = fields.task /\ b.status = fields.status
  BY <1>1 DEF IsFields
<1>3. Wanted(fields, base) = b
  BY <1>0 DEF a, b, Wanted
<1> HIDE DEF b
<1>4. QED
  BY <1>0, <1>2, <1>3

LEMMA PlanKeeps ==
    ASSUME IInv, NEW targets \in (SUBSET Dates) \ {{}}, Plan(targets)
    PROVE  IInv'
<1> DEFINE x(d) == [id |-> nav[d].id, value |-> nav[d].value, was |-> Maintained(nav[d]),
                    want |-> [Maintained(nav[d]) EXCEPT !.base = Chain(nav, targets)[d].base, !.repaired = TRUE],
                    status |-> "pending"]
           rows == [d \in targets |-> x(d)]
           deps == Dependencies(nav, targets)
<1>1. /\ RunInv /\ Journal /\ Command /\ Traces /\ RowsMatchSlices /\ left \in Budget /\ Table
      /\ targets \subseteq Dates /\ targets # {}
  BY DEF IInv, RunInv, RunShapes, RepairInv
<1>2. /\ cmd.pc = "idle" /\ journal.state = "none" /\ left.repairs > 0
      /\ left' = [left EXCEPT !.repairs = @ - 1]
      /\ \A d \in targets : nav[d] # None
      /\ journal' = [state |-> "PLANNED", rows |-> rows, deps |-> deps]
      /\ cmd' = [pc |-> "planned", current |-> None]
      /\ UNCHANGED <<nav, snap, task, proc, lock, index, ids>>
  BY DEF Plan, Append, NoCommand, PlanRows
<1>3. left' \in Budget
  <2>1. left \in Budget /\ left.repairs > 0 => [left EXCEPT !.repairs = @ - 1] \in Budget
    BY DEF Budget
  <2>2. QED
    BY <1>1, <1>2, <2>1
<1>4. RunInv'
  BY <1>1, <1>2, <1>3, RunRests
<1>5. RowsMatchSlices'
  BY <1>1, <1>2, RepairMatches
<1>6. ASSUME NEW d \in targets  PROVE Entry(x(d)) /\ x(d).status = "pending"
  <2> DEFINE was == Maintained(nav[d])
             base == Chain(nav, targets)[d].base
             want == Wanted(was, base)
  <2>1. nav[d].repaired = FALSE
    BY <1>1, <1>2 DEF Traces
  <2>2. IsFields(was) /\ was.repaired = FALSE
    BY <2>1 DEF IsFields, Maintained
  <2> HIDE DEF base
  <2>3. IsFields(want) /\ want.repaired = TRUE /\ want.task = was.task /\ want.status = was.status
    BY <2>2, WantedFields
  <2>5. x(d) = [id |-> nav[d].id, value |-> nav[d].value, was |-> was, want |-> want, status |-> "pending"]
    BY DEF base, Wanted
  <2> HIDE DEF x, was, want
  <2>6. IsEntry(x(d)) /\ x(d).was = was /\ x(d).want = want /\ x(d).status = "pending"
    BY <2>5 DEF IsEntry
  <2>7. QED
    BY <2>2, <2>3, <2>6 DEF Entry
<1> HIDE DEF x, deps
<1>7. rows = [d \in targets |-> rows[d]] /\ DOMAIN rows = targets /\ \A d \in targets : rows[d] = x(d)
  OBVIOUS
<1> HIDE DEF rows
<1>8. journal'.state = "PLANNED" /\ journal'.rows = rows /\ Targets' = targets
      /\ journal' = [state |-> journal'.state, rows |-> journal'.rows, deps |-> journal'.deps]
  BY <1>2, <1>7 DEF Targets
<1>9. Journal'
  BY <1>1, <1>6, <1>7, <1>8 DEF Journal, Applying, RollingBack
<1>10. Command'
  <2>1. lock # "repair"
    BY <1>1, <1>2 DEF Command
  <2>2. cmd'.pc = "planned" /\ cmd' = [pc |-> cmd'.pc, current |-> cmd'.current]
    BY <1>2
  <2>3. QED
    BY <1>2, <1>8, <2>1, <2>2 DEF Command
<1>11. Traces'
  BY <1>6, <1>7, <1>8 DEF Traces
<1>12. QED
  BY <1>4, <1>5, <1>9, <1>10, <1>11 DEF IInv, RepairInv

LEMMA ApplyKeeps ==
    ASSUME IInv, cmd.pc \in {"idle", "planned"}, Apply
    PROVE  IInv'
<1> DEFINE bad == {d \in Targets : ~ Clean(nav, d)}
           some == IF Pending = {} THEN Targets ELSE Pending
<1>1. /\ RunInv /\ RepairInv /\ Journal /\ Command /\ Traces /\ RowsMatchSlices /\ left \in Budget
      /\ Targets \subseteq Dates
  BY DEF IInv, RunInv, RunShapes, RepairInv, Journal
<1>2. /\ lock = None /\ journal.state \notin {"none", "ROLLING_BACK", "ROLLBACK_PARTIAL", "ROLLED_BACK"}
      /\ UNCHANGED <<nav, snap, task, proc, index, ids, left>>
  BY DEF Apply
<1>3. journal.state \in Applying /\ Targets # {}
      /\ \A d \in Targets : journal.rows[d].status \in {"pending", "applied", "failed"}
  BY <1>1, <1>2 DEF Journal, RollingBack
<1>4. \/ Give(journal, First(some), "failed", "PARTIAL")
      \/ bad # {} /\ Give(Recovered(bad), First(bad), "failed", "PARTIAL")
      \/ /\ Intact(nav) /\ bad = {}
         /\ journal' = [Recovered({}) EXCEPT !.state = "APPLYING"]
         /\ lock' = "repair" /\ cmd' = [pc |-> "apply", current |-> nav]
  BY DEF Apply, Append
<1>5. RunInv' /\ RowsMatchSlices'
  <2>1. lock' \in {None, "repair"} /\ lock \notin Procs
    BY <1>2, <1>4, Names DEF Give, Leave
  <2>2. RunInv'
    BY <1>1, <1>2, <2>1, RunRests
  <2>3. RowsMatchSlices'
    BY <1>1, <1>2, RepairMatches
  <2>4. QED
    BY <2>2, <2>3
<1>6. CASE Give(journal, First(some), "failed", "PARTIAL")
  <2>1. some \in SUBSET Dates /\ some # {} /\ some \subseteq Targets
    BY <1>1, <1>3 DEF Pending
  <2> HIDE DEF some
  <2>2. First(some) \in Targets
    BY <2>1, FirstIsIn
  <2>3. RepairInv'
    BY <1>1, <1>2, <1>3, <1>6, <2>2, SameJournal, GiveKeeps
  <2>4. QED
    BY <1>5, <2>3 DEF IInv
<1>7. CASE bad # {} /\ Give(Recovered(bad), First(bad), "failed", "PARTIAL")
  <2>1. bad \in SUBSET Dates /\ bad \subseteq Targets
    BY <1>1
  <2> HIDE DEF bad
  <2>2. First(bad) \in Targets
    BY <1>7, <2>1, FirstIsIn
  <2>3. SameRows(Recovered(bad)) /\ \A d \in Targets : Recovered(bad).rows[d].status \in {"pending", "applied", "failed"}
    BY <1>1, <1>3, RecoveredRows
  <2>4. RepairInv'
    BY <1>1, <1>2, <1>7, <2>2, <2>3, GiveKeeps
  <2>5. QED
    BY <1>5, <2>4 DEF IInv
<1>8. CASE /\ bad = {}
           /\ journal' = [Recovered({}) EXCEPT !.state = "APPLYING"]
           /\ lock' = "repair" /\ cmd' = [pc |-> "apply", current |-> nav]
  <2>1. SameRows(Recovered({})) /\ \A d \in Targets : Recovered({}).rows[d].status \in {"pending", "applied", "failed"}
    BY <1>1, <1>3, RecoveredRows
  <2>2. SameRows(journal') /\ journal'.state = "APPLYING" /\ journal'.rows = Recovered({}).rows
    BY <1>8, <2>1, StateRows
  <2>3. Journal' /\ Targets' = Targets /\ \A d \in Targets : SameRow(journal'.rows[d], journal.rows[d])
    BY <1>1, <1>2, <2>1, <2>2, JournalMoves DEF Applying
  <2>4. \A d \in Targets : Known(nav[d], d)
    BY <1>8 DEF Clean, Known
  <2>5. \A d \in Targets : Known(nav[d], d)'
    BY <1>2, <2>3, <2>4, KnownStays
  <2>6. cmd'.pc = "apply" /\ cmd'.current = nav' /\ cmd' = [pc |-> cmd'.pc, current |-> cmd'.current]
    BY <1>2, <1>8
  <2>7. Command'
    BY <1>8, <2>2, <2>3, <2>5, <2>6 DEF Command
  <2>8. Traces'
    BY <2>1, <2>2, <2>3 DEF Traces
  <2>9. QED
    BY <1>5, <2>3, <2>7, <2>8 DEF IInv, RepairInv
<1>9. QED
  BY <1>4, <1>6, <1>7, <1>8

LEMMA RollbackKeeps ==
    ASSUME IInv, Rollback
    PROVE  IInv'
<1>1. /\ RunInv /\ Journal /\ Command /\ Traces /\ RowsMatchSlices /\ left \in Budget /\ Targets \subseteq Dates
  BY DEF IInv, RunInv, RunShapes, RepairInv, Journal
<1>2. /\ lock = None /\ lock' = "repair" /\ journal.state # "none"
      /\ journal' = [journal EXCEPT !.state = "ROLLING_BACK"]
      /\ cmd' = [pc |-> "undo", current |-> nav]
      /\ UNCHANGED <<nav, snap, task, proc, index, ids, left>>
  BY DEF Rollback, Append
<1>3. SameRows(journal') /\ journal'.state = "ROLLING_BACK" /\ journal'.rows = journal.rows
  BY <1>1, <1>2, SameJournal, StateRows
<1>4. Journal' /\ Targets' = Targets
  BY <1>1, <1>2, <1>3, JournalMoves DEF Applying, RollingBack
<1>5. RunInv' /\ RowsMatchSlices'
  BY <1>1, <1>2, Names, RunRests, RepairMatches
<1>6. cmd'.pc = "undo" /\ cmd'.current = nav' /\ cmd' = [pc |-> cmd'.pc, current |-> cmd'.current]
  BY <1>2
<1>7. Command'
  BY <1>2, <1>3, <1>6 DEF Command
<1>8. Traces'
  BY <1>1, <1>2, <1>3, <1>4 DEF Traces
<1>9. QED
  BY <1>4, <1>5, <1>7, <1>8 DEF IInv, RepairInv

(* One remote patch, of a row that shows what the plan found or what the    *)
(* repair wrote, or is gone.                                                *)
LEMMA PatchRowKeeps ==
    ASSUME IInv, NEW d \in Targets, NEW o \in Outcomes, NEW pc, NEW next, NEW fields, NEW status, NEW state,
           \/ /\ pc = "apply" /\ next = "applied" /\ fields = journal.rows[d].want
              /\ status = "failed" /\ state = "PARTIAL"
           \/ /\ pc = "undo" /\ next = "undone" /\ fields = journal.rows[d].was
              /\ status = "rollback_failed" /\ state = "ROLLBACK_PARTIAL",
           nav[d] = None \/ Known(nav[d], d),
           PatchRow(pc, next, d, fields, o, status, state)
    PROVE  IInv' /\ Careful
<1>1. /\ RunInv /\ RepairInv /\ Journal /\ Command /\ Traces /\ RowsMatchSlices /\ left \in Budget
      /\ Table /\ Targets \subseteq Dates
  BY DEF IInv, RunInv, RunShapes, RepairInv, Journal
<1>2. cmd.pc = pc /\ UNCHANGED <<snap, task, proc, index, ids>>
  BY DEF PatchRow
<1>3. lock = "repair" /\ lock \notin Procs
  BY <1>1, <1>2, Names DEF Command
<1>4. /\ pc = "apply" => journal.state = "APPLYING"
      /\ pc = "undo" => journal.state = "ROLLING_BACK"
      /\ journal.state # "none"
  BY <1>1, <1>2 DEF Command
<1>5. pc = "apply" => \A e \in Targets : journal.rows[e].status \in {"pending", "applied", "failed"}
  BY <1>1, <1>4 DEF Journal, Applying
<1>6. fields \in {journal.rows[d].was, journal.rows[d].want}
  OBVIOUS
<1>7. ASSUME Give(journal, d, status, state), \A e \in Dates : e # d => nav'[e] = nav[e]
      PROVE  RepairInv'
  BY <1>1, <1>4, <1>5, <1>7, SameJournal, GiveKeeps
<1>8. CASE Unpatchable(fields) \/ nav[d] = None \/ nav[d].id # journal.rows[d].id
  <2>1. Give(journal, d, status, state) /\ UNCHANGED <<nav, left>>
    BY <1>8 DEF PatchRow
  <2>2. lock' = None
    BY <2>1 DEF Give, Leave
  <2>3. RunInv' /\ RowsMatchSlices'
    BY <1>1, <1>2, <1>3, <2>1, <2>2, RunRests, RepairMatches
  <2>4. RepairInv'
    BY <1>7, <2>1
  <2>5. QED
    BY <2>1, <2>3, <2>4, CarefulIfStill DEF IInv
<1>9. CASE ~ (Unpatchable(fields) \/ nav[d] = None \/ nav[d].id # journal.rows[d].id)
  <2> DEFINE y == Rewritten(nav[d], fields)
  <2>1. /\ nav' = (IF o.landed THEN Patched(d, fields) ELSE nav)
        /\ Charge(o)
        /\ IF o.error THEN Give(journal, d, status, state)
           ELSE /\ cmd' = [cmd EXCEPT !.pc = next]
                /\ UNCHANGED <<journal, torn, readable, lock>>
        /\ fields.status # "complete" /\ nav[d] # None
    BY <1>9 DEF PatchRow, Unpatchable
  <2>2. Known(nav[d], d)
    BY <2>1
  <2>3. /\ Patched(d, fields) = [nav EXCEPT ![d] = y]
        /\ RowOf(y, d, task) /\ y.id = nav[d].id /\ y.task = nav[d].task /\ y.status = nav[d].status
        /\ y.status = fields.status /\ y.repaired = fields.repaired /\ Shows(y, d, fields)
    BY <1>1, <1>6, <2>1, <2>2, PatchedRow
  <2> HIDE DEF y
  <2>4. d \in Dates /\ o.error \in BOOLEAN /\ o.landed \in BOOLEAN /\ (~ o.error => o.landed)
    BY <1>1, OutcomeFacts
  <2>5. nav' = nav \/ nav' = [nav EXCEPT ![d] = y]
    BY <2>1, <2>3, <2>4
  <2>6. \A e \in Dates : e # d => nav'[e] = nav[e]
    BY <1>1, <2>5 DEF Table
  <2>7. left' \in Budget
    BY <1>1, <2>1, ChargeKeeps
  <2>8. lock' = lock \/ lock' = None
    BY <2>1, <2>4 DEF Give, Leave
  <2>9. RunInv'
    BY <1>1, <1>2, <1>3, <2>1, <2>3, <2>4, <2>5, <2>7, <2>8, RunRests
  <2>10. RowsMatchSlices'
    BY <1>1, <1>2, <2>1, <2>3, <2>4, <2>5, RepairMatches
  <2>11. Careful
    BY <1>1, <2>2, <2>6 DEF Careful
  <2>12. CASE o.error
    BY <1>7, <2>1, <2>6, <2>9, <2>10, <2>11, <2>12 DEF IInv
  <2>13. CASE ~ o.error
    <3>1. journal' = journal /\ lock' = lock /\ Targets' = Targets /\ nav'[d] = y
      BY <1>1, <2>1, <2>3, <2>4, <2>13 DEF Targets, Table
    <3>2. cmd' = [pc |-> next, current |-> cmd.current]
      BY <1>1, <2>1, <2>13 DEF Command
    <3>3. cmd'.pc = next /\ cmd' = [pc |-> cmd'.pc, current |-> cmd'.current]
      BY <3>2
    <3>4. Journal'
      BY <1>1, <3>1 DEF Journal, Pending, ToUndo, Targets
    <3>5. ASSUME pc = "apply", NEW e \in Targets  PROVE (nav[e] = None \/ Known(nav[e], e))'
      <4>1. CASE e = d
        <5>1. Known(y, d)
          BY <1>6, <2>3 DEF Known
        <5>2. QED
          BY <3>1, <4>1, <5>1 DEF Known, Shows
      <4>2. CASE e # d
        <5>1. nav[e] = None \/ Known(nav[e], e)
          BY <1>1, <1>2, <3>5 DEF Command
        <5>2. nav'[e] = nav[e]
          BY <1>1, <2>6, <4>2
        <5>3. QED
          BY <3>1, <5>1, <5>2 DEF Known, Shows
      <4>3. QED
        BY <4>1, <4>2
    <3>6. Command'
      <4>1. CASE pc = "apply" /\ next = "applied"
        BY <1>3, <1>4, <3>1, <3>3, <3>5, <4>1 DEF Command
      <4>2. CASE pc = "undo" /\ next = "undone"
        BY <1>3, <1>4, <3>1, <3>3, <4>2 DEF Command
      <4>3. QED
        BY <4>1, <4>2
    <3>7. Traces'
      <4>1. journal'.state # "none"
        BY <1>4, <3>1
      <4>2. ASSUME NEW e \in Targets, journal.rows[e].status = "rolled_back"
            PROVE  nav'[e] = None \/ nav'[e].repaired = FALSE
        <5>1. pc = "undo" /\ fields = journal.rows[d].was
          BY <1>5, <4>2
        <5>2. y.repaired = FALSE
          BY <1>1, <2>3, <5>1 DEF Journal, Entry
        <5>3. e # d => nav'[e] = nav[e] /\ (nav[e] = None \/ nav[e].repaired = FALSE)
          BY <1>1, <2>6, <4>2 DEF Traces
        <5>4. QED
          BY <3>1, <5>2, <5>3
      <4>3. QED
        BY <3>1, <4>1, <4>2 DEF Traces
    <3>8. QED
      BY <2>9, <2>10, <2>11, <3>4, <3>6, <3>7 DEF IInv, RepairInv
  <2>14. QED
    BY <2>4, <2>12, <2>13
<1>10. QED
  BY <1>8, <1>9

LEMMA ApplyRowKeeps ==
    ASSUME IInv, NEW o \in Outcomes, ApplyRow(o)
    PROVE  IInv' /\ Careful
<1> DEFINE d == First(Pending)
<1>1. Pending # {} /\ PatchRow("apply", "applied", d, journal.rows[d].want, o, "failed", "PARTIAL")
  BY DEF ApplyRow
<1>2. Pending \in SUBSET Dates /\ Pending \subseteq Targets /\ Command
  BY DEF IInv, RepairInv, Journal, Pending
<1>3. d \in Targets
  BY <1>1, <1>2, FirstIsIn
<1>4. cmd.pc = "apply"
  BY <1>1 DEF PatchRow
<1>5. nav[d] = None \/ Known(nav[d], d)
  BY <1>2, <1>3, <1>4 DEF Command
<1> HIDE DEF d
<1>6. QED
  BY <1>1, <1>3, <1>5, PatchRowKeeps

(* What is appended while the command goes on with the lock.                *)
LEMMA MarkKeeps ==
    ASSUME IInv, NEW d \in Targets, NEW status,
           \/ cmd.pc \in {"apply", "applied"} /\ status = "applied"
           \/ cmd.pc \in {"undo", "undone"} /\ status = "rolled_back" /\ (nav[d] = None \/ nav[d].repaired = FALSE),
           journal' = MarkRow(journal, d, status),
           UNCHANGED <<nav, snap, task, proc, lock, ids, left>>,
           \/ cmd' = cmd
           \/ cmd.pc = "applied" /\ cmd' = [pc |-> "apply", current |-> nav]
           \/ cmd.pc = "undone" /\ cmd' = [pc |-> "undo", current |-> nav]
    PROVE  IInv'
<1>1. /\ RunInv /\ Journal /\ Command /\ Traces /\ RowsMatchSlices /\ left \in Budget /\ Targets \subseteq Dates
  BY DEF IInv, RunInv, RunShapes, RepairInv, Journal
<1>2. status \in RowStatuses
  BY DEF RowStatuses
<1>3. /\ SameRows(journal') /\ journal'.state = journal.state
      /\ \A e \in Targets : journal'.rows[e].status = IF e = d THEN status ELSE journal.rows[e].status
  BY <1>1, <1>2, SameJournal, MarkedRows
<1>4. /\ cmd.pc \in {"apply", "applied"} => journal.state = "APPLYING"
      /\ cmd.pc \in {"undo", "undone"} => journal.state = "ROLLING_BACK"
      /\ lock = "repair"
  BY <1>1 DEF Command
<1>5. journal.state = "APPLYING" => \A e \in Targets : journal.rows[e].status \in {"pending", "applied", "failed"}
  BY <1>1 DEF Journal, Applying
<1>6. Journal' /\ Targets' = Targets /\ \A e \in Targets : SameRow(journal'.rows[e], journal.rows[e])
  <2>1. journal'.state \in Applying => \A e \in Targets : journal'.rows[e].status \in {"pending", "applied", "failed"}
    BY <1>3, <1>4, <1>5 DEF Applying
  <2>2. journal'.state \in {"APPLYING", "ROLLING_BACK"}
    BY <1>3, <1>4
  <2>3. QED
    BY <1>1, <1>3, <2>1, <2>2, JournalMoves DEF Applying, RollingBack
<1>7. RunInv' /\ RowsMatchSlices'
  BY <1>1, RunRests, RepairMatches
<1>8. \A e \in Targets : nav[e] = None \/ Known(nav[e], e) => (nav[e] = None \/ Known(nav[e], e))'
  BY <1>6, KnownStays
<1>9. Command'
  <2>1. CASE cmd' = cmd
    BY <1>1, <1>3, <1>6, <1>8, <2>1 DEF Command
  <2>2. CASE cmd.pc = "applied" /\ cmd' = [pc |-> "apply", current |-> nav]
    <3>1. cmd'.pc = "apply" /\ cmd'.current = nav' /\ cmd' = [pc |-> cmd'.pc, current |-> cmd'.current]
      BY <2>2
    <3>2. \A e \in Targets : nav[e] = None \/ Known(nav[e], e)
      BY <1>1, <2>2 DEF Command
    <3>3. QED
      BY <1>3, <1>4, <1>6, <1>8, <2>2, <3>1, <3>2 DEF Command
  <2>3. CASE cmd.pc = "undone" /\ cmd' = [pc |-> "undo", current |-> nav]
    <3>1. cmd'.pc = "undo" /\ cmd'.current = nav' /\ cmd' = [pc |-> cmd'.pc, current |-> cmd'.current]
      BY <2>3
    <3>2. QED
      BY <1>3, <1>4, <1>6, <2>3, <3>1 DEF Command
  <2>4. QED
    BY <2>1, <2>2, <2>3
<1>10. Traces'
  BY <1>1, <1>3, <1>4, <1>5, <1>6 DEF Traces
<1>11. QED
  BY <1>6, <1>7, <1>9, <1>10 DEF IInv, RepairInv

LEMMA GiveUpKeeps ==
    ASSUME IInv, lock = "repair", NEW d \in Targets, NEW status, NEW state, Give(journal, d, status, state),
           \/ cmd.pc \in {"apply", "applied"} /\ status = "failed" /\ state = "PARTIAL"
           \/ cmd.pc \in {"undo", "undone"} /\ status = "rollback_failed" /\ state = "ROLLBACK_PARTIAL",
           UNCHANGED <<nav, snap, task, proc, ids, left>>
    PROVE  IInv'
<1>1. /\ RunInv /\ RepairInv /\ Journal /\ Command /\ RowsMatchSlices /\ left \in Budget /\ Targets \subseteq Dates
  BY DEF IInv, RunInv, RunShapes, RepairInv, Journal
<1>2. journal.state # "none" /\ (cmd.pc \in {"apply", "applied"} => journal.state = "APPLYING")
  BY <1>1 DEF Command
<1>3. journal.state = "APPLYING" => \A e \in Targets : journal.rows[e].status \in {"pending", "applied", "failed"}
  BY <1>1 DEF Journal, Applying
<1>4. RepairInv'
  BY <1>1, <1>2, <1>3, SameJournal, GiveKeeps
<1>5. lock' = None /\ lock \notin Procs
  BY Names DEF Give, Leave
<1>6. RunInv' /\ RowsMatchSlices'
  BY <1>1, <1>5, RunRests, RepairMatches
<1>7. QED
  BY <1>4, <1>6 DEF IInv

LEMMA ApplyRereadKeeps ==
    ASSUME IInv, ApplyReread
    PROVE  IInv'
<1> DEFINE d == First(Pending)
<1>1. Pending # {} /\ Reread("applied", "apply", d, journal.rows[d].want, "applied", "failed", "PARTIAL")
  BY DEF ApplyReread
<1>2. Pending \in SUBSET Dates /\ Pending \subseteq Targets /\ Command
  BY DEF IInv, RepairInv, Journal, Pending
<1>3. d \in Targets
  BY <1>1, <1>2, FirstIsIn
<1> HIDE DEF d
<1>4. cmd.pc = "applied" /\ UNCHANGED <<nav, snap, task, proc, index, ids, left>>
  BY <1>1 DEF Reread
<1>5. lock = "repair"
  BY <1>2, <1>4 DEF Command
<1>6. \/ /\ journal' = MarkRow(journal, d, "applied") /\ cmd' = [pc |-> "apply", current |-> nav] /\ lock' = lock
      \/ Give(journal, d, "failed", "PARTIAL")
  BY <1>1 DEF Reread, Append
<1>7. QED
  BY <1>3, <1>4, <1>5, <1>6, MarkKeeps, GiveUpKeeps

(* The rollback.                                                            *)
LEMMA LastToUndo ==
    ASSUME IInv, ToUndo # {}
    PROVE  LastOf(ToUndo) \in Targets
<1>1. ToUndo \in SUBSET Dates /\ ToUndo \subseteq Targets
  BY DEF IInv, RepairInv, Journal, ToUndo
<1>2. QED
  BY <1>1, LastIsIn

LEMMA UndoRowKeeps ==
    ASSUME IInv, NEW o \in Outcomes, UndoRow(o)
    PROVE  IInv' /\ Careful
<1> DEFINE d == LastOf(ToUndo)
           alone == cmd.pc = "undo" /\ ~ (~ NeedsNoPatch(d) /\ Shows(cmd.current[d], d, journal.rows[d].want))
<1>1. d \in Targets /\ d \in Dates /\ Command /\ Entry(journal.rows[d])
  BY LastToUndo DEF UndoRow, IInv, RepairInv, Journal
<1>2. \/ alone /\ /\ UNCHANGED <<nav, snap, task, proc, index, ids, left>>
                  /\ \/ NeedsNoPatch(d) /\ journal' = MarkRow(journal, d, "rolled_back") /\ UNCHANGED <<cmd, lock>>
                     \/ Give(journal, d, "rollback_failed", "ROLLBACK_PARTIAL")
      \/ ~ alone /\ PatchRow("undo", "undone", d, journal.rows[d].was, o, "rollback_failed", "ROLLBACK_PARTIAL")
  BY DEF UndoRow, Append
<1> HIDE DEF d
<1>3. CASE alone /\ UNCHANGED <<nav, snap, task, proc, index, ids, left>>
           /\ NeedsNoPatch(d) /\ journal' = MarkRow(journal, d, "rolled_back") /\ UNCHANGED <<cmd, lock>>
  <2>1. nav[d] = None \/ nav[d] = cmd.current[d]
    BY <1>1, <1>3 DEF Command
  <2>2. Maintained(cmd.current[d]) = journal.rows[d].was
    BY <1>3 DEF NeedsNoPatch, Shows
  <2>3. Maintained(cmd.current[d]).repaired = cmd.current[d].repaired
    BY DEF Maintained
  <2>4. journal.rows[d].was.repaired = FALSE
    BY <1>1 DEF Entry
  <2>5. nav[d] = None \/ nav[d].repaired = FALSE
    BY <2>1, <2>2, <2>3, <2>4
  <2>6. QED
    BY <1>1, <1>3, <2>5, MarkKeeps, CarefulIfStill
<1>4. CASE alone /\ UNCHANGED <<nav, snap, task, proc, index, ids, left>>
           /\ Give(journal, d, "rollback_failed", "ROLLBACK_PARTIAL")
  <2>1. lock = "repair"
    BY <1>1, <1>4 DEF Command
  <2>2. QED
    BY <1>1, <1>4, <2>1, GiveUpKeeps, CarefulIfStill
<1>5. CASE ~ alone /\ PatchRow("undo", "undone", d, journal.rows[d].was, o, "rollback_failed", "ROLLBACK_PARTIAL")
  <2>1. cmd.pc = "undo"
    BY <1>5 DEF PatchRow
  <2>2. Shows(cmd.current[d], d, journal.rows[d].want)
    BY <1>5, <2>1
  <2>3. nav[d] = None \/ nav[d] = cmd.current[d]
    BY <1>1, <2>1 DEF Command
  <2>4. nav[d] = None \/ Known(nav[d], d)
    BY <2>2, <2>3 DEF Known
  <2>5. QED
    BY <1>1, <1>5, <2>4, PatchRowKeeps
<1>6. QED
  BY <1>2, <1>3, <1>4, <1>5

LEMMA UndoRereadKeeps ==
    ASSUME IInv, UndoReread
    PROVE  IInv'
<1> DEFINE d == LastOf(ToUndo)
<1>1. ToUndo # {} /\ Reread("undone", "undo", d, journal.rows[d].was, "rolled_back", "rollback_failed", "ROLLBACK_PARTIAL")
  BY DEF UndoReread
<1>2. d \in Targets /\ Command /\ Entry(journal.rows[d])
  BY <1>1, LastToUndo DEF IInv, RepairInv, Journal
<1> HIDE DEF d
<1>3. cmd.pc = "undone" /\ UNCHANGED <<nav, snap, task, proc, index, ids, left>>
  BY <1>1 DEF Reread
<1>4. lock = "repair"
  BY <1>2, <1>3 DEF Command
<1>5. \/ /\ journal' = MarkRow(journal, d, "rolled_back") /\ cmd' = [pc |-> "undo", current |-> nav] /\ lock' = lock
         /\ Shows(nav[d], d, journal.rows[d].was)
      \/ Give(journal, d, "rollback_failed", "ROLLBACK_PARTIAL")
  BY <1>1 DEF Reread, Append
<1>6. Shows(nav[d], d, journal.rows[d].was) => nav[d].repaired = FALSE
  <2>1. Maintained(nav[d]).repaired = nav[d].repaired
    BY DEF Maintained
  <2>2. journal.rows[d].was.repaired = FALSE
    BY <1>2 DEF Entry
  <2>3. QED
    BY <2>1, <2>2 DEF Shows
<1>7. QED
  BY <1>2, <1>3, <1>4, <1>5, <1>6, MarkKeeps, GiveUpKeeps

LEMMA FinishKeeps ==
    ASSUME IInv, NEW pc, NEW rest, NEW state, Finish(pc, rest, state),
           \/ pc = "apply" /\ rest = Pending /\ state = "COMPLETED"
           \/ pc = "undo" /\ rest = ToUndo /\ state = "ROLLED_BACK"
    PROVE  IInv'
<1>1. /\ RunInv /\ Journal /\ Command /\ Traces /\ RowsMatchSlices /\ left \in Budget /\ Targets \subseteq Dates
  BY DEF IInv, RunInv, RunShapes, RepairInv, Journal
<1>2. /\ cmd.pc = pc /\ rest = {} /\ journal' = [journal EXCEPT !.state = state]
      /\ cmd' = NoCommand /\ lock' = None /\ UNCHANGED <<nav, snap, task, proc, index, ids, left>>
  BY DEF Finish, Append, Leave
<1>3. journal.state # "none" /\ lock = "repair"
  BY <1>1, <1>2 DEF Command
<1>4. SameRows(journal') /\ journal'.state = state /\ journal'.rows = journal.rows
  BY <1>1, <1>2, SameJournal, StateRows
<1>5. /\ state = "COMPLETED" => \A d \in Targets : journal.rows[d].status = "applied"
      /\ state = "ROLLED_BACK" => \A d \in Targets : journal.rows[d].status = "rolled_back"
  BY <1>2 DEF Pending, ToUndo
<1>6. state = "COMPLETED" \/ state = "ROLLED_BACK"
  OBVIOUS
<1>7. Journal' /\ Targets' = Targets /\ journal'.state # "none"
  <2>1. journal'.state \in Applying => \A d \in Targets : journal'.rows[d].status \in {"pending", "applied", "failed"}
    BY <1>4, <1>5, <1>6 DEF Applying
  <2>2. QED
    BY <1>1, <1>3, <1>4, <1>5, <1>6, <2>1, JournalMoves DEF Applying, RollingBack
<1>8. RunInv' /\ RowsMatchSlices'
  BY <1>1, <1>2, <1>3, Names, RunRests, RepairMatches
<1>9. Command'
  BY <1>2, Names DEF Command, NoCommand
<1>10. Traces'
  BY <1>1, <1>2, <1>4, <1>7 DEF Traces
<1>11. QED
  BY <1>7, <1>8, <1>9, <1>10 DEF IInv, RepairInv

LEMMA RepairCrashKeeps ==
    ASSUME IInv, RepairCrash
    PROVE  IInv'
<1>1. /\ RunInv /\ Journal /\ Command /\ Traces /\ RowsMatchSlices /\ left \in Budget
  BY DEF IInv, RunInv, RunShapes, RepairInv
<1>2. /\ left.faults > 0 /\ left' = [left EXCEPT !.faults = @ - 1] /\ cmd' = NoCommand
      /\ lock' = (IF lock = "repair" THEN None ELSE lock)
      /\ UNCHANGED <<nav, snap, task, proc, index, ids, journal>>
  BY DEF RepairCrash
<1>3. left' \in Budget
  BY <1>1, <1>2, FaultKeeps
<1>4. RunInv' /\ RowsMatchSlices'
  BY <1>1, <1>2, <1>3, Names, RunRests, RepairMatches
<1>5. Journal'
  BY <1>1, <1>2 DEF Journal, Targets, Pending, ToUndo
<1>6. Command'
  BY <1>2, Names DEF Command, NoCommand
<1>7. Traces'
  BY <1>1, <1>2 DEF Traces, Targets
<1>8. QED
  BY <1>4, <1>5, <1>6, <1>7 DEF IInv, RepairInv

(* While the repair owns the lock only people come between its steps.       *)
LEMMA OnlyPeople ==
    ASSUME IInv, Next, lock = "repair"
    PROVE  \A d \in Dates : nav'[d] = None \/ nav'[d] = nav[d]
<1>1. RunInv /\ Table /\ left.procs \subseteq Procs
  BY DEF IInv, RunInv, RunShapes, Budget
<1>2. \A p \in Procs : proc[p].pc \notin Steps
  BY <1>1, Names DEF RunInv, Hands, Holding
<1>3. ASSUME NEW p \in Procs, NEW o \in Outcomes
      PROVE  ~ Write(p, o) /\ ~ Patch(p, o) /\ ~ Fail(p, o)
  <2>1. Write(p, o) => proc[p].pc = "write"
    BY DEF Write
  <2>2. Patch(p, o) => proc[p].pc = "patch"
    BY DEF Patch
  <2>3. Fail(p, o) => proc[p].pc = "fail"
    BY DEF Fail
  <2>4. QED
    BY <1>2, <2>1, <2>2, <2>3 DEF Steps
<1>4. ASSUME NEW p \in Procs, NEW r, NEW d, NEW v, NEW w, NEW daily, NEW o,
             Call(p, r, d, v, w, daily) \/ Prepare(p) \/ Check(p) \/ Confirm(p) \/ Batch(p, o) \/ Retry(p, r) \/ Crash(p)
      PROVE  nav' = nav
  BY <1>4 DEF Call, Prepare, Check, Confirm, Batch, Retry, Crash
<1>5. CASE \E d \in Dates : Delete(d)
  <2>1. PICK e \in Dates : nav' = [nav EXCEPT ![e] = None]
    BY <1>5 DEF Delete
  <2>2. QED
    BY <1>1, <2>1 DEF Table
<1>6. CASE ~ \E d \in Dates : Delete(d)
  <2>1. nav' = nav
    BY <1>1, <1>3, <1>4, <1>6 DEF Next
  <2>2. QED
    BY <2>1
<1>7. QED
  BY <1>5, <1>6

(* Every step of the system keeps the invariant, changes a slice for the    *)
(* task of its row only, and no row that the repair does not know.          *)
LEMMA RepairStep ==
    ASSUME IInv, RepairNext
    PROVE  IInv' /\ SlicesFollow /\ Careful
<1>1. CASE Next /\ UNCHANGED repairVars
  <2>1. IInv' /\ SlicesFollow
    BY <1>1, RunStep
  <2>2. Targets \subseteq Dates
    BY DEF IInv, RepairInv, Journal
  <2>3. Careful
    BY <1>1, <2>2, OnlyPeople DEF Careful
  <2>4. QED
    BY <2>1, <2>3
<1>2. ASSUME NEW targets \in (SUBSET Dates) \ {{}}, Plan(targets)
      PROVE  IInv' /\ SlicesFollow /\ Careful
  <2>1. UNCHANGED <<nav, snap>>
    BY <1>2 DEF Plan
  <2>2. QED
    BY <1>2, <2>1, PlanKeeps, SlicesStay, CarefulIfStill
<1>3. ASSUME Start \/ Resume
      PROVE  IInv' /\ SlicesFollow /\ Careful
  <2>1. Apply /\ cmd.pc \in {"idle", "planned"}
    BY <1>3 DEF Start, Resume
  <2>2. UNCHANGED <<nav, snap>>
    BY <2>1 DEF Apply
  <2>3. QED
    BY <2>1, <2>2, ApplyKeeps, SlicesStay, CarefulIfStill
<1>4. ASSUME Rollback
      PROVE  IInv' /\ SlicesFollow /\ Careful
  <2>1. UNCHANGED <<nav, snap>>
    BY <1>4 DEF Rollback
  <2>2. QED
    BY <1>4, <2>1, RollbackKeeps, SlicesStay, CarefulIfStill
<1>5. ASSUME RepairCrash
      PROVE  IInv' /\ SlicesFollow /\ Careful
  <2>1. UNCHANGED <<nav, snap>>
    BY <1>5 DEF RepairCrash
  <2>2. QED
    BY <1>5, <2>1, RepairCrashKeeps, SlicesStay, CarefulIfStill
<1>6. ASSUME NEW o \in Outcomes, ApplyRow(o)
      PROVE  IInv' /\ SlicesFollow /\ Careful
  <2>1. UNCHANGED snap
    BY <1>6 DEF ApplyRow, PatchRow
  <2>2. QED
    BY <1>6, <2>1, ApplyRowKeeps, SlicesStay
<1>7. ASSUME NEW o \in Outcomes, UndoRow(o)
      PROVE  IInv' /\ SlicesFollow /\ Careful
  <2>1. UNCHANGED snap
    BY <1>7 DEF UndoRow, PatchRow
  <2>2. QED
    BY <1>7, <2>1, UndoRowKeeps, SlicesStay
<1>8. ASSUME ApplyReread \/ UndoReread
      PROVE  IInv' /\ SlicesFollow /\ Careful
  <2>1. UNCHANGED <<nav, snap>>
    BY <1>8 DEF ApplyReread, UndoReread, Reread
  <2>2. QED
    BY <1>8, <2>1, ApplyRereadKeeps, UndoRereadKeeps, SlicesStay, CarefulIfStill
<1>9. ASSUME Finish("apply", Pending, "COMPLETED") \/ Finish("undo", ToUndo, "ROLLED_BACK")
      PROVE  IInv' /\ SlicesFollow /\ Careful
  <2>1. UNCHANGED <<nav, snap>>
    BY <1>9 DEF Finish
  <2>2. QED
    BY <1>9, <2>1, FinishKeeps, SlicesStay, CarefulIfStill
<1>10. QED
  BY <1>1, <1>2, <1>3, <1>4, <1>5, <1>6, <1>7, <1>8, <1>9 DEF RepairNext

LEMMA NothingHappens ==
    ASSUME IInv, UNCHANGED allVars
    PROVE  IInv' /\ SlicesFollow /\ Careful
<1>1. UNCHANGED <<nav, snap, task, proc, lock, index, ids, left, journal, torn, readable, cmd>>
  BY DEF allVars, vars, repairVars
<1>2. RunInv /\ Journal /\ Command /\ Traces /\ RowsMatchSlices /\ left \in Budget
  BY DEF IInv, RunInv, RunShapes, RepairInv
<1>3. RunInv' /\ RowsMatchSlices'
  BY <1>1, <1>2, RunRests, RepairMatches
<1>4. Journal' /\ Command' /\ Traces'
  BY <1>1, <1>2 DEF Journal, Command, Traces, Known, Shows, Targets, Pending, ToUndo
<1>5. QED
  BY <1>1, <1>3, <1>4, SlicesStay, CarefulIfStill DEF IInv, RepairInv

LEMMA AtFirst ==
    ASSUME RepairInit
    PROVE  IInv
<1>1. /\ nav \in Histories /\ snap = [d \in Dates |-> [k \in Keys |-> None]]
      /\ task = [r \in Runs |-> Unused] /\ proc = [p \in Procs |-> Idle] /\ lock = None
      /\ ids = Cardinality(Dates) /\ left \in Budgets
      /\ journal = NoJournal /\ cmd = NoCommand
  BY DEF RepairInit, Init
<1>2. /\ nav = [d \in Dates |-> nav[d]]
      /\ \A d \in Dates : nav[d] # None => nav[d] = Older(nav[d]) /\ nav[d].id \in Dates
      /\ \A d, e \in Dates : nav[d] # None /\ nav[e] # None /\ nav[d].id = nav[e].id => d = e
  BY <1>1, NavRunAssumption
<1>3. ids \in Nat /\ Dates = 1 .. ids
  BY <1>1, NavRunAssumption, FS_CardinalityType
<1>4. ASSUME NEW d \in Dates, nav[d] # None
      PROVE  RowOf(nav[d], d, task) /\ nav[d].status = "legacy" /\ nav[d].repaired = FALSE
  <2>1. nav[d] = [id |-> nav[d].id, task |-> None, status |-> "legacy", value |-> nav[d].value,
                  base |-> nav[d].base, repaired |-> FALSE]
    BY <1>2, <1>4 DEF Older
  <2>2. nav[d].task = None /\ nav[d].status = "legacy" /\ nav[d].repaired = FALSE
    BY <2>1
  <2>3. IsRow(nav[d])
    BY <2>1, <2>2 DEF IsRow
  <2>4. QED
    BY <2>2, <2>3 DEF RowOf
<1>5. Table /\ Ids
  BY <1>2, <1>3, <1>4 DEF Table, Ids
<1>6. Tasks
  BY <1>1 DEF Tasks, TaskOf, IsTask, Unused, Statuses
<1>7. \A p \in Procs : proc[p] = Idle /\ proc[p] \in Process /\ proc[p].pc = "idle"
  BY <1>1, IdleIsProcess
<1>8. snap \in [Dates -> Slice] /\ left \in Budget
  BY <1>1, NavRunAssumption DEF Slice
<1>9. RunShapes
  BY <1>1, <1>5, <1>6, <1>7, <1>8 DEF RunShapes
<1>10. Hands /\ OneCaller
  BY <1>1, <1>7, Names DEF Hands, Holding, Steps, After, OneCaller
<1>11. Targets = {} /\ journal.state = "none"
  BY <1>1 DEF Targets, NoJournal
<1>12. Journal
  <2>1. journal.rows = <<>> /\ journal = [state |-> journal.state, rows |-> journal.rows, deps |-> journal.deps]
    BY <1>1 DEF NoJournal
  <2>2. journal.rows = [d \in Targets |-> journal.rows[d]]
    BY <1>11, <2>1
  <2>3. QED
    BY <1>11, <2>1, <2>2 DEF Journal, Applying
<1>13. Command
  BY <1>1, Names DEF Command, NoCommand
<1>14. Traces
  BY <1>4, <1>11 DEF Traces
<1>15. RowsMatchSlices
  BY <1>4 DEF RowsMatchSlices, CompleteIsExact, PartialIsRecoverable, Incomplete
<1>16. QED
  BY <1>9, <1>10, <1>12, <1>13, <1>14, <1>15 DEF IInv, RunInv, RepairInv

-----------------------------------------------------------------------------
(* The invariant is inductive; it holds of every reachable state.           *)
LEMMA StepsKeep == IInv /\ [RepairNext]_allVars => IInv' /\ SlicesFollow /\ Careful
BY RepairStep, NothingHappens

LEMMA Invariant == RepairSpec => []IInv
<1>1. RepairInit => IInv
  BY AtFirst
<1>2. IInv /\ [RepairNext]_allVars => IInv'
  BY StepsKeep
<1>3. QED
  BY <1>1, <1>2, PTL DEF RepairSpec

-----------------------------------------------------------------------------
(* The recomputed rows.  Chain is a recursive function: it exists because a *)
(* row needs the rows before it only.                                       *)
Before(rows, d) == {e \in Dates : e < d /\ rows[e] # None}

Link(f, rows, targets, d) ==
    IF rows[d] = None THEN None
    ELSE [value |-> rows[d].value,
          base  |-> IF d \notin targets THEN rows[d].base
                    ELSE IF Before(rows, d) = {} THEN None ELSE f[LastOf(Before(rows, d))]]

IsChain(f, rows, targets) == f = [d \in Dates |-> Link(f, rows, targets, d)]

LEMMA ChainIsChosen ==
    ASSUME NEW rows, NEW targets
    PROVE  Chain(rows, targets) = CHOOSE f : IsChain(f, rows, targets)
BY DEF Chain, IsChain, Link, Before, LastOf

LEMMA LinkNeedsEarlier ==
    ASSUME NEW f, NEW g, NEW rows, NEW targets, NEW d \in Dates, \A e \in Dates : e < d => f[e] = g[e]
    PROVE  Link(f, rows, targets, d) = Link(g, rows, targets, d)
<1>1. Before(rows, d) # {} => LastOf(Before(rows, d)) \in Before(rows, d)
  <2>1. Before(rows, d) \in SUBSET Dates
    BY DEF Before
  <2>2. QED
    BY <2>1, LastIsIn
<1>2. Before(rows, d) # {} => f[LastOf(Before(rows, d))] = g[LastOf(Before(rows, d))]
  BY <1>1 DEF Before
<1>3. QED
  BY <1>2 DEF Link

LEMMA ChainExists ==
    ASSUME NEW rows, NEW targets
    PROVE  \E f : IsChain(f, rows, targets)
<1>1. PICK size \in Nat : Dates = 1 .. size
  BY DatesAreNumbers
<1> DEFINE Upto(n, f) == /\ f = [d \in Dates |-> f[d]]
                         /\ \A d \in Dates : d <= n => f[d] = Link(f, rows, targets, d)
           Missing == {n \in Nat : ~ \E f : Upto(n, f)}
<1>2. ASSUME NEW n \in Nat, NEW f, Upto(n, f)
      PROVE  \E g : Upto(n + 1, g)
  <2> DEFINE g == [d \in Dates |-> IF d = n + 1 THEN Link(f, rows, targets, d) ELSE f[d]]
  <2>1. g = [d \in Dates |-> g[d]] /\ \A d \in Dates : g[d] = IF d = n + 1 THEN Link(f, rows, targets, d) ELSE f[d]
    OBVIOUS
  <2> HIDE DEF g
  <2>2. ASSUME NEW d \in Dates, d <= n + 1  PROVE g[d] = Link(g, rows, targets, d)
    <3>1. \A e \in Dates : e < d => f[e] = g[e]
      BY <1>1, <2>1, <2>2
    <3>2. Link(f, rows, targets, d) = Link(g, rows, targets, d)
      BY <3>1, LinkNeedsEarlier
    <3>3. g[d] = Link(f, rows, targets, d)
      BY <1>1, <1>2, <2>1, <2>2
    <3>4. QED
      BY <3>2, <3>3
  <2>3. Upto(n + 1, g)
    BY <2>1, <2>2
  <2>4. QED
    BY <2>3
<1>3. \E f : Upto(0, f)
  <2> DEFINE f == [d \in Dates |-> None]
  <2>1. Upto(0, f)
    BY <1>1
  <2>2. QED
    BY <2>1
<1> HIDE DEF Upto
<1>4. Missing = {}
  <2> SUFFICES ASSUME Missing # {}  PROVE FALSE
    OBVIOUS
  <2>1. PICK n \in Missing : \A m \in Missing : n <= m
    BY HasLeast
  <2>2. n \in Nat /\ n # 0
    BY <1>3, <2>1
  <2>3. n - 1 \in Nat /\ n - 1 \notin Missing /\ n - 1 + 1 = n
    BY <2>1, <2>2
  <2>4. PICK f : Upto(n - 1, f)
    BY <2>3
  <2>5. \E g : Upto(n, g)
    BY <1>2, <2>3, <2>4
  <2>6. QED
    BY <2>1, <2>5
<1>5. PICK f : Upto(size, f)
  BY <1>4
<1>6. IsChain(f, rows, targets)
  BY <1>1, <1>5 DEF Upto, IsChain
<1>7. QED
  BY <1>6

LEMMA ChainLinks ==
    ASSUME NEW rows, NEW targets, NEW d \in Dates
    PROVE  Chain(rows, targets)[d] = Link(Chain(rows, targets), rows, targets, d)
<1>1. IsChain(Chain(rows, targets), rows, targets)
  BY ChainIsChosen, ChainExists
<1>2. QED
  BY <1>1 DEF IsChain

-----------------------------------------------------------------------------
(* The plan wants of every target what the rows before it give, as the      *)
(* journal knows them: targets by what it wants of them, others as they     *)
(* were read.                                                               *)
Evidence(d) == {e \in Dates : e < d /\ (e \in Targets \/ e \in DOMAIN journal.deps)}

Given(e) ==
    IF e \in Targets THEN [value |-> journal.rows[e].value, base |-> journal.rows[e].want.base]
    ELSE [value |-> journal.deps[e].value, base |-> journal.deps[e].base]

Derived(d) == IF Evidence(d) = {} THEN None ELSE Given(LastOf(Evidence(d)))

Planned == \A d \in Targets : journal.rows[d].want.base = Derived(d)

(* What is marked applied showed it when it was read last.                  *)
Applied(rows, d) == journal.rows[d].status = "applied" => Shows(rows[d], d, journal.rows[d].want)

Marked ==
    /\ cmd.pc \in {"apply", "applied"} => \A d \in Targets : nav[d] = None \/ Applied(nav, d)
    /\ cmd.pc = "apply" => Intact(cmd.current) /\ \A d \in Targets : Applied(cmd.current, d)

Canonical == Planned /\ Marked

LEMMA EarlierRows ==
    ASSUME NEW rows, Targets \subseteq Dates, \A e \in Targets : rows[e] # None,
           Dependencies(rows, Targets) = journal.deps, NEW d \in Targets
    PROVE  /\ Before(rows, d) = Evidence(d)
           /\ \A e \in Before(rows, d) \ Targets :
                journal.deps[e].value = rows[e].value /\ journal.deps[e].base = rows[e].base
<1> DEFINE others == {e \in Dates \ Targets : rows[e] # None /\ \E t \in Targets : e < t}
           seen(e) == [id |-> rows[e].id, value |-> rows[e].value, base |-> rows[e].base]
<1>1. journal.deps = [e \in others |-> seen(e)]
  BY DEF Dependencies
<1>2. DOMAIN journal.deps = others /\ \A e \in others : journal.deps[e] = seen(e)
  BY <1>1
<1>3. \A e \in Dates : e < d => (rows[e] # None) = (e \in Targets \/ e \in DOMAIN journal.deps)
  BY <1>2
<1>4. Before(rows, d) = Evidence(d)
  BY <1>3 DEF Before, Evidence
<1>5. \A e \in Before(rows, d) \ Targets : e \in others
  BY DEF Before
<1> HIDE DEF others
<1>6. ASSUME NEW e \in others
      PROVE  journal.deps[e].value = rows[e].value /\ journal.deps[e].base = rows[e].base
  <2>1. journal.deps[e] = [id |-> rows[e].id, value |-> rows[e].value, base |-> rows[e].base]
    BY <1>2
  <2>2. QED
    BY <2>1
<1>7. QED
  BY <1>4, <1>5, <1>6

LEMMA PlanIsDerived ==
    ASSUME IInv, NEW targets \in (SUBSET Dates) \ {{}}, Plan(targets)
    PROVE  Planned'
<1> DEFINE chain == Chain(nav, targets)
<1>1. /\ targets \subseteq Dates /\ \A d \in targets : nav[d] # None
      /\ journal' = [state |-> "PLANNED", rows |-> PlanRows(nav, targets), deps |-> Dependencies(nav, targets)]
      /\ nav' = nav
  BY DEF Plan, Append
<1>2. /\ Targets' = targets /\ journal'.deps = Dependencies(nav, targets)
      /\ journal'.rows = PlanRows(nav, targets)
  BY <1>1 DEF Targets, PlanRows
<1>3. ASSUME NEW d \in targets
      PROVE  journal'.rows[d].value = nav[d].value /\ journal'.rows[d].want.base = chain[d].base
  <2> DEFINE was == Maintained(nav[d])
             base == chain[d].base
  <2>1. journal'.rows[d] = [id |-> nav[d].id, value |-> nav[d].value, was |-> was,
                            want |-> Wanted(was, base), status |-> "pending"]
    BY <1>2 DEF PlanRows, Wanted
  <2>2. IsFields(was)
    BY DEF Maintained, IsFields
  <2> HIDE DEF was, base
  <2>3. Wanted(was, base).base = base
    BY <2>2, WantedFields
  <2>4. journal'.rows[d].value = nav[d].value /\ journal'.rows[d].want = Wanted(was, base)
    BY <2>1
  <2>5. QED
    BY <2>3, <2>4 DEF base
<1>4. ASSUME NEW d \in targets  PROVE journal'.rows[d].want.base = Derived(d)'
  <2> DEFINE earlier == Before(nav, d)
             last == LastOf(earlier)
  <2>1. chain[d].base = IF earlier = {} THEN None ELSE chain[last]
    <3>1. chain[d] = Link(chain, nav, targets, d)
      BY <1>1, ChainLinks
    <3>2. QED
      BY <1>1, <3>1 DEF Link
  <2>2. /\ earlier = Evidence(d)'
        /\ \A e \in earlier \ targets : journal'.deps[e].value = nav[e].value /\ journal'.deps[e].base = nav[e].base
    <3> DEFINE others == {e \in Dates \ targets : nav[e] # None /\ \E t \in targets : e < t}
               seen(e) == [id |-> nav[e].id, value |-> nav[e].value, base |-> nav[e].base]
    <3>1. journal'.deps = [e \in others |-> seen(e)]
      BY <1>2 DEF Dependencies
    <3>2. DOMAIN journal'.deps = others /\ \A e \in others : journal'.deps[e] = seen(e)
      BY <3>1
    <3>3. \A e \in Dates : e < d => (nav[e] # None) = (e \in targets \/ e \in DOMAIN journal'.deps)
      BY <1>1, <3>2
    <3>4. earlier = Evidence(d)'
      BY <1>2, <3>3 DEF Before, Evidence
    <3>5. \A e \in earlier \ targets : e \in others
      BY <1>1 DEF Before
    <3> HIDE DEF others, earlier
    <3>6. ASSUME NEW e \in others
          PROVE  journal'.deps[e].value = nav[e].value /\ journal'.deps[e].base = nav[e].base
      <4>1. journal'.deps[e] = [id |-> nav[e].id, value |-> nav[e].value, base |-> nav[e].base]
        BY <3>2
      <4>2. QED
        BY <4>1
    <3>7. QED
      BY <3>4, <3>5, <3>6
  <2>3. earlier = {} => Derived(d)' = None
    BY <2>2 DEF Derived
  <2>4. ASSUME earlier # {}  PROVE Derived(d)' = chain[last]
    <3>1. last \in earlier /\ last \in Dates /\ nav[last] # None
      <4>1. earlier \in SUBSET Dates
        BY DEF Before
      <4>2. last \in earlier
        BY <2>4, <4>1, LastIsIn
      <4>3. QED
        BY <4>2 DEF Before
    <3>2. PICK l : l = last
      OBVIOUS
    <3>3. LastOf(Evidence(d)') = l /\ Evidence(d)' # {}
      BY <2>2, <2>4, <3>2
    <3>4. Derived(d)' = Given(l)'
      BY <3>3 DEF Derived
    <3>5. l \in earlier /\ l \in Dates /\ nav[l] # None /\ chain[last] = chain[l]
      BY <3>1, <3>2
    <3> HIDE DEF earlier, last
    <3>6. chain[l] = Link(chain, nav, targets, l)
      BY <3>5, ChainLinks
    <3>7. CASE l \in targets
      <4>1. Given(l)' = [value |-> nav[l].value, base |-> chain[l].base]
        BY <1>2, <1>3, <3>7 DEF Given
      <4>2. chain[l] = [value |-> nav[l].value, base |-> chain[l].base]
        <5>1. PICK base : base = IF Before(nav, l) = {} THEN None ELSE chain[LastOf(Before(nav, l))]
          OBVIOUS
        <5>2. chain[l] = [value |-> nav[l].value, base |-> base]
          BY <3>5, <3>6, <3>7, <5>1 DEF Link
        <5> HIDE DEF chain
        <5>3. QED
          BY <5>2
      <4>3. QED
        BY <3>4, <3>5, <4>1, <4>2
    <3>8. CASE l \notin targets
      <4>1. Given(l)' = [value |-> nav[l].value, base |-> nav[l].base]
        BY <1>2, <2>2, <3>5, <3>8 DEF Given
      <4>2. chain[l] = [value |-> nav[l].value, base |-> nav[l].base]
        BY <3>5, <3>6, <3>8 DEF Link
      <4>3. QED
        BY <3>4, <3>5, <4>1, <4>2
    <3>9. QED
      BY <3>7, <3>8
  <2>5. QED
    BY <1>3, <2>1, <2>3, <2>4
<1>5. QED
  BY <1>2, <1>4 DEF Planned

LEMMA PlannedStays ==
    ASSUME Planned, Targets' = Targets, journal'.deps = journal.deps,
           \A d \in Targets : SameRow(journal'.rows[d], journal.rows[d])
    PROVE  Planned'
<1>1. \A e \in Targets : journal'.rows[e].value = journal.rows[e].value /\ journal'.rows[e].want = journal.rows[e].want
  BY DEF SameRow
<1>2. ASSUME NEW d \in Targets  PROVE Derived(d)' = Derived(d)
  <2>1. Evidence(d)' = Evidence(d)
    BY DEF Evidence
  <2>2. \A e : Given(e)' = Given(e)
    BY <1>1 DEF Given
  <2>3. QED
    BY <2>1, <2>2 DEF Derived
<1>3. QED
  BY <1>1, <1>2 DEF Planned

(* What was read as it is wanted of every target is what the calculation    *)
(* gives on the rows read with it.                                          *)
LEMMA ReadIsCalculated ==
    ASSUME Planned, Targets \subseteq Dates, NEW rows, Intact(rows),
           \A d \in Targets : Shows(rows[d], d, journal.rows[d].want),
           NEW d \in Targets
    PROVE  rows[d].base = Calculated(rows, d)
<1>1. \A e \in Targets : rows[e].value = journal.rows[e].value /\ rows[e].base = journal.rows[e].want.base
  <2> SUFFICES ASSUME NEW e \in Targets
               PROVE  rows[e].value = journal.rows[e].value /\ rows[e].base = journal.rows[e].want.base
    OBVIOUS
  <2>1. rows[e].value = journal.rows[e].value /\ journal.rows[e].want = Maintained(rows[e])
    BY DEF Shows
  <2>2. Maintained(rows[e]).base = rows[e].base
    BY DEF Maintained
  <2>3. QED
    BY <2>1, <2>2
<1>2. /\ Before(rows, d) = Evidence(d)
      /\ \A e \in Before(rows, d) \ Targets :
           journal.deps[e].value = rows[e].value /\ journal.deps[e].base = rows[e].base
  BY EarlierRows DEF Intact
<1>3. rows[d].base = Derived(d)
  BY <1>1 DEF Planned
<1>4. CASE Before(rows, d) = {}
  BY <1>2, <1>3, <1>4 DEF Derived, Calculated, Before
<1>5. CASE Before(rows, d) # {}
  <2> DEFINE last == LastOf(Before(rows, d))
  <2>1. last \in Before(rows, d)
    <3>1. Before(rows, d) \in SUBSET Dates
      BY DEF Before
    <3>2. QED
      BY <1>5, <3>1, LastIsIn
  <2>2. Derived(d) = Given(last)
    BY <1>2, <1>5 DEF Derived
  <2>3. Calculated(rows, d) = [value |-> rows[last].value, base |-> rows[last].base]
    BY <1>5 DEF Calculated, Before
  <2> HIDE DEF last
  <2>4. Given(last) = [value |-> rows[last].value, base |-> rows[last].base]
    BY <1>1, <1>2, <2>1 DEF Given
  <2>5. QED
    BY <1>3, <2>2, <2>3, <2>4
<1>6. QED
  BY <1>4, <1>5

-----------------------------------------------------------------------------
(* Each step keeps what the plan wants and what is marked.                  *)
Completes ==
    journal'.state = "COMPLETED" /\ journal.state # "COMPLETED"
      => \A d \in Targets : cmd.current[d].base = Calculated(cmd.current, d)

LEMMA JournalKeepsPlan ==
    ASSUME Planned, SameRows(journal') \/ journal' = journal, Journal
    PROVE  /\ Planned' /\ Targets' = Targets /\ journal'.deps = journal.deps
           /\ \A d \in Targets : SameRow(journal'.rows[d], journal.rows[d])
<1>1. SameRows(journal')
  BY SameJournal
<1>2. Targets' = Targets /\ journal'.deps = journal.deps /\ \A d \in Targets : SameRow(journal'.rows[d], journal.rows[d])
  BY <1>1 DEF SameRows, Targets
<1>3. QED
  BY <1>2, PlannedStays

LEMMA IntactStays ==
    ASSUME NEW rows, Intact(rows), Targets' = Targets, journal'.deps = journal.deps,
           \A d \in Targets : SameRow(journal'.rows[d], journal.rows[d])
    PROVE  Intact(rows)'
BY DEF Intact, SameRow, Dependencies

LEMMA GiveCanonical ==
    ASSUME Journal, Planned, NEW j, SameRows(j), NEW d \in Targets, NEW status \in RowStatuses,
           NEW state, state # "COMPLETED", Give(j, d, status, state)
    PROVE  Canonical' /\ Completes
<1>1. journal' = [MarkRow(j, d, status) EXCEPT !.state = state] /\ cmd' = NoCommand
  BY DEF Give, Append, Leave
<1>2. SameRows(journal') /\ journal'.state = state
  BY <1>1, MarkedRows, StateRows
<1>3. Planned'
  BY <1>2, JournalKeepsPlan
<1>4. QED
  BY <1>1, <1>2, <1>3 DEF Canonical, Marked, NoCommand, Completes

LEMMA StillCanonical ==
    ASSUME IInv, Canonical, UNCHANGED repairVars,
           lock = "repair" => \A d \in Dates : nav'[d] = None \/ nav'[d] = nav[d]
    PROVE  Canonical' /\ Completes
<1>1. Journal /\ Command /\ Targets \subseteq Dates /\ journal' = journal /\ cmd' = cmd
  BY DEF IInv, RepairInv, Journal, repairVars
<1>2. /\ Planned' /\ Targets' = Targets /\ journal'.deps = journal.deps
      /\ \A d \in Targets : SameRow(journal'.rows[d], journal.rows[d])
  BY <1>1, JournalKeepsPlan DEF Canonical
<1>3. ASSUME cmd.pc \in {"apply", "applied"}, NEW d \in Targets
      PROVE  (nav[d] = None \/ Applied(nav, d))'
  <2>1. nav'[d] = None \/ nav'[d] = nav[d]
    BY <1>1, <1>3 DEF Command
  <2>2. nav[d] = None \/ Applied(nav, d)
    BY <1>3 DEF Canonical, Marked
  <2>3. QED
    BY <1>1, <2>1, <2>2 DEF Applied, Shows
<1>4. ASSUME cmd.pc = "apply"
      PROVE  Intact(cmd.current)' /\ \A d \in Targets : Applied(cmd.current, d)'
  <2>1. Intact(cmd.current) /\ \A d \in Targets : Applied(cmd.current, d)
    BY <1>4 DEF Canonical, Marked
  <2>2. QED
    BY <1>1, <1>2, <2>1 DEF Applied, Shows, Intact, Dependencies
<1>5. QED
  BY <1>1, <1>2, <1>3, <1>4 DEF Canonical, Marked, Completes

LEMMA ApplyCanonical ==
    ASSUME IInv, Canonical, Apply
    PROVE  Canonical' /\ Completes
<1> DEFINE bad == {d \in Targets : ~ Clean(nav, d)}
           some == IF Pending = {} THEN Targets ELSE Pending
<1>1. Journal /\ Targets \subseteq Dates /\ Planned
  BY DEF IInv, RepairInv, Journal, Canonical
<1>2. journal.state # "none" /\ Targets # {} /\ UNCHANGED nav
  BY <1>1 DEF Apply, Journal
<1>3. \/ Give(journal, First(some), "failed", "PARTIAL")
      \/ bad # {} /\ Give(Recovered(bad), First(bad), "failed", "PARTIAL")
      \/ /\ Intact(nav) /\ bad = {}
         /\ journal' = [Recovered({}) EXCEPT !.state = "APPLYING"]
         /\ cmd' = [pc |-> "apply", current |-> nav]
  BY DEF Apply, Append
<1>4. "failed" \in RowStatuses
  BY DEF RowStatuses
<1>5. CASE Give(journal, First(some), "failed", "PARTIAL")
  <2>1. some \in SUBSET Dates /\ some # {} /\ some \subseteq Targets
    BY <1>1, <1>2 DEF Pending
  <2> HIDE DEF some
  <2>2. First(some) \in Targets
    BY <2>1, FirstIsIn
  <2>3. QED
    BY <1>1, <1>4, <1>5, <2>2, SameJournal, GiveCanonical
<1>6. CASE bad # {} /\ Give(Recovered(bad), First(bad), "failed", "PARTIAL")
  <2>1. bad \in SUBSET Dates /\ bad \subseteq Targets
    BY <1>1
  <2> HIDE DEF bad
  <2>2. First(bad) \in Targets
    BY <1>6, <2>1, FirstIsIn
  <2>3. QED
    BY <1>1, <1>4, <1>6, <2>2, RecoveredRows, GiveCanonical
<1>7. CASE /\ Intact(nav) /\ bad = {}
           /\ journal' = [Recovered({}) EXCEPT !.state = "APPLYING"]
           /\ cmd' = [pc |-> "apply", current |-> nav]
  <2>1. SameRows(Recovered({}))
    BY <1>1, RecoveredRows
  <2>2. SameRows(journal') /\ journal'.state = "APPLYING" /\ journal'.rows = Recovered({}).rows
    BY <1>7, <2>1, StateRows
  <2>3. /\ Planned' /\ Targets' = Targets /\ journal'.deps = journal.deps
        /\ \A d \in Targets : SameRow(journal'.rows[d], journal.rows[d])
    BY <1>1, <2>2, JournalKeepsPlan
  <2>4. ASSUME NEW d \in Targets, journal'.rows[d].status = "applied"
        PROVE  Shows(nav[d], d, journal.rows[d].want)
    <3>1. journal.rows[d].status = "applied" \/ Shows(nav[d], d, journal.rows[d].want)
      BY <1>1, <2>2, <2>4, RecoveredRows
    <3>2. Clean(nav, d)
      BY <1>7
    <3>3. QED
      BY <3>1, <3>2 DEF Clean
  <2>5. \A d \in Targets : Shows(nav[d], d, journal.rows[d].want) => Shows(nav[d], d, journal.rows[d].want)'
    BY <1>2, <2>3, KnownStays
  <2>6. \A d \in Targets : Applied(nav, d)'
    BY <2>4, <2>5 DEF Applied
  <2>7. Intact(nav)'
    BY <1>2, <1>7, <2>3, IntactStays
  <2>8. cmd'.pc = "apply" /\ cmd'.current = nav'
    BY <1>2, <1>7
  <2>9. Marked'
    BY <2>3, <2>6, <2>7, <2>8 DEF Marked, Applied
  <2>10. QED
    BY <2>2, <2>3, <2>9 DEF Canonical, Completes
<1>8. QED
  BY <1>3, <1>5, <1>6, <1>7

(* A step after which no row is to be applied keeps the plan.               *)
LEMMA AsideCanonical ==
    ASSUME IInv, Canonical, SameRows(journal') \/ journal' = journal,
           cmd'.pc \notin {"apply", "applied"}, journal'.state \in {journal.state, "ROLLING_BACK", "ROLLED_BACK"}
    PROVE  Canonical' /\ Completes
<1>1. Journal /\ Planned
  BY DEF IInv, RepairInv, Canonical
<1>2. Planned'
  BY <1>1, JournalKeepsPlan
<1>3. Completes
  BY DEF Completes
<1>4. QED
  BY <1>2, <1>3 DEF Canonical, Marked

LEMMA ApplyRowCanonical ==
    ASSUME IInv, Canonical, NEW o \in Outcomes, ApplyRow(o)
    PROVE  Canonical' /\ Completes
<1> DEFINE d == First(Pending)
<1>1. Pending # {} /\ PatchRow("apply", "applied", d, journal.rows[d].want, o, "failed", "PARTIAL")
  BY DEF ApplyRow
<1>2. Pending \in SUBSET Dates /\ Pending \subseteq Targets /\ Journal /\ Targets \subseteq Dates /\ Planned /\ Table
      /\ Command
  BY DEF IInv, RunInv, RunShapes, RepairInv, Journal, Pending, Canonical
<1>3. d \in Targets /\ d \in Pending
  BY <1>1, <1>2, FirstIsIn
<1>4. journal.rows[d].status # "applied"
  BY <1>3 DEF Pending
<1> HIDE DEF d
<1>5. CASE Give(journal, d, "failed", "PARTIAL")
  BY <1>2, <1>3, <1>5, SameJournal, GiveCanonical DEF RowStatuses
<1>6. CASE ~ Give(journal, d, "failed", "PARTIAL")
  <2>1. /\ cmd.pc = "apply" /\ cmd' = [cmd EXCEPT !.pc = "applied"] /\ journal' = journal
        /\ nav' = nav \/ nav' = Patched(d, journal.rows[d].want)
    BY <1>1, <1>6 DEF PatchRow
  <2>2. \A e \in Dates : e # d => nav'[e] = nav[e]
    BY <1>2, <2>1 DEF Patched, Table
  <2>3. Planned' /\ Targets' = Targets
    BY <1>2, <2>1, JournalKeepsPlan
  <2>4. cmd'.pc = "applied"
    BY <1>2, <2>1 DEF Command
  <2>5. ASSUME NEW e \in Targets  PROVE (nav[e] = None \/ Applied(nav, e))'
    <3>1. CASE e = d
      BY <1>4, <2>1, <3>1 DEF Applied
    <3>2. CASE e # d
      <4>1. nav[e] = None \/ Applied(nav, e)
        BY <2>1 DEF Canonical, Marked
      <4>2. nav'[e] = nav[e]
        BY <1>2, <2>2, <3>2
      <4>3. QED
        BY <2>1, <4>1, <4>2 DEF Applied, Shows
    <3>3. QED
      BY <3>1, <3>2
  <2>6. Marked'
    BY <2>3, <2>4, <2>5 DEF Marked
  <2>7. QED
    BY <2>1, <2>3, <2>6 DEF Canonical, Completes
<1>7. QED
  BY <1>5, <1>6

LEMMA ApplyRereadCanonical ==
    ASSUME IInv, Canonical, ApplyReread
    PROVE  Canonical' /\ Completes
<1> DEFINE d == First(Pending)
<1>1. Pending # {} /\ Reread("applied", "apply", d, journal.rows[d].want, "applied", "failed", "PARTIAL")
  BY DEF ApplyReread
<1>2. Pending \in SUBSET Dates /\ Pending \subseteq Targets /\ Journal /\ Targets \subseteq Dates /\ Planned
  BY DEF IInv, RepairInv, Journal, Pending, Canonical
<1>3. d \in Targets
  BY <1>1, <1>2, FirstIsIn
<1> HIDE DEF d
<1>4. cmd.pc = "applied" /\ UNCHANGED nav
  BY <1>1 DEF Reread
<1>5. \/ /\ Intact(nav) /\ Shows(nav[d], d, journal.rows[d].want)
         /\ journal' = MarkRow(journal, d, "applied") /\ cmd' = [pc |-> "apply", current |-> nav]
      \/ Give(journal, d, "failed", "PARTIAL")
  BY <1>1 DEF Reread, Append
<1>6. CASE Give(journal, d, "failed", "PARTIAL")
  BY <1>2, <1>3, <1>6, SameJournal, GiveCanonical DEF RowStatuses
<1>7. CASE /\ Intact(nav) /\ Shows(nav[d], d, journal.rows[d].want)
           /\ journal' = MarkRow(journal, d, "applied") /\ cmd' = [pc |-> "apply", current |-> nav]
  <2>0. "applied" \in RowStatuses
    BY DEF RowStatuses
  <2>1. /\ SameRows(journal') /\ journal'.state = journal.state
        /\ \A e \in Targets : journal'.rows[e].status = IF e = d THEN "applied" ELSE journal.rows[e].status
    BY <1>2, <1>3, <1>7, <2>0, SameJournal, MarkedRows
  <2>2. /\ Planned' /\ Targets' = Targets /\ journal'.deps = journal.deps
        /\ \A e \in Targets : SameRow(journal'.rows[e], journal.rows[e])
    BY <1>2, <2>1, JournalKeepsPlan
  <2>3. ASSUME NEW e \in Targets, journal'.rows[e].status = "applied"
        PROVE  Shows(nav[e], e, journal.rows[e].want)
    <3>1. nav[e] # None
      BY <1>7 DEF Intact
    <3>2. e # d => Applied(nav, e) /\ journal.rows[e].status = "applied"
      BY <1>4, <2>1, <2>3, <3>1 DEF Canonical, Marked
    <3>3. QED
      BY <1>7, <3>2 DEF Applied
  <2>4. \A e \in Targets : Shows(nav[e], e, journal.rows[e].want) => Shows(nav[e], e, journal.rows[e].want)'
    BY <1>4, <2>2, KnownStays
  <2>5. \A e \in Targets : Applied(nav, e)'
    BY <2>3, <2>4 DEF Applied
  <2>6. Intact(nav)'
    BY <1>4, <1>7, <2>2, IntactStays
  <2>7. cmd'.pc = "apply" /\ cmd'.current = nav'
    BY <1>4, <1>7
  <2>8. Marked'
    BY <2>2, <2>5, <2>6, <2>7 DEF Marked, Applied
  <2>9. QED
    BY <2>1, <2>2, <2>8 DEF Canonical, Completes
<1>8. QED
  BY <1>5, <1>6, <1>7

LEMMA UndoCanonical ==
    ASSUME IInv, Canonical, UndoReread \/ \E o \in Outcomes : UndoRow(o)
    PROVE  Canonical' /\ Completes
<1>1. ToUndo # {} /\ cmd.pc \in {"undo", "undone"}
  BY DEF UndoReread, UndoRow, Reread, PatchRow
<1> DEFINE d == LastOf(ToUndo)
<1>2. d \in Targets /\ Journal /\ Planned /\ Command
  BY <1>1, LastToUndo DEF IInv, RepairInv, Canonical
<1>3. \/ Give(journal, d, "rollback_failed", "ROLLBACK_PARTIAL")
      \/ journal' = MarkRow(journal, d, "rolled_back") /\ (cmd' = cmd \/ cmd' = [pc |-> "undo", current |-> nav])
      \/ journal' = journal /\ cmd' = [cmd EXCEPT !.pc = "undone"]
  BY DEF UndoReread, UndoRow, Reread, PatchRow, Append
<1> HIDE DEF d
<1>4. CASE Give(journal, d, "rollback_failed", "ROLLBACK_PARTIAL")
  BY <1>2, <1>4, SameJournal, GiveCanonical DEF RowStatuses
<1>5. CASE journal' = MarkRow(journal, d, "rolled_back") /\ (cmd' = cmd \/ cmd' = [pc |-> "undo", current |-> nav])
  <2>1. SameRows(journal') /\ journal'.state = journal.state
    BY <1>2, <1>5, SameJournal, MarkedRows DEF RowStatuses
  <2>2. cmd'.pc \notin {"apply", "applied"}
    BY <1>1, <1>5
  <2>3. QED
    BY <2>1, <2>2, AsideCanonical
<1>6. CASE journal' = journal /\ cmd' = [cmd EXCEPT !.pc = "undone"]
  <2>1. cmd'.pc = "undone"
    BY <1>2, <1>6 DEF Command
  <2>2. QED
    BY <1>6, <2>1, AsideCanonical
<1>7. QED
  BY <1>3, <1>4, <1>5, <1>6

LEMMA FinishCanonical ==
    ASSUME IInv, Canonical,
           Finish("apply", Pending, "COMPLETED") \/ Finish("undo", ToUndo, "ROLLED_BACK")
    PROVE  Canonical' /\ Completes
<1>1. Journal /\ Planned /\ Targets \subseteq Dates
  BY DEF IInv, RepairInv, Journal, Canonical
<1>2. cmd'.pc \notin {"apply", "applied"}
  BY DEF Finish, Leave, NoCommand
<1>3. CASE Finish("undo", ToUndo, "ROLLED_BACK")
  <2>1. journal' = [journal EXCEPT !.state = "ROLLED_BACK"]
    BY <1>3 DEF Finish, Append
  <2>2. SameRows(journal') /\ journal'.state = "ROLLED_BACK"
    BY <1>1, <2>1, SameJournal, StateRows
  <2>3. QED
    BY <1>2, <2>2, AsideCanonical
<1>4. CASE Finish("apply", Pending, "COMPLETED")
  <2>1. cmd.pc = "apply" /\ Pending = {} /\ journal' = [journal EXCEPT !.state = "COMPLETED"]
    BY <1>4 DEF Finish, Append
  <2>2. SameRows(journal')
    BY <1>1, <2>1, SameJournal, StateRows
  <2>3. Planned'
    BY <1>1, <2>2, JournalKeepsPlan
  <2>4. Intact(cmd.current) /\ \A d \in Targets : Shows(cmd.current[d], d, journal.rows[d].want)
    BY <2>1 DEF Canonical, Marked, Applied, Pending
  <2>5. \A d \in Targets : cmd.current[d].base = Calculated(cmd.current, d)
    BY <1>1, <2>4, ReadIsCalculated
  <2>6. QED
    BY <1>2, <2>3, <2>5 DEF Canonical, Marked, Completes
<1>5. QED
  BY <1>3, <1>4

LEMMA CanonicalStep ==
    ASSUME IInv, Canonical, RepairNext
    PROVE  Canonical' /\ Completes
<1>1. CASE Next /\ UNCHANGED repairVars
  BY <1>1, OnlyPeople, StillCanonical
<1>2. ASSUME NEW targets \in (SUBSET Dates) \ {{}}, Plan(targets)
      PROVE  Canonical' /\ Completes
  <2>1. Planned'
    BY <1>2, PlanIsDerived
  <2>2. cmd'.pc = "planned" /\ journal'.state = "PLANNED"
    BY <1>2 DEF Plan, NoCommand, Append
  <2>3. QED
    BY <2>1, <2>2 DEF Canonical, Marked, Completes
<1>3. CASE Start \/ Resume
  BY <1>3, ApplyCanonical DEF Start, Resume
<1>4. CASE Rollback
  <2>1. journal' = [journal EXCEPT !.state = "ROLLING_BACK"] /\ cmd'.pc = "undo" /\ Journal
    BY <1>4 DEF Rollback, Append, IInv, RepairInv
  <2>2. SameRows(journal') /\ journal'.state = "ROLLING_BACK"
    BY <2>1, SameJournal, StateRows
  <2>3. QED
    BY <2>1, <2>2, AsideCanonical
<1>5. CASE RepairCrash
  <2>1. journal' = journal /\ cmd'.pc = "idle"
    BY <1>5 DEF RepairCrash, NoCommand
  <2>2. QED
    BY <2>1, AsideCanonical
<1>6. CASE \E o \in Outcomes : ApplyRow(o)
  BY <1>6, ApplyRowCanonical
<1>7. CASE UndoReread \/ \E o \in Outcomes : UndoRow(o)
  BY <1>7, UndoCanonical
<1>8. CASE ApplyReread
  BY <1>8, ApplyRereadCanonical
<1>9. CASE Finish("apply", Pending, "COMPLETED") \/ Finish("undo", ToUndo, "ROLLED_BACK")
  BY <1>9, FinishCanonical
<1>10. QED
  BY <1>1, <1>2, <1>3, <1>4, <1>5, <1>6, <1>7, <1>8, <1>9 DEF RepairNext

LEMMA CanonicalAtFirst ==
    ASSUME RepairInit
    PROVE  Canonical
<1>1. journal = NoJournal /\ cmd = NoCommand
  BY DEF RepairInit
<1>2. Targets = {}
  BY <1>1 DEF Targets, NoJournal
<1>3. QED
  BY <1>1, <1>2 DEF Canonical, Planned, Marked, NoCommand

LEMMA CanonicalInvariant == RepairSpec => [](IInv /\ Canonical)
<1>1. RepairInit => Canonical
  BY CanonicalAtFirst
<1>2. IInv /\ Canonical /\ [RepairNext]_allVars => Canonical'
  <2> SUFFICES ASSUME IInv, Canonical, [RepairNext]_allVars  PROVE Canonical'
    OBVIOUS
  <2>1. CASE RepairNext
    BY <2>1, CanonicalStep
  <2>2. CASE UNCHANGED allVars
    <3>1. UNCHANGED repairVars /\ nav' = nav
      BY <2>2 DEF allVars, vars
    <3>2. QED
      BY <3>1, StillCanonical
  <2>3. QED
    BY <2>1, <2>2
<1>3. QED
  BY <1>1, <1>2, Invariant, PTL DEF RepairSpec

(* What the run types promise: whoever is past its preparation owns the     *)
(* account lock, ids are of one row, the journal carries the statuses that  *)
(* its state allows.                                                        *)
THEOREM TypeCorrect == RepairSpec => [](TypeOK /\ RepairTypeOK)
<1>1. IInv => TypeOK
  <2> SUFFICES ASSUME IInv  PROVE TypeOK
    OBVIOUS
  <2>1. RunInv /\ Table /\ Ids /\ Tasks /\ Hands /\ snap \in [Dates -> Slice]
    BY DEF IInv, RunInv, RunShapes
  <2>2. \A d \in Dates : nav[d] # None => nav[d].status \in {"legacy", "prepared", "failed", "complete"}
    BY <2>1 DEF Table, RowOf
  <2>3. \A r \in Runs : task[r].status \in Statuses
                        /\ (task[r].status \notin {"unused", "called"} => task[r].before \in Slice)
    BY <2>1 DEF Tasks, TaskOf
  <2>4. \A p \in Procs : (lock = p) = (proc[p].pc \in Steps)
                         /\ (proc[p].pc \in Steps => task[proc[p].run].status \in {"PREPARED", "PENDING", "RUNNING"})
    BY <2>1 DEF Hands, Holding, Begun
  <2>5. QED
    BY <2>1, <2>2, <2>3, <2>4 DEF TypeOK, Ids
<1>2. IInv => RepairTypeOK
  BY DEF IInv, RepairInv, Journal, Command, Entry, RepairTypeOK, Applying, RollingBack
<1>3. QED
  BY <1>1, <1>2, Invariant, PTL

(* nav_record_service.py: a row is marked complete after its slice was read *)
(* back, and a task is resolved after its row was: a complete row has       *)
(* exactly its slice, an incomplete one a task that can be retried.         *)
THEOREM RowsMatch == RepairSpec => []RowsMatchSlices
<1>1. IInv => RowsMatchSlices
  BY DEF IInv
<1>2. QED
  BY <1>1, Invariant, PTL

(* A slice is changed only for the task that the row of its date names.     *)
THEOREM SlicesFollowRows == RepairSpec => SliceFollowsRow
<1>1. IInv /\ [RepairNext]_allVars
        => \A d \in Dates : snap'[d] # snap[d] /\ nav[d] # None
             => \E p \in Procs : lock = p /\ proc[p].run = nav[d].task
  BY StepsKeep DEF SlicesFollow
<1>2. QED
  BY <1>1, Invariant, PTL DEF RepairSpec, SliceFollowsRow

(* patch.py: a repair is complete when every target was read as it is       *)
(* wanted, which is what the calculation gives on the rows read with it; it *)
(* writes over what its plan found or what it wrote itself only; and a      *)
(* rollback that is done leaves no trace of it.                             *)
THEOREM RepairSound == RepairSpec => RepairIsSound
<1>1. IInv /\ Canonical /\ [RepairNext]_allVars
        => (journal'.state = "COMPLETED" /\ journal.state # "COMPLETED"
              => \A d \in Targets : cmd.current[d].base = Calculated(cmd.current, d))
  <2> SUFFICES ASSUME IInv, Canonical, [RepairNext]_allVars  PROVE Completes
    BY DEF Completes
  <2>1. CASE RepairNext
    BY <2>1, CanonicalStep
  <2>2. CASE UNCHANGED allVars
    BY <2>2 DEF allVars, repairVars, Completes
  <2>3. QED
    BY <2>1, <2>2
<1>2. RepairSpec => CompletedIsCanonical
  BY <1>1, CanonicalInvariant, PTL DEF RepairSpec, CompletedIsCanonical
<1>3. IInv /\ [RepairNext]_allVars
        => (\A d \in Targets : lock = "repair" /\ nav'[d] # nav[d] /\ nav'[d] # None
             => \E fields \in {journal.rows[d].was, journal.rows[d].want} : Shows(nav[d], d, fields))
  BY StepsKeep DEF Careful, Known
<1>4. RepairSpec => NeverClobbers
  BY <1>3, Invariant, PTL DEF RepairSpec, NeverClobbers
<1>5. IInv => RollbackRestores
  <2> SUFFICES ASSUME IInv, journal.state = "ROLLED_BACK", NEW d \in Targets, nav[d] # None
               PROVE  ~ Shows(nav[d], d, journal.rows[d].want)
    BY DEF RollbackRestores
  <2>1. Journal /\ Traces
    BY DEF IInv, RepairInv
  <2>2. journal.rows[d].status = "rolled_back"
    BY <2>1 DEF Journal, ToUndo
  <2>3. nav[d].repaired = FALSE
    BY <2>1, <2>2 DEF Traces
  <2>4. journal.rows[d].want.repaired = TRUE
    BY <2>1 DEF Journal, Entry
  <2>5. Maintained(nav[d]).repaired = nav[d].repaired
    BY DEF Maintained
  <2>6. QED
    BY <2>3, <2>4, <2>5 DEF Shows
<1>6. RepairSpec => []RollbackRestores
  BY <1>5, Invariant, PTL
<1>7. QED
  BY <1>2, <1>4, <1>6, PTL DEF RepairIsSound
=============================================================================

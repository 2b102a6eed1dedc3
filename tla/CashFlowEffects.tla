-------------------------- MODULE CashFlowEffects ---------------------------
(***************************************************************************)
(* The workflow that carries external cash flows into the cash holdings:   *)
(* CashFlowEffectService over its SQLite store, the Feishu sheets it reads *)
(* and writes, and the compensation log it falls back on.                  *)
(*                                                                         *)
(* The sheets are edited by people at any moment.  A process is a command  *)
(* line run: the timer's scan, the operator's preview, confirm, retry and  *)
(* audit, or a NAV run, one remote call or SQLite transaction per step.    *)
(* scan and confirm hold the scanner lock, confirm and the compensation    *)
(* retry the account lock; preview, audit and the end of a retry hold      *)
(* none.  A process may die between any two steps.                         *)
(***************************************************************************)
EXTENDS CashFlowVersions

CONSTANTS
    Procs,          \* processes
    Roles,          \* what each process runs: subsets of Jobs
    ExternalActions,        \* external_action values an operator may pass, or "auto"
    Trades,         \* amounts by which an unrelated edit may change a holding
    Opening,        \* holdings when the store is initialised
    FirstDay,       \* where the calendar starts
    MaxEdits,       \* bound: edits of cash_flow rows
    MaxHands,       \* bound: edits of holdings by people
    MaxFaults,      \* bound: crashes and failed writes
    MaxNavs         \* bound: NAV runs

Jobs == {"scan", "nav", "operator", "audit"}

Rows == [Records -> Flows \cup {None}]

ASSUME ProcsAssumption == None \notin Procs \cup Amounts \cup Rows
ASSUME RolesAssumption == Roles \in [Procs -> SUBSET Jobs]
ASSUME ExternalActionsAssumption == ExternalActions \subseteq Actions \cup {"auto"}
ASSUME OpeningAssumption == Opening \in Amounts /\ Trades \subseteq Int
ASSUME FirstDayAssumption == FirstDay \in {"before", "open", "ready"}

VARIABLES
    flow,       \* cash_flow rows: Records -> Flows or None
    holding,    \* cash holdings: Ids -> amount
    eff,        \* effect versions of each record
    prints,     \* last_confirmed_amount of each identity
    ext,        \* last_confirmed_amount of the latest external change, or None
    lock,       \* holder of the scanner lock and of the account lock
    proc,       \* what each process has in hand
    day,        \* the scheduled date and the NAV before it
    contrib,    \* ghost: what the holdings contain of each record
    raced,      \* history: holdings edited between a compare and its write
    used        \* bounds used up

sheets == <<flow, holding, contrib, raced>>
store == <<eff, prints, ext>>
vars == <<flow, holding, eff, prints, ext, lock, proc, day, contrib, raced, used>>

Days == {"before", "open", "ready"}
Stages == {"idle", "scan_hold", "scan_commit", "nav_scan", "nav_gate", "nav_record",
           "pv_source", "pv_build", "pv_save", "correct", "insert",
           "cf_source", "cf_build", "cf_record", "cf_apply", "cf_write", "cf_put",
           "cf_read", "cf_task", "cf_pend", "cf_prints", "cf_applied", "recheck",
           "rt_apply", "rt_base", "rt_put", "rt_read", "rt_resolve", "rt_prints", "rt_applied"}

Idle == [at |-> "idle", job |-> None, r |-> None, n |-> 0, seen |-> None,
         row |-> None, rows |-> None, held |-> None, plan |-> None, new |-> None, todo |-> {}]

Init ==
    /\ flow = [r \in Records |-> None]
    /\ holding = Opening
    /\ eff = [r \in Records |-> <<>>]
    /\ prints = Opening
    /\ ext = [i \in Ids |-> None]
    /\ lock = [scanner |-> None, account |-> None]
    /\ proc = [p \in Procs |-> Idle]
    /\ day = FirstDay
    /\ contrib = [r \in Records |-> Zero]
    /\ raced = {}
    /\ used = [edits |-> 0, hands |-> 0, faults |-> 0, navs |-> 0]

-----------------------------------------------------------------------------
(* The sheets and the calendar.  A person enters, edits and deletes rows,   *)
(* types a flow into its holding by hand, or changes a holding for reasons  *)
(* of its own (a trade).                                                    *)
EditFlow(r, f) ==
    /\ used.edits < MaxEdits
    /\ f # flow[r]
    /\ flow[r] = None => eff[r] = <<>>
    /\ flow' = [flow EXCEPT ![r] = f]
    /\ used' = [used EXCEPT !.edits = @ + 1]
    /\ UNCHANGED <<holding, contrib, raced, store, lock, proc, day>>

Owed(r) == IF flow[r] = None THEN Zero ELSE Reflected(Live(flow[r]))

Operators == {p \in Procs : "operator" \in Roles[p]}

TypeIn(r) ==
    /\ used.hands < MaxHands
    /\ \A p \in Operators : proc[p].at = "idle"
    /\ contrib[r] # Owed(r)
    /\ holding' = [i \in Ids |-> holding[i] - contrib[r][i] + Owed(r)[i]]
    /\ contrib' = [contrib EXCEPT ![r] = Owed(r)]
    /\ used' = [used EXCEPT !.hands = @ + 1]
    /\ UNCHANGED <<flow, raced, store, lock, proc, day>>

(* The processes that have compared holding i and are about to write it.    *)
About(i) == {p \in Procs : proc[p].at \in {"cf_put", "rt_put"} /\ Min(proc[p].todo) = i}

Trade(i, amount) ==
    /\ used.hands < MaxHands
    /\ holding' = [holding EXCEPT ![i] = @ + amount]
    /\ raced' = raced \cup {<<proc[p].r, i>> : p \in About(i)}
    /\ used' = [used EXCEPT !.hands = @ + 1]
    /\ UNCHANGED <<flow, contrib, store, lock, proc, day>>

DayPasses ==
    /\ day # "ready"
    /\ day' = IF day = "before" THEN "open" ELSE "ready"
    /\ UNCHANGED <<sheets, store, lock, proc, used>>

-----------------------------------------------------------------------------
Released(p) == [k \in DOMAIN lock |-> IF lock[k] = p THEN None ELSE lock[k]]

Leave(p) == lock' = Released(p) /\ proc' = [proc EXCEPT ![p] = Idle]

Goto(p, stage) == proc' = [proc EXCEPT ![p].at = stage]

Free(p, job) == proc[p].at = "idle" /\ job \in Roles[p]

(* scan(): the scanner lock, the rows, then the holdings, then one          *)
(* transaction.  A NAV run hands the scan the rows its dataset has frozen   *)
(* before the lock is taken.                                                *)
ScanStart(p) ==
    /\ Free(p, "scan")
    /\ lock.scanner = None
    /\ lock' = [lock EXCEPT !.scanner = p]
    /\ proc' = [proc EXCEPT ![p].at = "scan_hold", ![p].job = "scan", ![p].rows = flow]
    /\ UNCHANGED <<sheets, store, day, used>>

NavStart(p) ==
    /\ Free(p, "nav")
    /\ used.navs < MaxNavs
    /\ used' = [used EXCEPT !.navs = @ + 1]
    /\ proc' = [proc EXCEPT ![p].at = "nav_scan", ![p].job = "nav", ![p].rows = flow]
    /\ UNCHANGED <<sheets, store, lock, day>>

NavScan(p) ==
    /\ proc[p].at = "nav_scan"
    /\ lock.scanner = None
    /\ lock' = [lock EXCEPT !.scanner = p]
    /\ Goto(p, "scan_hold")
    /\ UNCHANGED <<sheets, store, day, used>>

ScanHoldings(p) ==
    /\ proc[p].at = "scan_hold"
    /\ proc' = [proc EXCEPT ![p].at = "scan_commit", ![p].held = holding]
    /\ UNCHANGED <<sheets, store, lock, day, used>>

CommitScan(p) ==
    LET new     == Scanned(eff, proc[p].rows, day)
        drifted == AcceptedDrift(new, prints, proc[p].held)
    IN  /\ proc[p].at = "scan_commit"
        /\ eff' = new
        /\ prints' = [i \in Ids |-> IF i \in drifted THEN proc[p].held[i] ELSE prints[i]]
        /\ ext' = [i \in Ids |-> IF i \in drifted THEN prints[i] ELSE ext[i]]
        /\ lock' = Released(p)
        /\ proc' = [proc EXCEPT ![p] = IF @.job = "nav"
                                       THEN [Idle EXCEPT !.at = "nav_gate", !.job = "nav"]
                                       ELSE Idle]
        /\ UNCHANGED <<sheets, day, used>>

(* Mutant: a confirm under way blocks nothing.                              *)
Blockers_NotApplying == {r \in OpenRecords(eff) :
                           ~ \/ Latest(eff[r]).state = "applying"
                             \/ Latest(eff[r]).state = "scheduled" /\ day = "before"}

(* _is_nav_blocker                                                          *)
Blockers == {r \in OpenRecords(eff) :
               ~ (Latest(eff[r]).state = "scheduled" /\ day = "before")}

NavGate(p) ==
    /\ proc[p].at = "nav_gate"
    /\ IF Blockers = {} THEN Goto(p, "nav_record") ELSE proc' = [proc EXCEPT ![p] = Idle]
    /\ UNCHANGED <<sheets, store, lock, day, used>>

RecordNav(p) ==
    /\ proc[p].at = "nav_record"
    /\ lock.account = None
    /\ proc' = [proc EXCEPT ![p] = Idle]
    /\ UNCHANGED <<sheets, store, lock, day, used>>

-----------------------------------------------------------------------------
(* preview() starts from the latest version as the store has it now.        *)
PreviewStart(p, r) ==
    /\ Free(p, "operator")
    /\ eff[r] # <<>>
    /\ proc' = [proc EXCEPT ![p].at = "pv_source", ![p].job = "preview", ![p].r = r,
                            ![p].n = Len(eff[r]), ![p].seen = Latest(eff[r]).state]
    /\ UNCHANGED <<sheets, store, lock, day, used>>

(* _current_cash_flow_source: the row is read, and only the next step       *)
(* writes the correction.  A compensation_pending version defers it.        *)
ReadSource(p) ==
    LET x       == proc[p]
        current == CurrentSource(eff[x.r], x.n, flow[x.r])
        moved   == current # eff[x.r][x.n].src /\ x.seen # "compensation_pending"
    IN  /\ x.at \in {"pv_source", "cf_source", "recheck"}
        /\ IF moved
           THEN proc' = [proc EXCEPT ![p].at = "correct", ![p].row = flow[x.r]]
                /\ UNCHANGED lock
           ELSE IF x.at # "recheck" /\ x.seen \in Previewable
           THEN Goto(p, IF x.at = "pv_source" THEN "pv_build" ELSE "cf_build")
                /\ UNCHANGED lock
           ELSE Leave(p)
        /\ UNCHANGED <<sheets, store, day, used>>

(* create_version, outside a transaction of its own: the latest version is  *)
(* read, and only the INSERT begins one.  The latest version becomes        *)
(* superseded if it was read unresolved, whatever it is by now; a version   *)
(* created in between breaks the unique index and with it the command.      *)
Correct(p) ==
    LET x   == proc[p]
        new == Correction(eff[x.r], x.n, x.seen, x.row, day)
    IN  /\ x.at = "correct"
        /\ IF Latest(eff[x.r]).src = new.src
           THEN Leave(p)
           ELSE /\ proc' = [proc EXCEPT
                      ![p] = [Idle EXCEPT !.at = "insert", !.r = x.r, !.n = Len(eff[x.r]),
                                          !.seen = Latest(eff[x.r]).state, !.new = new]]
                /\ UNCHANGED lock
        /\ UNCHANGED <<sheets, store, day, used>>

Insert(p) ==
    LET x   == proc[p]
        old == IF x.seen \in Unresolved
               THEN [eff[x.r] EXCEPT ![x.n].state = "superseded"] ELSE eff[x.r]
    IN  /\ x.at = "insert"
        /\ eff' = IF Len(eff[x.r]) = x.n THEN [eff EXCEPT ![x.r] = Append(old, x.new)] ELSE eff
        /\ Leave(p)
        /\ UNCHANGED <<sheets, prints, ext, day, used>>

(* An operator who passes an external_action says something of the holding  *)
(* he is shown: that it does not contain the flow yet (beyond what an       *)
(* earlier version applied), or that it does.  Where a write has swallowed  *)
(* an edit, the holding says neither.                                       *)
Truthful(r, n, choice) ==
    \A i \in {j \in Ids : <<r, j>> \notin raced} :
      CASE choice = "apply_delta" -> contrib[r][i] = Previous(eff[r], n)[i]
        [] choice = "already_reflected" -> contrib[r][i] = Reflected(eff[r][n].src)[i]
        [] OTHER -> TRUE

PreviewBuild(p) ==
    LET x == proc[p]
    IN  /\ x.at = "pv_build"
        /\ \/ \E choice \in ExternalActions :
                /\ Truthful(x.r, x.n, choice)
                /\ proc' = [proc EXCEPT
                      ![p].at = "pv_save",
                      ![p].plan = Plan(eff[x.r], x.n, choice, prints, ext, holding)]
           \/ Goto(p, "pv_save")    \* a read failed
        /\ UNCHANGED <<sheets, store, lock, day, used>>

(* Mutant: the plan is saved whatever has become of the version.            *)
PreviewSave_AnyState(p) ==
    LET x == proc[p]
    IN  /\ x.at = "pv_save"
        /\ eff' = [eff EXCEPT ![x.r][x.n].state = IF x.plan = None THEN "blocked" ELSE "previewed",
                              ![x.r][x.n].plan = x.plan]
        /\ Leave(p)
        /\ UNCHANGED <<sheets, prints, ext, day, used>>

PreviewSave(p) ==
    LET x == proc[p]
    IN  /\ x.at = "pv_save"
        /\ eff' = IF eff[x.r][x.n].state \notin Previewable THEN eff
                  ELSE IF x.plan = None THEN [eff EXCEPT ![x.r][x.n].state = "blocked"]
                  ELSE [eff EXCEPT ![x.r][x.n].state = "previewed", ![x.r][x.n].plan = x.plan]
        /\ Leave(p)
        /\ UNCHANGED <<sheets, prints, ext, day, used>>

-----------------------------------------------------------------------------
(* confirm(): the operator repeats the plan he was shown, under the scanner *)
(* and the account lock.                                                    *)
ConfirmStart(p, r) ==
    /\ Free(p, "operator")
    /\ lock = [scanner |-> None, account |-> None]
    /\ eff[r] # <<>>
    /\ Latest(eff[r]).plan # None
    /\ lock' = [scanner |-> p, account |-> p]
    /\ proc' = [proc EXCEPT ![p].at = "cf_source", ![p].job = "confirm", ![p].r = r,
                            ![p].n = Len(eff[r]), ![p].seen = Latest(eff[r]).state,
                            ![p].plan = Latest(eff[r]).plan]
    /\ UNCHANGED <<sheets, store, day, used>>

(* The plan is computed again from fresh reads; one that differs from the   *)
(* operator's makes the version stale.                                      *)
ConfirmBuild(p) ==
    LET x   == proc[p]
        v   == eff[x.r][x.n]
        now == Plan(eff[x.r], x.n, x.plan.choice, prints, ext, holding)
    IN  /\ x.at = "cf_build"
        /\ \/ /\ now \notin {None, x.plan}
              /\ eff' = IF v.state \in Previewable
                        THEN [eff EXCEPT ![x.r][x.n].state = "stale"] ELSE eff
              /\ Leave(p)
           \/ /\ now = None \/ (v.mode = "apply" /\ ~ Ready(v.src.when, day))
              /\ now \in {None, x.plan}
              /\ Leave(p)
              /\ UNCHANGED eff
           \/ /\ now = x.plan
              /\ v.mode = "apply" => Ready(v.src.when, day)
              /\ Goto(p, IF v.mode = "apply" THEN "cf_apply" ELSE "cf_record")
              /\ UNCHANGED <<eff, lock>>
        /\ UNCHANGED <<sheets, prints, ext, day, used>>

ConfirmRecordOnly(p) ==
    LET x == proc[p]
    IN  /\ x.at = "cf_record"
        /\ eff' = IF eff[x.r][x.n].state = "previewed"
                  THEN [eff EXCEPT ![x.r][x.n].state = "record_only"] ELSE eff
        /\ Leave(p)
        /\ UNCHANGED <<sheets, prints, ext, day, used>>

(* The holdings are read once more, then the version becomes "applying".    *)
ConfirmApplying(p) ==
    LET x  == proc[p]
        ok == /\ \A i \in Named(x.plan.before) : holding[i] = x.plan.before[i]
              /\ eff[x.r][x.n].state = "previewed"
    IN  /\ x.at = "cf_apply"
        /\ IF ok
           THEN /\ eff' = [eff EXCEPT ![x.r][x.n].state = "applying"]
                /\ proc' = [proc EXCEPT ![p].at = "cf_write",
                                        ![p].todo = Named(x.plan.before)]
                /\ UNCHANGED lock
           ELSE Leave(p) /\ UNCHANGED eff
        /\ UNCHANGED <<sheets, prints, ext, day, used>>

(* One write of the system for version n of record r: the ghost follows.    *)
Write(r, i, target) ==
    /\ holding' = [holding EXCEPT ![i] = target]
    /\ contrib' = [contrib EXCEPT ![r][i] = @ + target - holding[i]]

Fault == used.faults < MaxFaults /\ used' = [used EXCEPT !.faults = @ + 1]

(* replace_holding, first half: the row is read afresh and must be the      *)
(* plan's `before`; a read that fails ends the loop as well.                *)
WriteTarget(p) ==
    LET x     == proc[p]
        i     == Min(x.todo)
        whole == Target(eff[x.r], x.n, x.plan, i) = x.plan.before[i]
    IN  /\ x.at = "cf_write"
        /\ \/ whole /\ Goto(p, "cf_read") /\ UNCHANGED used
           \/ /\ ~ whole
              /\ Goto(p, IF holding[i] = x.plan.before[i] THEN "cf_put" ELSE "cf_task")
              /\ UNCHANGED used
           \/ ~ whole /\ Goto(p, "cf_task") /\ Fault
        /\ UNCHANGED <<sheets, store, lock, day>>

(* Second half: the sheet takes the write whatever it holds by now.  An     *)
(* error may come before the write has reached it or after.                 *)
PutTarget(p) ==
    LET x == proc[p]
        i == Min(x.todo)
    IN  /\ x.at = "cf_put"
        /\ \/ /\ Write(x.r, i, Target(eff[x.r], x.n, x.plan, i))
              /\ \/ Goto(p, "cf_read") /\ UNCHANGED used
                 \/ Goto(p, "cf_task") /\ Fault
           \/ Goto(p, "cf_task") /\ Fault /\ UNCHANGED <<holding, contrib>>
        /\ UNCHANGED <<flow, raced, store, lock, day>>

(* Mutant: the first target that reads back ends the loop.                  *)
ReadBack_FirstOnly(p) ==
    LET x == proc[p]
    IN  /\ x.at = "cf_read"
        /\ Goto(p, IF holding[Min(x.todo)] # Target(eff[x.r], x.n, x.plan, Min(x.todo))
                   THEN "cf_task" ELSE "cf_prints")
        /\ UNCHANGED <<sheets, store, lock, day, used>>

ReadBack(p) ==
    LET x    == proc[p]
        i    == Min(x.todo)
        rest == x.todo \ {i}
    IN  /\ x.at = "cf_read"
        /\ IF holding[i] # Target(eff[x.r], x.n, x.plan, i)
           THEN Goto(p, "cf_task")
           ELSE proc' = [proc EXCEPT ![p].at = IF rest = {} THEN "cf_prints" ELSE "cf_write",
                                     ![p].todo = rest]
        /\ UNCHANGED <<sheets, store, lock, day, used>>

Planned(x) ==
    [i \in Ids |-> IF i \in Named(x.plan.before)
                   THEN Target(eff[x.r], x.n, x.plan, i) ELSE None]

(* compensation.record appends the task to its log, then the version        *)
(* becomes compensation_pending.                                            *)
RecordTask(p) ==
    LET x == proc[p]
    IN  /\ x.at = "cf_task"
        /\ eff' = [eff EXCEPT ![x.r][x.n].task =
                     [status |-> "open",
                      before |-> x.plan.before,
                      targets |-> Planned(x)]]
        /\ Goto(p, "cf_pend")
        /\ UNCHANGED <<sheets, prints, ext, lock, day, used>>

ConfirmPending(p) ==
    LET x == proc[p]
    IN  /\ x.at = "cf_pend"
        /\ eff' = IF eff[x.r][x.n].state = "applying"
                  THEN [eff EXCEPT ![x.r][x.n].state = "compensation_pending"] ELSE eff
        /\ Leave(p)
        /\ UNCHANGED <<sheets, prints, ext, day, used>>

(* The fingerprints of what has been read back (one transaction each, taken *)
(* together here), then the state, which update_effect changes from the     *)
(* state it expects and from no other.                                      *)
ConfirmPrints(targets) ==
    /\ prints' = [i \in Ids |-> IF i \in Named(targets) THEN targets[i] ELSE prints[i]]
    /\ UNCHANGED <<sheets, eff, ext, day, used>>

ConfirmPrinted(p) ==
    /\ proc[p].at = "cf_prints"
    /\ ConfirmPrints(Planned(proc[p]))
    /\ Goto(p, "cf_applied")
    /\ UNCHANGED lock

MarkApplied(p, expected) ==
    LET x == proc[p]
    IN  /\ IF eff[x.r][x.n].state = expected
           THEN /\ eff' = [eff EXCEPT ![x.r][x.n].state = "applied"]
                /\ proc' = [proc EXCEPT ![p].at = "recheck", ![p].seen = "applied"]
                /\ UNCHANGED lock
           ELSE Leave(p) /\ UNCHANGED eff
        /\ UNCHANGED <<sheets, prints, ext, day, used>>

ConfirmApplied(p) == proc[p].at = "cf_applied" /\ MarkApplied(p, "applying")

-----------------------------------------------------------------------------
(* CompensationService.retry, started from an effect ("retry") or from the  *)
(* task itself ("task"): the account lock, then each recorded target.       *)
RetryStart(p, r, n, job) ==
    LET task == eff[r][n].task
    IN  /\ Free(p, "operator")
        /\ task # None
        /\ job = "retry" => eff[r][n].state = "compensation_pending"
        /\ lock.account = None
        /\ lock' = [lock EXCEPT !.account = p]
        /\ proc' = [proc EXCEPT
              ![p].at = IF task.status = "resolved" THEN "rt_resolve" ELSE "rt_apply",
              ![p].job = job, ![p].r = r, ![p].n = n,
              ![p].todo = IF task.status = "resolved" THEN {} ELSE Named(task.targets)]
        /\ UNCHANGED <<sheets, store, day, used>>

(* _apply_holding_target, by its own reading of the row: there already, to  *)
(* be replaced, or a conflict.                                              *)
RetryVerdict(task, i, now) ==
    CASE now = task.targets[i] -> "reached"
      [] now # task.targets[i] /\ now = task.before[i] -> "set"
      [] OTHER -> "conflict"

RetryAdvance(p) ==
    LET rest == proc[p].todo \ {Min(proc[p].todo)}
    IN  /\ proc' = [proc EXCEPT ![p].at = IF rest = {} THEN "rt_resolve" ELSE "rt_apply",
                                ![p].todo = rest]
        /\ UNCHANGED lock

RetryTarget(p) ==
    LET x       == proc[p]
        verdict == RetryVerdict(eff[x.r][x.n].task, Min(x.todo), holding[Min(x.todo)])
    IN  /\ x.at = "rt_apply"
        /\ \/ verdict = "reached" /\ RetryAdvance(p)
           \/ verdict = "set" /\ Goto(p, "rt_base") /\ UNCHANGED lock
           \/ verdict = "conflict" /\ Leave(p)
        /\ UNCHANGED <<sheets, store, day, used>>

(* Mutant: whatever is there is overwritten.                                *)
RetryBase_Overwrite(p) ==
    /\ proc[p].at = "rt_base"
    /\ Goto(p, "rt_put")
    /\ UNCHANGED <<sheets, store, lock, day, used>>

(* replace_holding again: its own comparison, the write, and then the read  *)
(* back.  An error of any of them fails the retry; one that comes before    *)
(* the write has reached the sheet leaves what a Crash leaves.              *)
RetryBase(p) ==
    LET x == proc[p]
        i == Min(x.todo)
    IN  /\ x.at = "rt_base"
        /\ IF holding[i] = eff[x.r][x.n].task.before[i]
           THEN Goto(p, "rt_put") /\ UNCHANGED lock ELSE Leave(p)
        /\ UNCHANGED <<sheets, store, day, used>>

RetryPut(p) ==
    LET x == proc[p]
        i == Min(x.todo)
    IN  /\ x.at = "rt_put"
        /\ Write(x.r, i, eff[x.r][x.n].task.targets[i])
        /\ \/ Goto(p, "rt_read") /\ UNCHANGED <<lock, used>>
           \/ Leave(p) /\ Fault
        /\ UNCHANGED <<flow, raced, store, day>>

RetryRead(p) ==
    LET x == proc[p]
        i == Min(x.todo)
    IN  /\ x.at = "rt_read"
        /\ IF holding[i] = eff[x.r][x.n].task.targets[i] THEN RetryAdvance(p) ELSE Leave(p)
        /\ UNCHANGED <<sheets, store, day, used>>

RetryResolve(p) ==
    LET x == proc[p]
    IN  /\ x.at = "rt_resolve"
        /\ eff' = [eff EXCEPT ![x.r][x.n].task.status = "resolved"]
        /\ lock' = Released(p)
        /\ proc' = [proc EXCEPT ![p] = IF x.job = "retry" THEN [@ EXCEPT !.at = "rt_prints"]
                                       ELSE Idle]
        /\ UNCHANGED <<sheets, prints, ext, day, used>>

(* audit() finalizes a compensation_pending version whose task is resolved. *)
AuditStart(p, r) ==
    /\ Free(p, "audit")
    /\ eff[r] # <<>>
    /\ Latest(eff[r]).state = "compensation_pending"
    /\ Latest(eff[r]).task.status = "resolved"
    /\ proc' = [proc EXCEPT ![p].at = "rt_prints", ![p].job = "audit", ![p].r = r,
                            ![p].n = Len(eff[r])]
    /\ UNCHANGED <<sheets, store, lock, day, used>>

(* _finalize_compensation_if_resolved: every target must read back; the     *)
(* ones before the first that does not are confirmed.                       *)
FinalizePrints(p) ==
    LET targets == eff[proc[p].r][proc[p].n].task.targets
        differ  == {i \in Named(targets) : holding[i] # targets[i]}
        proven  == {i \in Named(targets) : \A j \in differ : i < j}
    IN  /\ proc[p].at = "rt_prints"
        /\ ConfirmPrints([i \in Ids |-> IF i \in proven THEN targets[i] ELSE None])
        /\ IF differ = {} THEN Goto(p, "rt_applied") /\ UNCHANGED lock ELSE Leave(p)

FinalizeApplied(p) ==
    proc[p].at = "rt_applied" /\ MarkApplied(p, "compensation_pending")

-----------------------------------------------------------------------------
(* A process dies, or a remote read of its ends the command: its locks go,  *)
(* what it has written stays.                                               *)
Crash(p) ==
    /\ proc[p].at # "idle"
    /\ Fault
    /\ Leave(p)
    /\ UNCHANGED <<sheets, store, day>>

People ==
    \/ \E r \in Records, f \in Flows \cup {None} : EditFlow(r, f)
    \/ \E r \in Records : TypeIn(r)
    \/ \E i \in Ids, amount \in Trades : Trade(i, amount)

Command(p) ==
    \/ ScanStart(p) \/ NavStart(p)
    \/ \E r \in Records : PreviewStart(p, r) \/ ConfirmStart(p, r) \/ AuditStart(p, r)
    \/ \E r \in Records, job \in {"retry", "task"} :
         \E n \in 1 .. Len(eff[r]) : RetryStart(p, r, n, job)

Continue(p) ==
    \/ NavScan(p) \/ ScanHoldings(p) \/ CommitScan(p) \/ NavGate(p) \/ RecordNav(p)
    \/ ReadSource(p) \/ Correct(p) \/ Insert(p) \/ PreviewBuild(p) \/ PreviewSave(p)
    \/ ConfirmBuild(p) \/ ConfirmRecordOnly(p) \/ ConfirmApplying(p)
    \/ WriteTarget(p) \/ PutTarget(p) \/ ReadBack(p) \/ RecordTask(p) \/ ConfirmPending(p)
    \/ ConfirmPrinted(p) \/ ConfirmApplied(p)
    \/ RetryTarget(p) \/ RetryBase(p) \/ RetryPut(p) \/ RetryRead(p) \/ RetryResolve(p)
    \/ FinalizePrints(p) \/ FinalizeApplied(p)

Next ==
    \/ People
    \/ DayPasses
    \/ \E p \in Procs : Command(p) \/ Continue(p) \/ Crash(p)

(* A command runs to its end, and the timer scans every quarter of an hour. *)
(* A step that waits for a lock waits in flock, where the holders, which    *)
(* all let go of it, cannot overtake it for ever.                           *)
WaitForLock(p) == ScanStart(p) \/ NavScan(p) \/ RecordNav(p)

Fairness == \A p \in Procs : WF_vars(Continue(p)) /\ SF_vars(WaitForLock(p))

Spec == Init /\ [][Next]_vars /\ Fairness

-----------------------------------------------------------------------------
(* What a process carries from stage to stage.                               *)
Works == {"scan", "nav", "preview", "confirm", "retry", "task", "audit"}
Process == [at : Stages, job : Works \cup {None},
            r : Records \cup {None}, n : Nat, seen : States \cup {None},
            row : Flows \cup {None}, rows : Rows \cup {None},
            held : Amounts \cup {None}, plan : Plans \cup {None},
            new : Versions \cup {None}, todo : SUBSET Ids]

Scanning == {"nav_scan", "scan_hold", "scan_commit"}
Writes == {"cf_write", "cf_put", "cf_read"}
Confirms == {"cf_source", "cf_build", "cf_record", "cf_apply", "cf_task", "cf_pend",
             "cf_prints", "cf_applied"} \cup Writes
Rewrites == {"rt_apply", "rt_base", "rt_put", "rt_read"}
Retries == {"rt_resolve", "rt_prints"} \cup Rewrites
OnVersion == {"pv_source", "pv_build", "pv_save", "correct", "insert", "recheck", "rt_applied"}
             \cup Confirms \cup Retries

InHand(x) ==
    /\ x.at \in Scanning => x.rows # None
    /\ x.at = "scan_commit" => x.held # None
    /\ x.at \in OnVersion => x.r \in Records /\ x.n \in 1 .. Len(eff[x.r])
    /\ x.at \in {"pv_source", "cf_source", "recheck", "correct", "insert"} => x.seen # None
    /\ x.at = "insert" => x.new # None
    /\ x.at \in Confirms => x.plan # None
    /\ x.at \in Writes => x.todo # {} /\ x.todo \subseteq Named(x.plan.before)
    /\ x.at \in Retries \cup {"cf_pend"} => eff[x.r][x.n].task # None
    /\ x.at \in Rewrites => x.todo # {} /\ x.todo \subseteq Named(eff[x.r][x.n].task.targets)

(* Every row, version and process keeps its shape, and what a stage goes on  *)
(* with is there: the rows of a scan, the version a command works on, the   *)
(* plan of a confirm, the task of a compensation.                           *)
TypeOK ==
    /\ flow \in Rows
    /\ holding \in Amounts
    /\ eff \in [Records -> Seq(Versions)]
    /\ prints \in Amounts
    /\ ext \in [Ids -> Int \cup {None}]
    /\ lock \in [{"scanner", "account"} -> Procs \cup {None}]
    /\ proc \in [Procs -> Process]
    /\ day \in Days
    /\ contrib \in [Records -> Amounts]
    /\ raced \in SUBSET (Records \X Ids)
    /\ used \in [{"edits", "hands", "faults", "navs"} -> Nat]
    /\ \A p \in Procs : InHand(proc[p])
    /\ \A r \in Records : \A n \in 1 .. Len(eff[r]) :
         eff[r][n].state = "compensation_pending" => eff[r][n].task # None

(* Only the latest version of a record is open: no command that still holds *)
(* an older one can bring it back after a scan has superseded it.           *)
OneOpenVersion ==
    \A r \in Records : \A n \in 1 .. Len(eff[r]) - 1 :
        eff[r][n].state \in Settled

(* An applied version is what later deltas are computed against: nothing,   *)
(* however stale what it has read, takes it back.                           *)
AppliedIsFinal ==
    [][\A r \in Records : \A n \in 1 .. Len(eff[r]) :
         eff[r][n].state = "applied" => eff'[r][n].state = eff[r][n].state]_vars

(* No amount is applied twice or in part: whatever was edited, retried or   *)
(* interrupted before, a write of the system leaves the holding with        *)
(* exactly the amount of the version it is made for, unless somebody edits  *)
(* that holding between a comparison and the write that follows it          *)
(* (docs/cash-flow-holding-effects.md, section 11: not to be prevented).    *)
Writing(r) == {p \in Procs : proc[p].at \in {"cf_put", "rt_put"} /\ proc[p].r = r}

WriteCompletesFlow ==
    [][\A r \in Records, i \in Ids :
         contrib'[r][i] # contrib[r][i] /\ used'.hands = used.hands /\ <<r, i>> \notin raced
            => \E p \in Writing(r) :
                 contrib'[r][i] = Reflected(eff[r][proc[p].n].src)[i]]_vars

(* An open version is verified (fingerprints confirmed, "applied" next)     *)
(* only when the holdings contain exactly its flow: a part of a move that   *)
(* was not written, or an amount left behind on the identity an earlier     *)
(* version of the row named, would be out of anyone's sight from here on.   *)
(* The window of WriteCompletesFlow is left out here as well.               *)
Verifies(p) == /\ proc[p].at \in {"cf_prints", "rt_prints"}
               /\ proc'[p].at \in {"cf_applied", "rt_applied"}
               /\ eff[proc[p].r][proc[p].n].state \in {"applying", "compensation_pending"}

VerifiedMeansIncluded ==
    [][\A p \in Procs : Verifies(p) =>
         LET r  == proc[p].r
             vs == eff[r]
             n  == proc[p].n
         IN  \A i \in {vs[m].src.id : m \in 1 .. n} :
                <<r, i>> \notin raced => contrib[r][i] = Reflected(vs[n].src)[i]]_vars

(* docs/cash-flow-holding-effects.md, section 12: a source that changes     *)
(* while a compensation is pending is deferred and must not replace the     *)
(* current effect.                                                          *)
CompensationKept ==
    [][\A r \in Records : \A n \in 1 .. Len(eff[r]) :
         eff[r][n].state = "compensation_pending"
            => eff'[r][n].state \in {"compensation_pending", "applied"}]_vars

(* Section 7: while the targets of a compensation are outstanding, their    *)
(* holdings are the compensation's alone.                                   *)
Outstanding(r) ==
    IF IsOpen(eff[r]) /\ Latest(eff[r]).state = "compensation_pending"
                      /\ Latest(eff[r]).task.status = "open"
    THEN Named(Latest(eff[r]).task.targets) ELSE {}

CompensationOwnsHolding ==
    [][\A r \in Records : \A s \in Records \ {r}, i \in Outstanding(r) :
         used'.hands = used.hands => contrib'[s][i] = contrib[s][i]]_vars

(* The gate evaluates without a lock: it never lets a NAV through while a   *)
(* confirm is between its first and its last write.                         *)
Applying == {p \in Procs : proc[p].at \in {"cf_write", "cf_put", "cf_read", "cf_task", "cf_pend",
                                           "cf_prints", "cf_applied"}}

GateBlocksWhileApplying ==
    [][\A p \in Procs :
         proc[p].at = "nav_gate" /\ proc'[p].at = "nav_record" => Applying = {}]_vars

(* Every edit of a row is found and every date that comes is noticed: once  *)
(* people stop editing, the latest version carries the row as it is and     *)
(* does not stay scheduled, or a compensation holds it back.                *)
Carries(r) ==
    IF eff[r] = <<>> THEN flow[r] = None
    ELSE LET v == Latest(eff[r])
         IN  \/ v.state = "compensation_pending"
             \/ /\ v.src = CurrentSource(eff[r], Len(eff[r]), flow[r])
                /\ v.state = "scheduled" => day # "ready"

SourceCatchesUp == <>[](\A r \in Records : Carries(r))

(* Section 7: an authorised write is never taken for an external change. A  *)
(* drift is only accepted when a person has changed a holding.              *)
NoInventedDrift == [][used.hands = 0 => ext' = ext]_vars

(* Section 7: the deletion of a row that has been applied asks for its      *)
(* reversal.                                                                *)
DeletionReverses ==
    \A r \in Records : \A n \in 1 .. Len(eff[r]) :
        /\ IsDeletion(eff[r][n].src)
        /\ Previous(eff[r], n) # Zero
        => eff[r][n].mode = "apply"
=============================================================================

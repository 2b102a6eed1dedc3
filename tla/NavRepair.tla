------------------------------- MODULE NavRepair -------------------------------
(***************************************************************************)
(* The repair of derived NAV fields (maintenance/nav_history_repair,       *)
(* patch.py and common.py) beside the runs that record NAVs: a plan made   *)
(* from fresh rows without a lock, its journal on disk, the application    *)
(* under the account lock with a comparison before and a read after every  *)
(* remote patch, its resumption and its rollback.                          *)
(*                                                                         *)
(* A row's maintenance fields are what the calculation derives from the    *)
(* row before it (base) and its details (task, status, the trace of a      *)
(* repair); its value is the fact that no repair changes.  One repair is   *)
(* modelled, by one command at a time; "repair" owns the locks for it.     *)
(* What a step appends to the journal is one step, which a crash may leave *)
(* out, with a torn line at the end of the file.                           *)
(***************************************************************************)
EXTENDS NavRun

VARIABLES
    journal,    \* the journal of the repair: state, rows, dependencies
    torn,       \* the file ends in a torn line
    readable,   \* every other line of it can be parsed
    cmd         \* what the command is doing, and the rows it read last

repairVars == <<journal, torn, readable, cmd>>
allVars == <<vars, repairVars>>

NoJournal == [state |-> "none", rows |-> <<>>, deps |-> <<>>]
NoCommand == [pc |-> "idle", current |-> None]
Targets == DOMAIN journal.rows

(* The other fields are facts (BASE_FIELDS).                                *)
Maintained(row) == [base |-> row.base, task |-> row.task, status |-> row.status, repaired |-> row.repaired]

-----------------------------------------------------------------------------
(* Rows with their targets recomputed one after the other, each on those    *)
(* before it.                                                               *)
Chain(rows, targets) ==
    LET chain[d \in Dates] ==
          IF rows[d] = None THEN None
          ELSE [value |-> rows[d].value,
                base  |-> IF d \notin targets THEN rows[d].base
                          ELSE LET earlier == {e \in Dates : e < d /\ rows[e] # None}
                               IN  IF earlier = {} THEN None
                                   ELSE chain[CHOOSE e \in earlier : \A f \in earlier : f <= e]]
    IN  chain

(* Rows before the last target that are no targets are evidence.            *)
Dependencies(rows, targets) ==
    [d \in {e \in Dates \ targets : rows[e] # None /\ \E t \in targets : e < t}
        |-> [id |-> rows[d].id, value |-> rows[d].value, base |-> rows[d].base]]

PlanRows(rows, targets) ==
    [d \in targets |->
        [id |-> rows[d].id, value |-> rows[d].value, was |-> Maintained(rows[d]),
         want |-> [Maintained(rows[d]) EXCEPT !.base = Chain(rows, targets)[d].base, !.repaired = TRUE],
         status |-> "pending"]]

(* validate_scope "changed": the row after a changed target must be what    *)
(* the calculation gives on the repaired rows.                              *)
Violated(rows, targets) ==
    \E d \in Dates \ targets :
        /\ rows[d] # None
        /\ \E t \in targets : /\ t < d
                              /\ \A e \in Dates : t < e /\ e < d => rows[e] = None
        /\ rows[d].base # Previous(Chain(rows, targets), d)

(* _append_journal drops a torn line before it appends.                     *)
(* Mutant: it appends to it.                                                *)
Append_AfterTorn(j) ==
    /\ journal' = j
    /\ torn' = FALSE
    /\ readable' = (readable /\ ~ torn)

Append(j) ==
    /\ journal' = j
    /\ torn' = FALSE
    /\ UNCHANGED readable

Plan(targets) ==
    /\ cmd.pc = "idle"
    /\ journal.state = "none"
    /\ left.repairs > 0 /\ left' = [left EXCEPT !.repairs = @ - 1]
    /\ \A d \in targets : nav[d] # None
    /\ ~ Violated(nav, targets)
    /\ Append([state |-> "PLANNED", rows |-> PlanRows(nav, targets), deps |-> Dependencies(nav, targets)])
    /\ cmd' = [NoCommand EXCEPT !.pc = "planned"]
    /\ UNCHANGED <<nav, snap, task, proc, lock, index, ids>>

-----------------------------------------------------------------------------
(* _current_rows: the targets are the records they were, and the rows they  *)
(* depend on show what they showed.                                         *)
Intact(rows) ==
    /\ \A d \in Targets : rows[d] # None /\ rows[d].id = journal.rows[d].id
    /\ Dependencies(rows, Targets) = journal.deps

Shows(row, d, fields) == row.value = journal.rows[d].value /\ Maintained(row) = fields

(* Mutant: only the fields that the repair calculates are compared.         *)
Clean_CalculatedOnly(rows, d) == rows[d].value = journal.rows[d].value

(* What may be there before a row is patched, or was patched already.       *)
Clean(rows, d) ==
    \/ Shows(rows[d], d, journal.rows[d].want)
    \/ journal.rows[d].status # "applied" /\ Shows(rows[d], d, journal.rows[d].was)

MarkRow(j, d, status) == [j EXCEPT !.rows[d].status = status]

First(S) == CHOOSE d \in S : \A e \in S : d <= e
LastOf(S) == CHOOSE d \in S : \A e \in S : e <= d

Pending == {d \in Targets : journal.rows[d].status # "applied"}
ToUndo == {d \in Targets : journal.rows[d].status # "rolled_back"}

Leave ==
    /\ cmd' = NoCommand
    /\ lock' = None

(* A row fails: the journal says which, and PARTIAL.                        *)
Give(j, d, status, state) ==
    /\ Append([MarkRow(j, d, status) EXCEPT !.state = state])
    /\ Leave

(* Rows that show what the repair wrote are recovered, up to the first one  *)
(* that shows neither that nor what the plan found.                         *)
Recovered(bad) ==
    [journal EXCEPT !.rows = [d \in Targets |->
        IF (\A e \in bad : d < e) /\ Shows(nav[d], d, journal.rows[d].want)
        THEN [journal.rows[d] EXCEPT !.status = "applied"] ELSE journal.rows[d]]]

Apply ==
    LET bad == {d \in Targets : ~ Clean(nav, d)}
    IN  /\ lock = None
        /\ readable
        /\ journal.state \notin {"none", "ROLLING_BACK", "ROLLBACK_PARTIAL", "ROLLED_BACK"}
        /\ CASE ~ Intact(nav) ->
                  Give(journal, First(IF Pending = {} THEN Targets ELSE Pending), "failed", "PARTIAL")
             [] Intact(nav) /\ bad # {} ->
                  Give(Recovered(bad), First(bad), "failed", "PARTIAL")
             [] OTHER ->
                  /\ Append([Recovered({}) EXCEPT !.state = "APPLYING"])
                  /\ lock' = "repair"
                  /\ cmd' = [pc |-> "apply", current |-> nav]
        /\ UNCHANGED <<nav, snap, task, proc, index, ids, left>>

Start == cmd.pc = "planned" /\ Apply

(* The same rows are planned again: the digest of the plan must be that of  *)
(* the journal, which the rows that were applied do not change.             *)
SamePlan ==
    /\ \A d \in Targets : nav[d] # None
    /\ Dependencies(nav, Targets) = journal.deps
    /\ \A d \in Targets :
         LET now == PlanRows(nav, Targets)[d]
             row == journal.rows[d]
         IN  now.id = row.id /\ now.value = row.value /\ now.want = row.want

Resume == cmd.pc = "idle" /\ SamePlan /\ Apply

(* patch_nav_maintenance_fields refuses details whose snapshot evidence is  *)
(* complete; nothing is sent.                                               *)
Unpatchable(fields) == fields.status = "complete"

Patched(d, fields) ==
    [nav EXCEPT ![d] = [@ EXCEPT !.base = fields.base, !.task = fields.task,
                                 !.status = fields.status, !.repaired = fields.repaired]]

(* One remote patch of a row; a record that has gone is an error.           *)
PatchRow(pc, next, d, fields, o, status, state) ==
    /\ cmd.pc = pc
    /\ IF Unpatchable(fields) \/ nav[d] = None \/ nav[d].id # journal.rows[d].id
       THEN /\ ~ o.error
            /\ Give(journal, d, status, state)
            /\ UNCHANGED <<nav, left>>
       ELSE /\ nav' = IF o.landed THEN Patched(d, fields) ELSE nav
            /\ Charge(o)
            /\ IF o.error
               THEN Give(journal, d, status, state)
               ELSE /\ cmd' = [cmd EXCEPT !.pc = next]
                    /\ UNCHANGED <<journal, torn, readable, lock>>
    /\ UNCHANGED <<snap, task, proc, index, ids>>

ApplyRow(o) ==
    /\ Pending # {}
    /\ PatchRow("apply", "applied", First(Pending), journal.rows[First(Pending)].want, o, "failed", "PARTIAL")

(* Everything is read again, the next comparison is with this.              *)
Reread(pc, next, d, fields, done, status, state) ==
    /\ cmd.pc = pc
    /\ IF Intact(nav) /\ Shows(nav[d], d, fields)
       THEN /\ Append(MarkRow(journal, d, done))
            /\ cmd' = [pc |-> next, current |-> nav]
            /\ UNCHANGED lock
       ELSE Give(journal, d, status, state)
    /\ UNCHANGED <<nav, snap, task, proc, index, ids, left>>

ApplyReread ==
    Pending # {} /\ Reread("applied", "apply", First(Pending), journal.rows[First(Pending)].want,
                           "applied", "failed", "PARTIAL")

Finish(pc, rest, state) ==
    /\ cmd.pc = pc
    /\ rest = {}
    /\ Append([journal EXCEPT !.state = state])
    /\ Leave
    /\ UNCHANGED <<nav, snap, task, proc, index, ids, left>>

-----------------------------------------------------------------------------
(* The rollback, the last row first; a row that shows what the plan found   *)
(* needs no patch.                                                          *)
NeedsNoPatch(d) == Shows(cmd.current[d], d, journal.rows[d].was)

Rollback ==
    /\ cmd.pc = "idle"
    /\ lock = None
    /\ readable
    /\ journal.state \notin {"none", "ROLLED_BACK"}
    /\ Intact(nav)
    /\ Append([journal EXCEPT !.state = "ROLLING_BACK"])
    /\ lock' = "repair"
    /\ cmd' = [pc |-> "undo", current |-> nav]
    /\ UNCHANGED <<nav, snap, task, proc, index, ids, left>>

UndoRow(o) ==
    /\ ToUndo # {}
    /\ LET d == LastOf(ToUndo)
       IN  IF cmd.pc = "undo" /\ ~ (~ NeedsNoPatch(d) /\ Shows(cmd.current[d], d, journal.rows[d].want))
           THEN /\ ~ o.error
                /\ IF NeedsNoPatch(d)
                   THEN Append(MarkRow(journal, d, "rolled_back")) /\ UNCHANGED <<cmd, lock>>
                   ELSE Give(journal, d, "rollback_failed", "ROLLBACK_PARTIAL")
                /\ UNCHANGED <<nav, snap, task, proc, index, ids, left>>
           ELSE PatchRow("undo", "undone", d, journal.rows[d].was, o, "rollback_failed", "ROLLBACK_PARTIAL")

UndoReread ==
    ToUndo # {} /\ Reread("undone", "undo", LastOf(ToUndo), journal.rows[LastOf(ToUndo)].was,
                          "rolled_back", "rollback_failed", "ROLLBACK_PARTIAL")

(* External: the process dies, at worst in the middle of a line.            *)
RepairCrash ==
    /\ cmd.pc # "idle"
    /\ left.faults > 0
    /\ left' = [left EXCEPT !.faults = @ - 1]
    /\ torn' \in {torn, TRUE}
    /\ cmd' = NoCommand
    /\ lock' = IF lock = "repair" THEN None ELSE lock
    /\ UNCHANGED <<nav, snap, task, proc, index, ids, journal, readable>>

-----------------------------------------------------------------------------
RepairInit ==
    /\ Init
    /\ journal = NoJournal
    /\ torn = FALSE /\ readable = TRUE
    /\ cmd = NoCommand

Repair ==
    \/ Start
    \/ \E o \in Outcomes : ApplyRow(o) \/ UndoRow(o)
    \/ ApplyReread \/ UndoReread
    \/ Finish("apply", Pending, "COMPLETED") \/ Finish("undo", ToUndo, "ROLLED_BACK")

RepairNext ==
    \/ Next /\ UNCHANGED repairVars
    \/ \E targets \in (SUBSET Dates) \ {{}} : Plan(targets)
    \/ Resume \/ Rollback \/ RepairCrash
    \/ Start
    \/ \E o \in Outcomes : ApplyRow(o) \/ UndoRow(o)
    \/ ApplyReread \/ UndoReread
    \/ Finish("apply", Pending, "COMPLETED") \/ Finish("undo", ToUndo, "ROLLED_BACK")

Unsettled == journal.state \notin {"none", "COMPLETED", "ROLLED_BACK"}

(* A command goes on, and somebody rolls back what is not settled.          *)
RepairFairness ==
    /\ Fairness
    /\ WF_allVars(Repair)
    /\ SF_allVars(Start \/ (Unsettled /\ Rollback))

RepairSpec == RepairInit /\ [][RepairNext]_allVars /\ RepairFairness

-----------------------------------------------------------------------------
(* The command past its preparation owns the locks; rows carry the status   *)
(* that the state of the journal allows.                                    *)
RepairTypeOK ==
    /\ (lock = "repair") = (cmd.pc \notin {"idle", "planned"})
    /\ journal.state \in {"none", "PLANNED", "APPLYING", "PARTIAL", "COMPLETED",
                          "ROLLING_BACK", "ROLLBACK_PARTIAL", "ROLLED_BACK"}
    /\ \A d \in Targets : journal.rows[d].status \in {"pending", "applied", "failed", "rolled_back", "rollback_failed"}
    /\ journal.state = "COMPLETED" => Pending = {}
    /\ journal.state = "ROLLED_BACK" => ToUndo = {}

(* What the calculation gives the row of a date on rows as they are.        *)
Calculated(rows, d) ==
    LET earlier == {e \in Dates : e < d /\ rows[e] # None}
        last    == rows[LastOf(earlier)]
    IN  IF earlier = {} THEN None ELSE [value |-> last.value, base |-> last.base]

(* A repair is complete only when every target was last read as the         *)
(* calculation gives it on the rows read with it.                           *)
CompletedIsCanonical ==
    [][journal'.state = "COMPLETED" /\ journal.state # "COMPLETED"
         => \A d \in Targets : cmd.current[d].base = Calculated(cmd.current, d)]_allVars

(* patch.py:768, "immutable base fields" and complete states are compared:  *)
(* a repair writes only over what its plan found or what it wrote itself,   *)
(* never over what a run recorded since.                                    *)
NeverClobbers ==
    [][\A d \in Targets : lock = "repair" /\ nav'[d] # nav[d] /\ nav'[d] # None
         => \E fields \in {journal.rows[d].was, journal.rows[d].want} : Shows(nav[d], d, fields)]_allVars

(* When a rollback is done, no target shows what the repair wrote.          *)
RollbackRestores ==
    journal.state = "ROLLED_BACK"
      => \A d \in Targets : nav[d] # None /\ journal.rows[d].was # journal.rows[d].want
                              => ~ Shows(nav[d], d, journal.rows[d].want)

(* A repair is complete only with rows that the calculation gives, writes   *)
(* only over what its plan found or what it wrote itself, and leaves        *)
(* nothing of its own behind when it is rolled back.                        *)
RepairIsSound == CompletedIsCanonical /\ NeverClobbers /\ []RollbackRestores

(* Others have changed the rows that a rollback of the repair needs.        *)
Disturbed ==
    \/ ~ Intact(nav)
    \/ \E d \in Targets : \A fields \in {journal.rows[d].was, journal.rows[d].want} : ~ Shows(nav[d], d, fields)

(* What failed or died on the way can be brought to its end: the command    *)
(* that an incomplete row names finishes it, and a repair that is not       *)
(* complete can be rolled back.                                             *)
WorkEnds == []<>(~ Unfinished /\ (~ Unsettled \/ Disturbed))
=============================================================================

------------------------------ MODULE NavIndex ------------------------------
(***************************************************************************)
(* The NAV history table behind its repository: full writes planned on a   *)
(* fresh index under the table's lock, patches of single rows, and the     *)
(* index every process keeps in memory and in a file they share.           *)
(* (feishu/repositories/nav_history_repository.py, local_cache.py)         *)
(*                                                                         *)
(* One account.  Feishu has no unique key and no compare-and-set; a reply  *)
(* may be lost; people edit the table and its fields; a process may be     *)
(* restarted at any point.  A stage of a batch is one request.  Requests   *)
(* that land after their time-out are left out, and so is the deletion of  *)
(* a row, which nothing calls.                                             *)
(***************************************************************************)
EXTENDS Integers, FiniteSets

CONSTANTS Processes,
          Dates,
          Ids,      \* record ids, 1 .. n
          Details,  \* what the details of a row may hold: {"plain", "final"}
          Initial,  \* the tables the account may start with
          Bounds,   \* per scenario: how many writes, patches, edits, losses and restarts there may be
          None

VARIABLES table,  \* the rows of the account
          schema, \* the table has a field for the details
          view,   \* per process: the rows its copy of the index file holds, and `dirty`
          mem,    \* per process: the index in memory, [loaded, rows]
          disk,   \* the index file
          lock,   \* the process that holds the table's lock, or None
          op,     \* per process: the full write in progress
          left,
          landed, \* history: every state a row has had
          wrote,  \* history, per process since its start: what its full writes have told it they wrote
          hand    \* history: people have changed the "date" of a row, "spoiled" one during a write

vars == <<table, schema, view, mem, disk, lock, op, left, landed, wrote, hand>>

\* `ver` tells the states of the rows apart; `asked` is history: the details the
\* repository was asked to keep in the row.
Row(id, date, ver, det) == [id |-> id, date |-> date, ver |-> ver, det |-> det, asked |-> det, ok |-> TRUE]

State(r) == <<r.id, r.date, r.ver>>

NavRows == [id : Ids, date : Dates, ver : Nat, det : Details \union {None},
            asked : Details \union {None}, ok : BOOLEAN]

Twins(rows) == \E r, s \in rows : r.id # s.id /\ r.date = s.date

IndexAssumption ==
  /\ None \notin Processes
  /\ IsFiniteSet(Dates)
  /\ Bounds \subseteq [{"writes", "patches", "edits", "losses", "restarts"} -> Nat]
  /\ \A rows \in Initial :
       /\ rows \subseteq NavRows /\ ~Twins(rows)
       /\ \A r, s \in rows : r.id = s.id => r = s
       /\ \A r \in rows : r.asked = r.det

Unloaded == [loaded |-> FALSE, rows |-> {}]
Idle     == [step |-> "idle", batch |-> FALSE, rows |-> {}, updates |-> {}, creates |-> {}, done |-> {}]

Init ==
  /\ table \in Initial
  /\ schema = TRUE
  /\ view = [p \in Processes |-> [rows |-> {}, dirty |-> FALSE]]
  /\ mem = [p \in Processes |-> Unloaded]
  /\ disk = {}
  /\ lock = None
  /\ op = [p \in Processes |-> Idle]
  /\ left \in Bounds
  /\ landed = {State(r) : r \in table}
  /\ wrote = [p \in Processes |-> {}]
  /\ hand = {}

Spend(what) == left[what] > 0 /\ left' = [left EXCEPT ![what] = @ - 1]

\* A number no state of a row has yet: everything that writes one spends something.
Fresh == left.writes + left.patches + left.edits + left.losses + left.restarts

FreeId == CHOOSE i \in Ids : \A s \in landed : s[1] # i

-----------------------------------------------------------------------------
(* The index.                                                              *)

\* One row without a date, an identity or a number makes the account unreadable.
Readable == \A r \in table : r.ok

\* A read asks for every field of the contract; only the time of the last update
\* may be missing from the table.
Answers == schema

\* A fresh index replaces the one in memory, and the copy of the file.
Stored(p, keep) ==
  /\ mem' = [mem EXCEPT ![p] = [loaded |-> TRUE, rows |-> table]]
  /\ view' = IF keep THEN [view EXCEPT ![p] = [rows |-> table, dirty |-> TRUE]] ELSE view
  /\ UNCHANGED disk

\* Nothing that was known is trusted any more: the file is written without the account.
Cleared(p) ==
  /\ mem' = [mem EXCEPT ![p] = Unloaded]
  /\ view' = [view EXCEPT ![p] = [rows |-> {}, dirty |-> FALSE]]
  /\ disk' = {}

Forgotten(p) ==
  /\ mem' = [mem EXCEPT ![p] = Unloaded]
  /\ UNCHANGED <<view, disk>>

\* A forced read of the table.
Preloaded(p, keep) ==
  \/ Answers /\ Readable /\ Stored(p, keep)
  \/ Answers /\ ~Readable /\ Cleared(p)
  \/ ~Answers /\ UNCHANGED <<mem, view, disk>>

\* What a lookup answers from: the memory, else the copy of the file, else the table.
Known(p) ==
  CASE mem[p].loaded /\ mem[p].rows # {} -> mem[p].rows
    [] ~mem[p].loaded /\ view[p].rows # {} -> view[p].rows
    [] OTHER -> table

\* The rows a full write is planned on.  Mutation: those a lookup answers from.
Planned_Known(p) == Known(p)
Planned(p) == table

\* The copy of the file has a row per date once it is written to: of two rows of
\* a date one is dropped.
OneADay(rows) == {CHOOSE r \in rows : r.date = d : d \in {r.date : r \in rows}}

\* Mutation: the rows are put into the file's copy and stay in memory as they were read.
Applied_Kept(p, rows) ==
  LET kept == {r \in OneADay(view[p].rows) : \A s \in rows : s.date # r.date}
  IN /\ view' = [view EXCEPT ![p] = [rows |-> kept \union rows, dirty |-> FALSE]]
     /\ disk' = view'[p].rows
     /\ UNCHANGED mem

\* The rows of a write replace those of their dates in the copy of the file, the
\* file is written, and the memory is dropped.
Applied(p, rows) ==
  LET kept == {r \in OneADay(view[p].rows) : \A s \in rows : s.date # r.date}
  IN /\ view' = [view EXCEPT ![p] = [rows |-> kept \union rows, dirty |-> FALSE]]
     /\ disk' = view'[p].rows
     /\ mem' = [mem EXCEPT ![p] = Unloaded]

-----------------------------------------------------------------------------
(* A full write.                                                           *)

\* A row may only be written without its details if they do not say how final it is.
Droppable(rows) == \A r \in rows : r.det # "final"

Stripped(rows) == {[r EXCEPT !.det = None] : r \in rows}

\* What reaches the table when the field is missing: nothing, or rows without details.
Accepted(rows) == IF schema THEN rows ELSE Stripped(rows)

Refused(rows) == ~schema /\ ~Droppable(rows)

Written(rows) ==
  /\ table' = {r \in table : \A s \in rows : s.id # r.id} \union rows
  /\ landed' = landed \union {State(r) : r \in rows}

\* The rows the write wants, planned on the index: an update where the date has a row.
Plan(rows, dates, det) ==
  LET ids(d) == {r.id : r \in {x \in rows : x.date = d}}
      id(d)  == IF ids(d) = {} THEN FreeId ELSE CHOOSE i \in ids(d) : TRUE
  IN {Row(id(d), d, Fresh, det) : d \in dates}

Release == lock' = None

\* The index is read under the lock.  Two rows of a date, and an existing row that
\* must not be replaced, end the write.
StartWrite(p) ==
  /\ op[p].step = "idle" /\ lock = None /\ Spend("writes")
  /\ Preloaded(p, TRUE)
  /\ \E dates \in (SUBSET Dates) \ {{}}, det \in Details, batch, overwrite \in BOOLEAN :
       LET planned == Planned(p)
           rows    == Plan(planned, dates, det)
           known   == {r.id : r \in planned}
           updates == {r \in rows : r.id \in known}
       IN /\ batch \/ Cardinality(dates) = 1
          /\ Cardinality(dates) = 1 \/ updates # {}
          /\ Cardinality(rows \ updates) <= 1
          /\ \/ \A d \in dates : \E r \in planned : r.date = d
             \/ \E i \in Ids : \A s \in landed : s[1] # i
          /\ IF ~Answers \/ ~Readable \/ Twins(planned) \/ (~batch /\ updates # {} /\ ~overwrite)
             THEN UNCHANGED <<op, lock>>
             ELSE /\ lock' = p
                  /\ op' = [op EXCEPT ![p] = [step |-> "update", batch |-> batch, rows |-> planned,
                              updates |-> updates, creates |-> rows \ updates, done |-> {}]]
  /\ UNCHANGED <<table, schema, landed, wrote, hand>>

Stage(p) == IF op[p].step = "update" THEN op[p].updates ELSE op[p].creates

\* The stage lands and its reply is heard.
StageLands(p) ==
  LET rows == Accepted(Stage(p))
  IN /\ op[p].step \in {"update", "create"} /\ ~Refused(Stage(p))
     /\ Written(rows)
     /\ op' = [op EXCEPT ![p].step = IF @ = "update" THEN "create" ELSE "apply", ![p].done = @ \union rows]
     /\ UNCHANGED <<schema, view, mem, disk, lock, left, wrote, hand>>

\* Mutation: the index is made of what the batch meant to write.
Rebuilt_Optimistic(p) == Applied(p, op[p].updates \union op[p].creates)

\* After a batch that failed half-way nothing that was known is trusted: the index
\* is read again, or left empty when that fails too.
Rebuilt(p) ==
  IF Answers /\ Readable
  THEN \/ /\ mem' = [mem EXCEPT ![p] = [loaded |-> TRUE, rows |-> table']]
          /\ view' = [view EXCEPT ![p] = [rows |-> table', dirty |-> TRUE]]
          /\ disk' = {}
       \/ Cleared(p)
  ELSE Cleared(p)

Ended(p) == op' = [op EXCEPT ![p] = Idle] /\ Release

\* The reply is lost: a batch forgets what it knew, a single write only ends.
StageLost(p) ==
  /\ op[p].step \in {"update", "create"} /\ Stage(p) # {} /\ ~Refused(Stage(p)) /\ Spend("losses")
  /\ \/ Written(Accepted(Stage(p)))
     \/ UNCHANGED <<table, landed>>
  /\ IF op[p].batch THEN Rebuilt(p) ELSE UNCHANGED <<mem, view, disk>>
  /\ Ended(p)
  /\ UNCHANGED <<schema, wrote, hand>>

\* The field is gone and the details must not be dropped: the write fails closed.
StageRefused(p) ==
  /\ op[p].step \in {"update", "create"} /\ Refused(Stage(p))
  /\ IF op[p].batch /\ op[p].done # {} THEN table' = table /\ Rebuilt(p)
     ELSE UNCHANGED <<table, mem, view, disk>>
  /\ Ended(p)
  /\ UNCHANGED <<schema, left, landed, wrote, hand>>

\* The rows are put into the index and the lock is released.
Apply(p) ==
  /\ op[p].step = "apply"
  /\ Applied(p, op[p].done)
  /\ wrote' = [wrote EXCEPT ![p] = @ \union {State(r) : r \in op[p].done}]
  /\ Ended(p)
  /\ UNCHANGED <<table, schema, left, landed, hand>>

-----------------------------------------------------------------------------
(* Patches, and reads.                                                     *)

\* Some fields of one row are written under the lock: only the memory is dropped.
\* A patch of the details keeps what they say of finality.
Patch(p) ==
  /\ op[p].step = "idle" /\ lock = None /\ Spend("patches")
  /\ \E r \in table :
       \/ /\ Written({[r EXCEPT !.ver = Fresh]})
          /\ Forgotten(p)
       \/ UNCHANGED <<table, landed, mem, view, disk>>
  /\ UNCHANGED <<schema, lock, op, wrote, hand>>

\* A restatement compares the row with the plan first, on a fresh maintenance read
\* that is stored.
Restate(p) ==
  /\ op[p].step = "idle" /\ lock = None /\ Spend("patches")
  /\ Answers /\ Readable
  /\ view' = [view EXCEPT ![p] = [rows |-> table, dirty |-> TRUE]]
  /\ mem' = [mem EXCEPT ![p] = Unloaded]
  /\ \E r \in table : Written({[r EXCEPT !.ver = Fresh]})
  /\ UNCHANGED <<schema, disk, lock, op, wrote, hand>>

\* An audit, a maintenance read and the read-backs of the NAV recording store what
\* they read; a report reads for itself.
ReadFresh(p, keep) ==
  /\ Preloaded(p, keep)
  /\ UNCHANGED <<table, schema, lock, op, left, landed, wrote, hand>>

\* A lookup loads the index once, from the copy of the file if it holds the account.
Read(p) ==
  /\ \/ /\ ~mem[p].loaded /\ view[p].rows # {}
        /\ mem' = [mem EXCEPT ![p] = [loaded |-> TRUE, rows |-> view[p].rows]]
        /\ UNCHANGED <<view, disk>>
     \/ /\ IF mem[p].loaded THEN mem[p].rows = {} ELSE view[p].rows = {}
        /\ Preloaded(p, TRUE)
  /\ UNCHANGED <<table, schema, lock, op, left, landed, wrote, hand>>

-----------------------------------------------------------------------------
(* The file, restarts and people.                                          *)

\* The timer of a process writes its whole copy over the file.
Flush(p) ==
  /\ view[p].dirty
  /\ disk' = view[p].rows
  /\ view' = [view EXCEPT ![p].dirty = FALSE]
  /\ UNCHANGED <<table, schema, mem, lock, op, left, landed, wrote, hand>>

\* A process dies at any point and reads the file when it starts again.
Restart(p) ==
  /\ Spend("restarts")
  /\ op' = [op EXCEPT ![p] = Idle]
  /\ lock' = IF lock = p THEN None ELSE lock
  /\ mem' = [mem EXCEPT ![p] = Unloaded]
  /\ view' = [view EXCEPT ![p] = [rows |-> disk, dirty |-> FALSE]]
  /\ wrote' = [wrote EXCEPT ![p] = {}]
  /\ UNCHANGED <<table, schema, disk, landed, hand>>

\* People spoil or restore a row, change its date, or remove the field.
Edit ==
  /\ Spend("edits")
  /\ \/ /\ \E r \in table : Written({[r EXCEPT !.ok = ~@, !.ver = Fresh]})
        /\ hand' = IF lock = None THEN hand ELSE hand \union {"spoiled"}
        /\ UNCHANGED schema
     \/ /\ \E r \in table, d \in Dates : Written({[r EXCEPT !.date = d, !.ver = Fresh]})
        /\ hand' = hand \union {"date"}
        /\ UNCHANGED schema
     \/ /\ schema /\ schema' = FALSE
        /\ table' = {[r EXCEPT !.det = None, !.asked = None] : r \in table}
        /\ UNCHANGED <<landed, hand>>
  /\ UNCHANGED <<view, mem, disk, lock, op, wrote>>

Next ==
  \/ \E p \in Processes :
       \/ StartWrite(p) \/ StageLands(p) \/ StageLost(p) \/ StageRefused(p) \/ Apply(p)
       \/ Patch(p) \/ Restate(p)
       \/ \E keep \in BOOLEAN : ReadFresh(p, keep)
       \/ Read(p) \/ Flush(p) \/ Restart(p)
  \/ Edit

Spec == Init /\ [][Next]_vars

-----------------------------------------------------------------------------
(* Properties.                                                             *)

TypeOK ==
  /\ \A r \in table : r.id \in Ids /\ r.date \in Dates
  /\ \A r, s \in table : r.id = s.id => r = s
  /\ lock \in Processes \union {None}
  /\ \A p \in Processes : op[p].step # "idle" <=> lock = p

\* Two rows of one date are the work of people only: a write is planned on the
\* index it has read under the lock (_write_nav_full_records, write_nav_record), so
\* a create whose reply was lost becomes an update when it is repeated.
NoTwinsOfOurs == "date" \in hand \/ ~Twins(table)

\* What a full write has told its process it wrote is what the process answers with
\* for as long as the row stays that way, unless people move a row
\* to another date or spoil one while a write is under way: _apply_nav_rows_to_local_cache, the
\* memory it drops, and whatever is read, patched, cleared or flushed afterwards.
WritesAreSeen ==
  hand = {} => \A p \in Processes : \A r \in table :
    State(r) \in wrote[p] => \E s \in Known(p) : State(s) = State(r)

\* A lookup never answers with a row the table has not held, also after a batch
\* that failed between its stages (_stage_aware_batch_error).
ServedWasThere == \A p \in Processes : \A r \in Known(p) : State(r) \in landed

\* A row that was written as final says so: the retry without the details is refused
\* (_fail_closed_if_finality_would_be_dropped).
FinalityIsKept == \A r \in table : r.asked = "final" => r.det = "final"

=============================================================================

---------------------------- MODULE HoldingStore ----------------------------
(***************************************************************************)
(* The holdings table behind its repository: mutations planned on a fresh  *)
(* slice of an account, checked against a second one, written, proved by a *)
(* third and published to the cache lists are answered from.               *)
(* (feishu/repositories/holdings_repository.py, domain/holding_mutations,  *)
(* feishu_client.py)                                                       *)
(*                                                                         *)
(* One account.  Feishu has no compare-and-set, people edit the sheet, a   *)
(* reply may be lost, and the threads of a process share its cache without *)
(* a lock.  A record is its key (asset and broker) and its quantity: the   *)
(* times kept with it are dates, and tell no two states of a day apart.    *)
(* Requests that land after their time-out are left out.                   *)
(***************************************************************************)
EXTENDS Integers, FiniteSets, Functions

CONSTANTS Keys,       \* business keys of the account
          Ids,        \* record ids, 1 .. n
          Quantities, \* quantities of a record, 0 .. n
          Initial,    \* the tables the account may start with
          Threads, ProcessOf,
          Bounds,     \* per scenario: what each thread may start, and the edits, losses and exits
          None

VARIABLES table,  \* record id -> [key, qty], or None
          cache,  \* per process: [loaded, rows], and what is known of them
          call,   \* per thread: the operation in progress
          left

vars == <<table, cache, call, left>>

Processes == Range(ProcessOf)
Empty     == [i \in Ids |-> None]

ASSUME StoreAssumption ==
  /\ ProcessOf \in [Threads -> Processes]
  /\ None \notin Ids /\ None \notin Processes
  /\ \A slice \in Initial : slice = [i \in Ids |-> slice[i]]

\* `slice` and `old` are history: the slice the account was last said to be loaded
\* with; that a write of the process has landed since `rows` was read.
Unloaded  == [loaded |-> FALSE, rows |-> Empty, slice |-> Empty, old |-> FALSE]

\* `plan` has a target per key: the record it is for (or None), what that record
\* was, and the quantity it shall have.  `made` are the records its batch created,
\* `rows` the last slice read.  `old` and `raced` are history: a write of the
\* process has landed since `rows` was read; a planned record has been written
\* since it was checked.
Idle == [step |-> "idle", kind |-> None, plan |-> {}, made |-> {}, rows |-> Empty,
         old |-> FALSE, raced |-> FALSE]

Init ==
  /\ table \in Initial
  /\ cache = [p \in Processes |-> Unloaded]
  /\ call = [t \in Threads |-> Idle]
  /\ left \in Bounds

Spend(what) == left[what] > 0 /\ left' = [left EXCEPT ![what] = @ - 1]

-----------------------------------------------------------------------------
(* Slices and targets.                                                     *)

Rows(slice, k) == {i \in Ids : slice[i] # None /\ slice[i].key = k}

\* A slice with two records of one key is an error for every reader.
Twins(slice) == \E k \in Keys : Cardinality(Rows(slice, k)) > 1

Found(slice, k) == IF Rows(slice, k) = {} THEN None ELSE CHOOSE i \in Rows(slice, k) : TRUE

Was(slice, k) == IF Found(slice, k) = None THEN None ELSE slice[Found(slice, k)]

Held(slice, k) == IF Was(slice, k) = None THEN 0 ELSE Was(slice, k).qty

Target(slice, k, qty) == [key |-> k, id |-> Found(slice, k), was |-> Was(slice, k), qty |-> qty]

Clipped(qty) == IF qty \in Quantities THEN qty ELSE CHOOSE q \in Quantities : \A r \in Quantities : r <= q

Added(slice, k, amount) == Clipped(Held(slice, k) + amount)

Taken(slice, k, amount) == Held(slice, k) - amount

\* add: an additive upsert; take: update_holding_quantity; drop: a deletion if zero;
\* set: a replacement; patch: a repair bound to a record, whatever else the account
\* holds.
Wanted(kind, slice, k, amount) ==
  CASE kind = "add"  -> Added(slice, k, amount)
    [] kind = "take" -> Taken(slice, k, amount)
    [] OTHER -> amount

\* What an operation refuses before it writes anything.
Refused(kind, slice, keys, amount) ==
  \E k \in keys : \/ kind \in {"take", "drop"} /\ Found(slice, k) = None
                  \/ kind = "take" /\ Held(slice, k) < amount
                  \/ kind = "drop" /\ Held(slice, k) # 0

\* The slice a refusal was made on is published, but for a quantity below zero.
RefusalPublishes(kind, slice, keys) ==
  kind = "drop" \/ \E k \in keys : Found(slice, k) = None

\* Mutation: the record is compared, its contents are not.
StillTrue_ById(slice, target) == Found(slice, target.key) = target.id

\* The record a target was planned on is still what it was.
StillTrue(slice, target) ==
  Found(slice, target.key) = target.id /\ Was(slice, target.key) = target.was

\* What the third read must show.
Proved(kind, slice, plan, made) ==
  /\ ~Twins(slice)
  /\ \A target \in plan :
       LET id == Found(slice, target.key)
       IN IF kind = "drop" THEN id = None
          ELSE /\ id # None /\ (id = target.id \/ id \in made)
               /\ slice[id].qty = target.qty

-----------------------------------------------------------------------------
(* The cache of a process.                                                 *)

\* The rows go one by one, then the account no longer counts as loaded.
Invalidated(p) ==
  [cache EXCEPT ![p].rows = Empty, ![p].loaded = FALSE, ![p].old = FALSE]

\* An operation ends with an error.
Fails(t) ==
  /\ call' = [call EXCEPT ![t] = Idle]
  /\ cache' = Invalidated(ProcessOf[t])

\* A thread goes on to publish a slice it has just read.
Publishing(t, slice) ==
  /\ call' = [call EXCEPT ![t] = [Idle EXCEPT !.step = "publish", !.rows = slice]]
  /\ UNCHANGED cache

\* The rows of the account leave the cache.
Publish(t) ==
  /\ call[t].step = "publish"
  /\ cache' = Invalidated(ProcessOf[t])
  /\ call' = [call EXCEPT ![t].step = "put"]
  /\ UNCHANGED <<table, left>>

\* The rows that were read are put over what is there.
Put(t) ==
  LET p == ProcessOf[t]
  IN /\ call[t].step = "put"
     /\ cache' = [cache EXCEPT
                    ![p].rows = [i \in Ids |-> IF call[t].rows[i] # None THEN call[t].rows[i] ELSE @[i]],
                    ![p].old = call[t].old]
     /\ call' = [call EXCEPT ![t].step = "open"]
     /\ UNCHANGED <<table, left>>

\* The account counts as loaded.
Open(t) ==
  LET p == ProcessOf[t]
  IN /\ call[t].step = "open"
     /\ cache' = [cache EXCEPT ![p].loaded = TRUE, ![p].slice = call[t].rows]
     /\ call' = [call EXCEPT ![t] = Idle]
     /\ UNCHANGED <<table, left>>

\* A list is answered from a loaded cache for as long as nothing of the process
\* writes; a fresh read, of an account or of all of them, always publishes.
Read(t, fresh) ==
  /\ call[t].step = "idle"
  /\ fresh \/ ~cache[ProcessOf[t]].loaded
  /\ ~Twins(table)
  /\ Spend(t)
  /\ Publishing(t, table)
  /\ UNCHANGED table

-----------------------------------------------------------------------------
(* An operation of a thread, from one remote call to the next.             *)

\* The first read, and the plan made on it.  Only upserts are planned in batches;
\* a failed first read of a batch empties the cache.
Begin(t, kind, keys, amount) ==
  /\ call[t].step = "idle" /\ Spend(t)
  /\ kind \in {"take", "drop", "patch"} => Cardinality(keys) = 1
  /\ (amount = 0) = (kind = "drop") \/ kind \in {"set", "patch"}
  /\ kind = "patch" => \A k \in keys : Rows(table, k) # {}
  /\ IF kind # "patch" /\ Twins(table)
       THEN /\ cache' = IF Cardinality(keys) > 1 THEN Invalidated(ProcessOf[t]) ELSE cache
            /\ UNCHANGED call
     ELSE IF Refused(kind, table, keys, amount)
       THEN IF RefusalPublishes(kind, table, keys) THEN Publishing(t, table)
            ELSE UNCHANGED <<cache, call>>
     ELSE /\ call' = [call EXCEPT ![t] =
                        [Idle EXCEPT !.step = IF kind = "take" THEN "rebase" ELSE "check", !.kind = kind,
                           !.plan = {Target(table, k, Wanted(kind, table, k, amount)) : k \in keys}]]
          /\ UNCHANGED cache
  /\ UNCHANGED table

Updates(plan) == {target \in plan : target.id # None}
Creates(plan) == plan \ Updates(plan)

\* A repair looks at its record only.
RecordStillTrue(target) == table[target.id] = target.was

Good(c) ==
  IF c.kind = "patch" THEN \A target \in c.plan : RecordStillTrue(target)
  ELSE ~Twins(table) /\ \A target \in c.plan : StillTrue(table, target)

\* update_holding_quantity hands its plan to apply_holding_patch, which reads and
\* compares before the write is prepared.
Rebase(t) ==
  /\ call[t].step = "rebase"
  /\ IF Good(call[t]) THEN call' = [call EXCEPT ![t].step = "check"] /\ UNCHANGED cache ELSE Fails(t)
  /\ UNCHANGED <<table, left>>

\* The last read before the write.
Check(t) ==
  /\ call[t].step = "check"
  /\ IF Good(call[t])
       THEN /\ call' = [call EXCEPT ![t].step = IF Updates(call[t].plan) # {} THEN "update" ELSE "create"]
            /\ UNCHANGED cache
       ELSE Fails(t)
  /\ UNCHANGED <<table, left>>

\* Calls and caches after a write turns the table to `new`: other threads of the
\* process hold slices that are old now, and other plans for the records are raced.
Touched(plan, new) ==
  \E i \in Ids : /\ table[i] # new[i]
                 /\ \E target \in plan : target.id = i \/ (new[i] # None /\ new[i].key = target.key)

CallsAfter(new, by) ==
  [u \in Threads |->
     [call[u] EXCEPT !.old = @ \/ (call[u].step \in {"publish", "put", "open"} /\ ProcessOf[u] = by),
                     !.raced = @ \/ (call[u].step \in {"update", "create"} /\ Touched(call[u].plan, new))]]

CacheAfter(p) == [cache EXCEPT ![p].old = @ \/ cache[p].rows # Empty]

Deleted(plan) == [i \in Ids |-> IF \E target \in plan : target.id = i THEN None ELSE table[i]]

\* The existing records of the plan are written: one PUT, one DELETE, or one batch.
Written(c) ==
  IF c.kind = "drop" THEN Deleted(c.plan)
  ELSE [i \in Ids |->
          IF \E target \in c.plan : target.id = i
          THEN LET target == CHOOSE target \in c.plan : target.id = i
               IN [key |-> target.key, qty |-> target.qty]
          ELSE table[i]]

Update(t) ==
  LET c == call[t]
      after == CallsAfter(Written(c), ProcessOf[t])
  IN /\ c.step = "update"
     /\ \A target \in Updates(c.plan) : table[target.id] # None
     /\ table' = Written(c)
     /\ cache' = CacheAfter(ProcessOf[t])
     /\ call' = [after EXCEPT ![t].step = IF Creates(c.plan) # {} THEN "create" ELSE "prove",
                              ![t].raced = c.raced]
     /\ UNCHANGED left

\* Its reply is lost.  The transport repeats a PUT or a DELETE, up to three times;
\* a batch is a POST and fails.
UpdateUnheard(t) ==
  LET c == call[t]
      after == CallsAfter(Written(c), ProcessOf[t])
  IN /\ c.step = "update" /\ Spend("losses")
     /\ \A target \in Updates(c.plan) : table[target.id] # None
     /\ table' = Written(c)
     /\ \/ /\ Cardinality(c.plan) = 1
           /\ cache' = CacheAfter(ProcessOf[t])
           /\ call' = [after EXCEPT ![t].raced = TRUE]
        \/ /\ cache' = Invalidated(ProcessOf[t])
           /\ call' = [after EXCEPT ![t] = Idle]

\* The request does not reach the table, or a record of it is not there (any more).
UpdateFails(t) ==
  /\ call[t].step = "update"
  /\ \/ Spend("losses")
     \/ /\ \E target \in Updates(call[t].plan) : table[target.id] = None
        /\ UNCHANGED left
  /\ Fails(t)
  /\ UNCHANGED table

\* New records for the planned keys without one, under free ids.
Created(c, ids) ==
  [i \in Ids |->
     IF \E target \in Creates(c.plan) : ids[target.key] = i
     THEN LET target == CHOOSE target \in Creates(c.plan) : ids[target.key] = i
          IN [key |-> target.key, qty |-> target.qty]
     ELSE table[i]]

FreshIds(c) ==
  {ids \in [{target.key : target \in Creates(c.plan)} -> {i \in Ids : table[i] = None}] : IsInjective(ids)}

Create(t, ids) ==
  LET c == call[t]
      after == CallsAfter(Created(c, ids), ProcessOf[t])
  IN /\ c.step = "create" /\ ids \in FreshIds(c)
     /\ table' = Created(c, ids)
     /\ \/ /\ cache' = CacheAfter(ProcessOf[t])
           /\ call' = [after EXCEPT ![t].step = "prove", ![t].made = Range(ids),
                                    ![t].raced = FALSE]
           /\ UNCHANGED left
        \/ /\ Spend("losses")
           /\ cache' = Invalidated(ProcessOf[t])
           /\ call' = [after EXCEPT ![t] = Idle]

CreateFails(t) ==
  /\ call[t].step = "create" /\ Spend("losses")
  /\ Fails(t)
  /\ UNCHANGED table

\* The third read.
Prove(t) ==
  /\ call[t].step = "prove"
  /\ IF Proved(call[t].kind, table, call[t].plan, call[t].made) THEN Publishing(t, table) ELSE Fails(t)
  /\ UNCHANGED <<table, left>>

-----------------------------------------------------------------------------
(* People, and exits.                                                      *)

By(new) == /\ table' = new
           /\ call' = CallsAfter(new, None)
           /\ UNCHANGED cache

\* A quantity is edited, a row is removed, or one is added.
Edit ==
  /\ Spend("edits")
  /\ \E i \in Ids, q \in Quantities, k \in Keys :
       \/ table[i] # None /\ By([table EXCEPT ![i].qty = q])
       \/ table[i] # None /\ By([table EXCEPT ![i] = None])
       \/ table[i] = None /\ By([table EXCEPT ![i] = [key |-> k, qty |-> q]])

\* A process exits; the index it kept on disk does not make an account loaded.
Exit(p) ==
  /\ Spend("exits")
  /\ call' = [u \in Threads |-> IF ProcessOf[u] = p THEN Idle ELSE call[u]]
  /\ cache' = [cache EXCEPT ![p] = Unloaded]
  /\ UNCHANGED table

Kinds == {"add", "set", "take", "drop", "patch"}

Step(t) ==
  \/ \E fresh \in BOOLEAN : Read(t, fresh)
  \/ \E kind \in Kinds, keys \in (SUBSET Keys) \ {{}}, amount \in Quantities : Begin(t, kind, keys, amount)
  \/ Rebase(t) \/ Check(t) \/ Update(t) \/ UpdateUnheard(t) \/ UpdateFails(t)
  \/ \E ids \in FreshIds(call[t]) : Create(t, ids)
  \/ CreateFails(t) \/ Prove(t)
  \/ Publish(t) \/ Put(t) \/ Open(t)

Next == \/ \E t \in Threads : Step(t)
        \/ Edit
        \/ \E p \in Processes : Exit(p)

Spec == Init /\ [][Next]_vars

-----------------------------------------------------------------------------
(* Properties.                                                             *)

\* What a process wrote itself is never hidden by its cache: whenever lists are
\* answered from it and no operation of the process is under way, it was read after
\* the last write of the process, whether that was heard to succeed or not.  (Every
\* failed write invalidates the account, holdings_repository.py:780-820.)
OwnWritesAreSeen ==
  \A p \in Processes :
    (cache[p].loaded /\ \A t \in Threads : ProcessOf[t] = p => call[t].step = "idle") => ~cache[p].old

\* Lists and broker-less lookups are answered from a complete slice of the account:
\* what one read returned, nothing less and nothing more.  (get_holding,
\* holdings_repository.py:592-595: "it may only inspect a complete account slice".)
LoadedIsWhole ==
  \A p \in Processes : cache[p].loaded => (cache[p].rows = cache[p].slice)

\* A write that nobody raced after its check finds the records exactly as they were
\* when it was planned: an edit made while the plan was worked out is never
\* overwritten.  (_fresh_base_for_target.)
KeepsBase ==
  [][\A t \in Threads :
       (/\ call[t].step \in {"update", "create"} /\ ~call[t].raced
        /\ call'[t].step # call[t].step /\ table' # table)
       => \A target \in (IF call[t].step = "update" THEN Updates(call[t].plan) ELSE Creates(call[t].plan)) :
            IF call[t].step = "update" THEN table[target.id] = target.was
            ELSE Rows(table, target.key) = {}]_vars
=============================================================================

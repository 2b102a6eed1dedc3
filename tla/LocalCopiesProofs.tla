--------------------------- MODULE LocalCopiesProofs ---------------------------
(***************************************************************************)
(* What is proved of the copies processes keep of the holdings and of the  *)
(* NAV rows, and of the gate that lets a NAV be written on a proof, for    *)
(* any threads, processes, keys, ids, dates and tables to begin with, any  *)
(* edits, lost calls and restarts, any broker accounts and windows.        *)
(***************************************************************************)
EXTENDS MCLocalCopies, FiniteSetTheorems, TLAPS

-----------------------------------------------------------------------------
(* The holdings.  A slice and a call have their shapes; the plan of a call *)
(* has a target per key, and a repair is of records that are there.        *)
IsSlice(slice) == slice = [i \in Ids |-> slice[i]]

CallFields == {"step", "kind", "plan", "made", "rows", "old", "raced"}

IsCall(c) ==
    /\ DOMAIN c = CallFields
    /\ c.step \in {"idle", "rebase", "check", "update", "create", "prove", "publish", "put", "open"}
    /\ IsSlice(c.rows) /\ c.raced \in BOOLEAN

IsPlan(c) ==
    /\ \A a, b \in c.plan : a.key = b.key => a = b
    /\ \A a \in c.plan : a.id \in Ids \union {None}
    /\ c.kind = "patch" => \A a \in c.plan : a.id # None

(* What a write relies on that nobody has raced since its check: the       *)
(* records it changes are what they were, those it creates are not there.  *)
Unmoved(c, t) ==
    /\ c.step = "update" => \A a \in Updates(c.plan) : t[a.id] = a.was
    /\ c.step \in {"update", "create"} => \A a \in Creates(c.plan) : Rows(t, a.key) = {}

Based(c, t) == IsCall(c) /\ IsPlan(c) /\ (c.raced \/ Unmoved(c, t))

Calls == call = [t \in Threads |-> call[t]] /\ \A t \in Threads : Based(call[t], table)

StoreInv == IsSlice(table) /\ Calls

-----------------------------------------------------------------------------
USE StoreAssumption

LEMMA FoundRows ==
    ASSUME NEW slice, NEW k
    PROVE  /\ (Found(slice, k) = None) <=> (Rows(slice, k) = {})
           /\ Found(slice, k) # None => Found(slice, k) \in Rows(slice, k)
           /\ Found(slice, k) \in Ids \union {None}
BY DEF Found, Rows

LEMMA IdleIsBased ==
    ASSUME NEW t
    PROVE  Based(Idle, t)
BY DEF Based, IsCall, CallFields, IsPlan, Unmoved, Idle, IsSlice, Empty

(* A plan is shaped when it is made, and true when it has been checked.    *)
PlannedOn(slice, kind, keys, amount, plan) ==
    /\ kind = "patch" => \A k \in keys : Rows(slice, k) # {}
    /\ \A a \in plan : \E k \in keys : a = Target(slice, k, Wanted(kind, slice, k, amount))

Begun(step, kind, plan) == [Idle EXCEPT !.step = step, !.kind = kind, !.plan = plan]

LEMMA PlanIsShaped ==
    ASSUME NEW slice, NEW keys, NEW kind, NEW amount, NEW plan,
           PlannedOn(slice, kind, keys, amount, plan),
           NEW step \in {"rebase", "check"}, NEW t
    PROVE  Based(Begun(step, kind, plan), t)
<1> DEFINE c == Begun(step, kind, plan)
<1>1. \A a \in plan : \E k \in keys : a.key = k /\ a.id = Found(slice, k)
                                      /\ a = Target(slice, k, Wanted(kind, slice, k, amount))
  BY DEF Target, PlannedOn
<1>2. DOMAIN c = CallFields /\ c.step = step /\ c.kind = kind /\ c.plan = plan
      /\ c.rows = Empty /\ c.raced = FALSE
  BY DEF Begun, Idle, CallFields
<1> HIDE DEF c
<1>3. IsPlan(c)
  BY <1>1, <1>2, FoundRows DEF IsPlan, PlannedOn
<1>4. IsCall(c)
  BY <1>2 DEF IsCall, IsSlice, Empty
<1>5. Unmoved(c, t)
  BY <1>2 DEF Unmoved
<1>6. Based(c, t)
  BY <1>3, <1>4, <1>5 DEF Based
<1> QED BY <1>6 DEF c

LEMMA CheckedIsUnmoved ==
    ASSUME NEW c, IsPlan(c), Good(c)
    PROVE  /\ \A a \in Updates(c.plan) : table[a.id] = a.was
           /\ \A a \in Creates(c.plan) : Rows(table, a.key) = {}
<1>1. CASE c.kind = "patch"
  BY <1>1 DEF Good, RecordStillTrue, Updates, Creates, IsPlan
<1>2. CASE c.kind # "patch"
  <2>1. \A a \in c.plan : Found(table, a.key) = a.id /\ Was(table, a.key) = a.was
    BY <1>2 DEF Good, StillTrue
  <2>2. \A a \in Updates(c.plan) : table[a.id] = a.was
    BY <2>1 DEF Updates, Was
  <2>3. \A a \in Creates(c.plan) : Rows(table, a.key) = {}
    BY <2>1, FoundRows DEF Updates, Creates
  <2> QED BY <2>2, <2>3
<1> QED BY <1>1, <1>2

-----------------------------------------------------------------------------
(* What a write that turns the table to `new` makes of the calls: one that *)
(* is not raced by it does not notice.                                     *)
After(c, new, o) ==
    [c EXCEPT !.old = o,
              !.raced = @ \/ (c.step \in {"update", "create"} /\ Touched(c.plan, new))]

LEMMA AfterIs ==
    ASSUME NEW c, IsCall(c), NEW new, NEW o
    PROVE  /\ IsCall(After(c, new, o))
           /\ After(c, new, o).step = c.step /\ After(c, new, o).kind = c.kind
           /\ After(c, new, o).plan = c.plan /\ After(c, new, o).rows = c.rows
           /\ After(c, new, o).made = c.made
           /\ After(c, new, o).old = o
           /\ After(c, new, o).raced \in BOOLEAN
           /\ ~After(c, new, o).raced
                => ~c.raced /\ (c.step \in {"update", "create"} => ~Touched(c.plan, new))
<1>1. PICK race \in BOOLEAN : race = (c.raced \/ (c.step \in {"update", "create"} /\ Touched(c.plan, new)))
  BY DEF IsCall
<1>2. After(c, new, o) = [c EXCEPT !.old = o, !.raced = race]
  BY <1>1, Zenon DEF After
<1> QED BY <1>1, <1>2 DEF IsCall, CallFields

LEMMA UnnoticedIsUnmoved ==
    ASSUME NEW c, IsPlan(c), Unmoved(c, table), NEW new, ~Touched(c.plan, new)
    PROVE  Unmoved(c, new)
<1>1. \A i \in Ids, a \in c.plan : table[i] = new[i] \/ (a.id # i /\ (new[i] = None \/ new[i].key # a.key))
  BY DEF Touched
<1>2. \A a \in Updates(c.plan) : table[a.id] = new[a.id]
  BY <1>1 DEF Updates, IsPlan
<1>3. \A a \in c.plan : Rows(new, a.key) \subseteq Rows(table, a.key)
  BY <1>1 DEF Rows
<1> QED BY <1>2, <1>3 DEF Unmoved, Creates

LEMMA AfterIsBased ==
    ASSUME NEW c, Based(c, table), NEW new, NEW o
    PROVE  Based(After(c, new, o), new)
<1>1. IsCall(c) /\ IsPlan(c)
  BY DEF Based
<1> DEFINE d == After(c, new, o)
<1>2. IsCall(d) /\ IsPlan(d)
  BY <1>1, AfterIs DEF IsPlan
<1>3. ASSUME ~d.raced PROVE Unmoved(d, new)
  <2>1. d.step = c.step /\ d.plan = c.plan
        /\ ~c.raced /\ (c.step \in {"update", "create"} => ~Touched(c.plan, new))
    BY <1>1, <1>3, AfterIs
  <2>2. CASE c.step \in {"update", "create"}
    <3>1. Unmoved(c, new)
      BY <1>1, <2>1, <2>2, UnnoticedIsUnmoved DEF Based
    <3> QED BY <2>1, <3>1 DEF Unmoved
  <2>3. CASE c.step \notin {"update", "create"}
    BY <2>1, <2>3 DEF Unmoved
  <2> QED BY <2>2, <2>3
<1> QED BY <1>2, <1>3 DEF Based

LEMMA CallsAfterIs ==
    ASSUME NEW new, NEW by
    PROVE  CallsAfter(new, by) =
             [u \in Threads |-> After(call[u], new,
                call[u].old \/ (call[u].step \in {"publish", "put", "open"} /\ ProcessOf[u] = by))]
BY DEF CallsAfter, After

-----------------------------------------------------------------------------
(* One thread moves and the table stays; or it turns the table to `new`    *)
(* and the others' calls follow.                                           *)
LEMMA OneCalls ==
    ASSUME StoreInv, NEW t \in Threads, NEW d, Based(d, table),
           call' = [call EXCEPT ![t] = d], UNCHANGED table
    PROVE  StoreInv'
BY DEF StoreInv, Calls

LEMMA CallsFollow ==
    ASSUME StoreInv, NEW by, IsSlice(table'), call' = CallsAfter(table', by)
    PROVE  StoreInv'
<1> DEFINE o(u) == call[u].old \/ (call[u].step \in {"publish", "put", "open"} /\ ProcessOf[u] = by)
<1>1. PICK new : new = table'
  OBVIOUS
<1>2. call' = [u \in Threads |-> After(call[u], new, o(u))]
  BY <1>1, CallsAfterIs
<1> HIDE DEF o
<1>3. \A u \in Threads : Based(call'[u], new)
  BY <1>2, AfterIsBased DEF StoreInv, Calls
<1>4. call' = [u \in Threads |-> call'[u]]
  BY <1>2
<1> QED BY <1>1, <1>3, <1>4 DEF StoreInv, Calls

LEMMA OneTurns ==
    ASSUME StoreInv, NEW t \in Threads, NEW by, NEW d, Based(d, table'), IsSlice(table'),
           call' = [CallsAfter(table', by) EXCEPT ![t] = d]
    PROVE  StoreInv'
<1> DEFINE o(u) == call[u].old \/ (call[u].step \in {"publish", "put", "open"} /\ ProcessOf[u] = by)
<1>1. PICK new : new = table'
  OBVIOUS
<1>2. CallsAfter(new, by) = [u \in Threads |-> After(call[u], new, o(u))]
  BY CallsAfterIs
<1> HIDE DEF o
<1>3. \A u \in Threads : Based(CallsAfter(new, by)[u], new)
  BY <1>2, AfterIsBased DEF StoreInv, Calls
<1>4. call' = [u \in Threads |-> IF u = t THEN d ELSE CallsAfter(new, by)[u]]
  BY <1>1, <1>2
<1> QED BY <1>1, <1>3, <1>4 DEF StoreInv, Calls

(* The call of a thread after its own write.                               *)
LEMMA OwnAfter ==
    ASSUME StoreInv, NEW t \in Threads, NEW new
    PROVE  \E o : /\ CallsAfter(new, ProcessOf[t])[t] = After(call[t], new, o)
                  /\ o = (call[t].old \/ call[t].step \in {"publish", "put", "open"})
BY CallsAfterIs

-----------------------------------------------------------------------------
(* The steps of a thread.                                                  *)
LEMMA StepIsBased ==
    ASSUME NEW c, NEW slice, Based(c, slice),
           NEW step \in {"check", "prove", "put", "open"}
    PROVE  Based([c EXCEPT !.step = step], slice)
BY DEF Based, IsCall, CallFields, IsPlan, Unmoved

LEMMA PublishIsBased ==
    ASSUME NEW slice, IsSlice(slice), NEW other
    PROVE  Based([Idle EXCEPT !.step = "publish", !.rows = slice], other)
<1> DEFINE c == [Idle EXCEPT !.step = "publish", !.rows = slice]
<1>1. DOMAIN c = CallFields /\ c.step = "publish" /\ c.rows = slice /\ c.plan = {} /\ c.kind = None
      /\ c.raced = FALSE
  BY DEF Idle, CallFields
<1> HIDE DEF c
<1>2. Based(c, other)
  BY <1>1 DEF Based, IsCall, IsPlan, Unmoved
<1> QED BY <1>2 DEF c

LEMMA InStore ==
    ASSUME StoreInv, NEW t \in Threads
    PROVE  Based(call[t], table) /\ IsCall(call[t]) /\ IsPlan(call[t]) /\ IsSlice(table)
BY DEF StoreInv, Calls, Based

LEMMA FailsOK ==
    ASSUME StoreInv, NEW t \in Threads, Fails(t), UNCHANGED table
    PROVE  StoreInv'
BY IdleIsBased, OneCalls DEF Fails

LEMMA PublishingOK ==
    ASSUME StoreInv, NEW t \in Threads, Publishing(t, table), UNCHANGED table
    PROVE  StoreInv'
BY PublishIsBased, InStore, OneCalls DEF Publishing

LEMMA BeginOK ==
    ASSUME StoreInv, NEW t \in Threads, NEW kind, NEW keys, NEW amount, Begin(t, kind, keys, amount)
    PROVE  StoreInv'
<1> DEFINE step == IF kind = "take" THEN "rebase" ELSE "check"
<1>1. PICK plan : plan = {Target(table, k, Wanted(kind, table, k, amount)) : k \in keys}
  OBVIOUS
<1>2. CASE UNCHANGED call
  BY <1>2 DEF Begin, StoreInv, Calls
<1>3. CASE Publishing(t, table)
  BY <1>3, PublishingOK DEF Begin
<1>4. CASE call' = [call EXCEPT ![t] = Begun(step, kind, plan)]
  <2>1. PlannedOn(table, kind, keys, amount, plan)
    BY <1>1 DEF Begin, PlannedOn
  <2>2. step \in {"rebase", "check"}
    OBVIOUS
  <2> HIDE DEF step
  <2>3. Based(Begun(step, kind, plan), table)
    BY <2>1, <2>2, PlanIsShaped
  <2> QED BY <1>4, <2>3, OneCalls DEF Begin
<1>5. UNCHANGED call \/ Publishing(t, table) \/ call' = [call EXCEPT ![t] = Begun(step, kind, plan)]
  BY <1>1, Zenon DEF Begin, Begun
<1> QED BY <1>2, <1>3, <1>4, <1>5

LEMMA RebaseOK ==
    ASSUME StoreInv, NEW t \in Threads, Rebase(t)
    PROVE  StoreInv'
<1>1. CASE Fails(t)
  BY <1>1, FailsOK DEF Rebase
<1>2. CASE call' = [call EXCEPT ![t].step = "check"]
  <2> DEFINE d == [call[t] EXCEPT !.step = "check"]
  <2>1. Based(d, table)
    BY InStore, StepIsBased
  <2>2. call' = [call EXCEPT ![t] = d]
    BY <1>2
  <2> HIDE DEF d
  <2> QED BY <2>1, <2>2, OneCalls DEF Rebase
<1> QED BY <1>1, <1>2 DEF Rebase

LEMMA CheckOK ==
    ASSUME StoreInv, NEW t \in Threads, Check(t)
    PROVE  StoreInv'
<1>1. CASE Fails(t)
  BY <1>1, FailsOK DEF Check
<1>2. CASE ~Fails(t)
  <2> DEFINE c == call[t]
             step == IF Updates(c.plan) # {} THEN "update" ELSE "create"
             d == [c EXCEPT !.step = step]
  <2>1. Good(c) /\ call' = [call EXCEPT ![t] = d]
    BY <1>2 DEF Check
  <2>2. IsCall(c) /\ IsPlan(c)
    BY InStore
  <2>3. d.step \in {"update", "create"} /\ d.plan = c.plan
        /\ IsCall(d) /\ IsPlan(d)
    BY <2>2 DEF IsCall, CallFields, IsPlan
  <2>4. Unmoved(d, table)
    <3>1. /\ \A a \in Updates(c.plan) : table[a.id] = a.was
          /\ \A a \in Creates(c.plan) : Rows(table, a.key) = {}
      BY <2>1, <2>2, CheckedIsUnmoved
    <3> HIDE DEF c, d
    <3> QED BY <2>3, <3>1 DEF Unmoved
  <2>5. Based(d, table)
    BY <2>3, <2>4 DEF Based
  <2> HIDE DEF d
  <2> QED BY <2>1, <2>5, OneCalls DEF Check
<1> QED BY <1>1, <1>2

(* Publish, put and open go on with what was read.                         *)
LEMMA PublicationOK ==
    ASSUME StoreInv, NEW t \in Threads, Publish(t) \/ Put(t) \/ Open(t)
    PROVE  StoreInv'
<1>1. CASE Publish(t)
  <2> DEFINE d == [call[t] EXCEPT !.step = "put"]
  <2>1. Based(d, table)
    BY InStore, StepIsBased
  <2>2. call' = [call EXCEPT ![t] = d] /\ UNCHANGED table
    BY <1>1 DEF Publish
  <2> HIDE DEF d
  <2> QED BY <2>1, <2>2, OneCalls
<1>2. CASE Put(t)
  <2> DEFINE d == [call[t] EXCEPT !.step = "open"]
  <2>1. Based(d, table)
    BY InStore, StepIsBased
  <2>2. call' = [call EXCEPT ![t] = d] /\ UNCHANGED table
    BY <1>2 DEF Put
  <2> HIDE DEF d
  <2> QED BY <2>1, <2>2, OneCalls
<1>3. CASE Open(t)
  BY <1>3, IdleIsBased, OneCalls DEF Open
<1> QED BY <1>1, <1>2, <1>3

-----------------------------------------------------------------------------
(* The writes.                                                             *)
LEMMA WrittenRows ==
    ASSUME NEW c, IsPlan(c),
           \A a \in Creates(c.plan) : Rows(table, a.key) = {}
    PROVE  \A a \in Creates(c.plan) : Rows(Written(c), a.key) = {}
<1> DEFINE new == Written(c)
<1> SUFFICES ASSUME NEW a \in Creates(c.plan), NEW i \in Ids, new[i] # None, new[i].key = a.key
             PROVE  FALSE
  BY DEF Rows
<1>1. a \in c.plan /\ a.id = None
  BY DEF Creates, Updates
<1>2. CASE c.kind # "drop" /\ \E b \in c.plan : b.id = i
  <2>1. PICK b \in c.plan : b.id = i /\ new[i] = [key |-> b.key, qty |-> b.qty]
    BY <1>1, <1>2 DEF Written
  <2> HIDE DEF new
  <2>2. b.key = a.key
    BY <2>1
  <2> QED BY <1>1, <2>1, <2>2 DEF IsPlan
<1>3. CASE c.kind = "drop" \/ ~ \E b \in c.plan : b.id = i
  BY <1>1, <1>3 DEF Written, Deleted, Rows
<1> QED BY <1>2, <1>3

LEMMA WrittenIsSlice ==
    ASSUME NEW c
    PROVE  IsSlice(Written(c))
BY DEF Written, Deleted, IsSlice

LEMMA OwnWrite ==
    ASSUME StoreInv, NEW t \in Threads, call[t].step = "update",
           NEW d, IsCall(d), d.plan = call[t].plan, d.kind = call[t].kind,
           d.raced \/ (d.raced = call[t].raced /\ d.step \in {"create", "prove"})
    PROVE  Based(d, Written(call[t]))
<1>1. PICK c : c = call[t]
  OBVIOUS
<1>2. IsPlan(c) /\ (c.raced \/ Unmoved(c, table)) /\ IsPlan(d)
  BY <1>1 DEF StoreInv, Calls, Based, IsPlan
<1>3. ASSUME ~d.raced PROVE Unmoved(d, Written(c))
  <2>1. ~c.raced /\ d.step \in {"create", "prove"}
    BY <1>1, <1>3
  <2>2. \A a \in Creates(c.plan) : Rows(table, a.key) = {}
    BY <1>1, <1>2, <2>1 DEF Unmoved
  <2>3. \A a \in Creates(c.plan) : Rows(Written(c), a.key) = {}
    BY <1>2, <2>2, WrittenRows
  <2> QED BY <1>1, <2>1, <2>3 DEF Unmoved
<1> QED BY <1>1, <1>2, <1>3 DEF Based

(* The call of the writer once it has written.                             *)
LEMMA WriterIs ==
    ASSUME StoreInv, NEW t \in Threads, NEW new
    PROVE  LET e == CallsAfter(new, ProcessOf[t])[t]
               c == call[t]
           IN  /\ IsCall(e) /\ e.step = c.step /\ e.kind = c.kind /\ e.plan = c.plan /\ e.rows = c.rows
               /\ c.step = "update" => (e.old <=> c.old)
<1>1. PICK c : c = call[t] /\ IsCall(c)
  BY InStore
<1>2. PICK o : /\ CallsAfter(new, ProcessOf[t])[t] = After(c, new, o)
               /\ o = (c.old \/ c.step \in {"publish", "put", "open"})
  BY <1>1, OwnAfter
<1>3. PICK e : e = After(c, new, o)
  OBVIOUS
<1>4. /\ IsCall(e) /\ e.step = c.step /\ e.kind = c.kind /\ e.plan = c.plan /\ e.rows = c.rows
      /\ e.old = o
  BY <1>1, <1>3, AfterIs
<1>5. c.step = "update" => (e.old <=> c.old)
  BY <1>2, <1>4
<1> QED BY <1>1, <1>2, <1>3, <1>4, <1>5

LEMMA UpdateOK ==
    ASSUME StoreInv, NEW t \in Threads, Update(t)
    PROVE  StoreInv'
<1>1. PICK c : c = call[t] /\ IsCall(c)
  BY InStore
<1>2. PICK new : new = Written(c)
  OBVIOUS
<1>3. PICK after : after = CallsAfter(new, ProcessOf[t])
  OBVIOUS
<1>4. PICK e : e = after[t]
  OBVIOUS
<1>5. PICK step \in {"create", "prove"} : step = IF Creates(c.plan) # {} THEN "create" ELSE "prove"
  OBVIOUS
<1> DEFINE d == [e EXCEPT !.step = step, !.raced = c.raced]
<1>6. IsCall(e) /\ e.plan = c.plan /\ e.kind = c.kind
  BY <1>1, <1>3, <1>4, WriterIs
<1>7. IsCall(d) /\ d.plan = c.plan /\ d.kind = c.kind /\ d.step = step /\ d.raced = c.raced
  BY <1>1, <1>6 DEF IsCall, CallFields
<1>8. table' = new /\ c.step = "update" /\ call' = [after EXCEPT ![t].step = step, ![t].raced = c.raced]
  BY <1>1, <1>2, <1>3, <1>5 DEF Update
<1>9. call' = [after EXCEPT ![t] = d]
  BY <1>4, <1>8
<1> HIDE DEF d
<1>10. Based(d, new)
  BY <1>1, <1>2, <1>7, <1>8, OwnWrite
<1>11. IsSlice(new)
  BY <1>2, WrittenIsSlice
<1> QED BY <1>3, <1>8, <1>9, <1>10, <1>11, OneTurns

LEMMA UpdateUnheardOK ==
    ASSUME StoreInv, NEW t \in Threads, UpdateUnheard(t)
    PROVE  StoreInv'
<1>1. PICK c : c = call[t] /\ IsCall(c)
  BY InStore
<1>2. PICK new : new = Written(c)
  OBVIOUS
<1>3. PICK after : after = CallsAfter(new, ProcessOf[t])
  OBVIOUS
<1>4. PICK e : e = after[t]
  OBVIOUS
<1> DEFINE d == [e EXCEPT !.raced = TRUE]
<1>5. IsCall(e) /\ e.plan = c.plan /\ e.kind = c.kind
  BY <1>1, <1>3, <1>4, WriterIs
<1>6. IsCall(d) /\ d.plan = c.plan /\ d.kind = c.kind /\ d.raced
  BY <1>5 DEF IsCall, CallFields
<1>7. /\ table' = new /\ c.step = "update"
      /\ call' = [after EXCEPT ![t].raced = TRUE] \/ call' = [after EXCEPT ![t] = Idle]
  BY <1>1, <1>2, <1>3 DEF UpdateUnheard
<1>8. call' = [after EXCEPT ![t] = d] \/ call' = [after EXCEPT ![t] = Idle]
  BY <1>4, <1>7
<1> HIDE DEF d
<1>9. Based(d, new) /\ Based(Idle, new)
  BY <1>1, <1>2, <1>6, <1>7, OwnWrite, IdleIsBased
<1>10. IsSlice(new)
  BY <1>2, WrittenIsSlice
<1> QED BY <1>3, <1>7, <1>8, <1>9, <1>10, OneTurns

LEMMA CreateOK ==
    ASSUME StoreInv, NEW t \in Threads, NEW ids, Create(t, ids)
    PROVE  StoreInv'
<1>1. PICK c : c = call[t] /\ IsCall(c) /\ IsPlan(c)
  BY InStore
<1>2. PICK new : new = Created(c, ids)
  OBVIOUS
<1>3. PICK after : after = CallsAfter(new, ProcessOf[t])
  OBVIOUS
<1>4. PICK e : e = after[t]
  OBVIOUS
<1>5. PICK made : made = Range(ids)
  OBVIOUS
<1> DEFINE d == [e EXCEPT !.step = "prove", !.made = made, !.raced = FALSE]
<1>6. IsCall(e) /\ e.plan = c.plan /\ e.kind = c.kind
  BY <1>1, <1>3, <1>4, WriterIs
<1>7. IsCall(d) /\ d.plan = c.plan /\ d.kind = c.kind /\ d.step = "prove"
  BY <1>6 DEF IsCall, CallFields
<1>8. /\ table' = new
      /\ \/ call' = [after EXCEPT ![t].step = "prove", ![t].made = made, ![t].raced = FALSE]
         \/ call' = [after EXCEPT ![t] = Idle]
  BY <1>1, <1>2, <1>3, <1>5 DEF Create
<1>9. call' = [after EXCEPT ![t] = d] \/ call' = [after EXCEPT ![t] = Idle]
  BY <1>4, <1>8
<1> HIDE DEF d
<1>10. Based(d, new) /\ Based(Idle, new)
  BY <1>1, <1>7, IdleIsBased DEF Based, IsPlan, Unmoved
<1>11. IsSlice(new)
  BY <1>2 DEF Created, IsSlice
<1> QED BY <1>3, <1>8, <1>9, <1>10, <1>11, OneTurns

LEMMA ProveOK ==
    ASSUME StoreInv, NEW t \in Threads, Prove(t)
    PROVE  StoreInv'
BY FailsOK, PublishingOK DEF Prove

LEMMA EditOK ==
    ASSUME StoreInv, Edit
    PROVE  StoreInv'
<1>1. ASSUME NEW new, By(new), IsSlice(new) PROVE StoreInv'
  BY <1>1, CallsFollow DEF By
<1>2. PICK i \in Ids, q \in Quantities, k \in Keys :
         \/ By([table EXCEPT ![i].qty = q])
         \/ By([table EXCEPT ![i] = None])
         \/ By([table EXCEPT ![i] = [key |-> k, qty |-> q]])
  BY DEF Edit
<1>3. /\ IsSlice([table EXCEPT ![i].qty = q])
      /\ IsSlice([table EXCEPT ![i] = None])
      /\ IsSlice([table EXCEPT ![i] = [key |-> k, qty |-> q]])
  BY DEF StoreInv, IsSlice
<1> QED BY <1>1, <1>2, <1>3

LEMMA ExitOK ==
    ASSUME StoreInv, NEW p, Exit(p)
    PROVE  StoreInv'
BY IdleIsBased DEF Exit, StoreInv, Calls

LEMMA StoreStep ==
    ASSUME StoreInv, [Next]_vars
    PROVE  StoreInv'
<1>1. ASSUME NEW t \in Threads, Step(t) PROVE StoreInv'
  <2>1. CASE \E fresh \in BOOLEAN : Read(t, fresh)
    BY <2>1, PublishingOK DEF Read
  <2>2. CASE UpdateFails(t) \/ CreateFails(t)
    BY <2>2, FailsOK DEF UpdateFails, CreateFails
  <2> QED BY <1>1, <2>1, <2>2, BeginOK, RebaseOK, CheckOK, PublicationOK, UpdateOK,
             UpdateUnheardOK, CreateOK, ProveOK DEF Step
<1>2. CASE UNCHANGED vars
  BY <1>2 DEF vars, StoreInv, Calls
<1> QED BY <1>1, <1>2, EditOK, ExitOK DEF Next

LEMMA StoreStart ==
    ASSUME Init
    PROVE  StoreInv
BY IdleIsBased DEF Init, StoreInv, Calls, IsSlice

LEMMA StepKeepsBase ==
    ASSUME StoreInv, NEW t \in Threads, call[t].step \in {"update", "create"}, ~call[t].raced,
           NEW a \in IF call[t].step = "update" THEN Updates(call[t].plan) ELSE Creates(call[t].plan)
    PROVE  IF call[t].step = "update" THEN table[a.id] = a.was ELSE Rows(table, a.key) = {}
BY DEF StoreInv, Calls, Based, Unmoved

-----------------------------------------------------------------------------
(* The cache of a process and the call of its thread, when no two threads  *)
(* share one: what is put there was read after the last write of the       *)
(* process, and the account counts as loaded only when all of it is there. *)
CacheFields == {"loaded", "rows", "slice", "old"}

IsCache(k) ==
    /\ DOMAIN k = CacheFields /\ k.loaded \in BOOLEAN /\ k.old \in BOOLEAN
    /\ k.loaded => k.rows = k.slice

Own(c, k) ==
    /\ c.old = FALSE
    /\ c.step = "put" => k.rows = Empty
    /\ c.step \in {"put", "open"} => ~k.loaded
    /\ c.step = "open" => k.rows = c.rows
    /\ k.old => c.step \in {"update", "create", "prove", "publish"}

CacheInv ==
    /\ cache = [p \in Processes |-> cache[p]]
    /\ \A p \in Processes : IsCache(cache[p])
    /\ \A t \in Threads : Own(call[t], cache[ProcessOf[t]])

Emptied(k) == [k EXCEPT !.rows = Empty, !.loaded = FALSE, !.old = FALSE]
Aged(k) == [k EXCEPT !.old = @ \/ k.rows # Empty]

LEMMA InvalidatedIs ==
    ASSUME NEW p
    PROVE  Invalidated(p) = [cache EXCEPT ![p] = Emptied(cache[p])]
BY DEF Invalidated, Emptied

LEMMA CacheAfterIs ==
    ASSUME NEW p
    PROVE  CacheAfter(p) = [cache EXCEPT ![p] = Aged(cache[p])]
BY DEF CacheAfter, Aged

LEMMA EmptiedIs ==
    ASSUME NEW k, IsCache(k)
    PROVE  IsCache(Emptied(k)) /\ Emptied(k).rows = Empty /\ Emptied(k).loaded = FALSE
           /\ Emptied(k).old = FALSE
BY DEF IsCache, CacheFields, Emptied

LEMMA AgedIs ==
    ASSUME NEW k, IsCache(k)
    PROVE  IsCache(Aged(k)) /\ Aged(k).rows = k.rows /\ Aged(k).loaded = k.loaded
<1>1. PICK old \in BOOLEAN : old = (k.old \/ k.rows # Empty)
  BY DEF IsCache
<1>2. Aged(k) = [k EXCEPT !.old = old]
  BY <1>1, Zenon DEF Aged
<1> QED BY <1>2 DEF IsCache, CacheFields

LEMMA InCache ==
    ASSUME CacheInv, NEW t \in Threads
    PROVE  ProcessOf[t] \in Processes /\ IsCache(cache[ProcessOf[t]]) /\ Own(call[t], cache[ProcessOf[t]])
BY DEF CacheInv

(* The steps other than put and open ask little of the cache.              *)
LEMMA OwnPlain ==
    ASSUME NEW c, NEW k, c.old = FALSE, c.step \notin {"put", "open"},
           k.old => c.step \in {"update", "create", "prove", "publish"}
    PROVE  Own(c, k)
BY DEF Own

(* A thread moves, and the calls of others at most become raced.           *)
Rests(c, d) == d.step = c.step /\ d.rows = c.rows /\ d.old = FALSE

OnlyOf(t) == \A u \in Threads \ {t} : Rests(call[u], call'[u])

LEMMA OneCaches ==
    ASSUME IsInjective(ProcessOf), CacheInv, NEW t \in Threads, OnlyOf(t),
           NEW k, IsCache(k), cache' = [cache EXCEPT ![ProcessOf[t]] = k], Own(call'[t], k)
    PROVE  CacheInv'
<1> DEFINE p == ProcessOf[t]
<1>1. p \in Processes /\ cache' = [q \in Processes |-> IF q = p THEN k ELSE cache[q]]
  BY DEF CacheInv
<1>2. ASSUME NEW u \in Threads, u # t PROVE Own(call'[u], cache'[ProcessOf[u]])
  <2>1. ProcessOf[u] \in Processes /\ ProcessOf[u] # p
    BY <1>2 DEF IsInjective
  <2>2. cache'[ProcessOf[u]] = cache[ProcessOf[u]]
    BY <1>1, <2>1
  <2>3. Own(call[u], cache[ProcessOf[u]]) /\ Rests(call[u], call'[u])
    BY <1>2 DEF CacheInv, OnlyOf
  <2> QED BY <2>2, <2>3 DEF Own, Rests
<1>3. Own(call'[t], cache'[ProcessOf[t]])
  BY <1>1
<1>4. \A q \in Processes : IsCache(cache'[q])
  BY <1>1 DEF CacheInv
<1>5. cache' = [q \in Processes |-> cache'[q]]
  BY <1>1
<1> QED BY <1>2, <1>3, <1>4, <1>5 DEF CacheInv

LEMMA OneKeepsCache ==
    ASSUME IsInjective(ProcessOf), CacheInv, NEW t \in Threads, OnlyOf(t),
           UNCHANGED cache, Own(call'[t], cache[ProcessOf[t]])
    PROVE  CacheInv'
<1>1. cache' = [cache EXCEPT ![ProcessOf[t]] = cache[ProcessOf[t]]]
  BY DEF CacheInv
<1> QED BY <1>1, InCache, OneCaches

(* Only the call of the thread itself changes, or it writes.               *)
LEMMA OneIsOnly ==
    ASSUME StoreInv, CacheInv, NEW t \in Threads, NEW d, call' = [call EXCEPT ![t] = d]
    PROVE  OnlyOf(t) /\ call'[t] = d
BY DEF StoreInv, Calls, CacheInv, Own, OnlyOf, Rests

LEMMA TurnIsOnly ==
    ASSUME IsInjective(ProcessOf), StoreInv, CacheInv, NEW t \in Threads, NEW new, NEW d,
           call' = [CallsAfter(new, ProcessOf[t]) EXCEPT ![t] = d]
    PROVE  OnlyOf(t) /\ call'[t] = d
<1> DEFINE o(u) == call[u].old \/ (call[u].step \in {"publish", "put", "open"} /\ ProcessOf[u] = ProcessOf[t])
<1>1. CallsAfter(new, ProcessOf[t]) = [u \in Threads |-> After(call[u], new, o(u))]
  BY CallsAfterIs
<1>2. ASSUME NEW u \in Threads, u # t PROVE o(u) = FALSE /\ IsCall(call[u])
  <2>1. ProcessOf[u] # ProcessOf[t]
    BY <1>2 DEF IsInjective
  <2>2. call[u].old = FALSE
    BY DEF CacheInv, Own
  <2> QED BY <2>1, <2>2, InStore
<1> HIDE DEF o
<1>3. ASSUME NEW u \in Threads, u # t PROVE Rests(call[u], call'[u])
  <2>1. call'[u] = After(call[u], new, o(u))
    BY <1>1, <1>3
  <2>2. PICK c, old : c = call[u] /\ old = o(u)
    OBVIOUS
  <2>3. IsCall(c) /\ old = FALSE
    BY <1>2, <1>3, <2>2
  <2>4. PICK e : e = After(c, new, old)
    OBVIOUS
  <2>5. e.step = c.step /\ e.rows = c.rows /\ e.old = FALSE
    BY <2>3, <2>4, AfterIs
  <2> QED BY <2>1, <2>2, <2>4, <2>5 DEF Rests
<1> QED BY <1>1, <1>3 DEF OnlyOf

LEMMA FailsCache ==
    ASSUME IsInjective(ProcessOf), StoreInv, CacheInv, NEW t \in Threads, Fails(t)
    PROVE  CacheInv'
<1> DEFINE k == Emptied(cache[ProcessOf[t]])
<1>1. cache' = [cache EXCEPT ![ProcessOf[t]] = k] /\ call' = [call EXCEPT ![t] = Idle]
  BY InvalidatedIs DEF Fails
<1>2. IsCache(k) /\ k.old = FALSE
  BY InCache, EmptiedIs
<1> HIDE DEF k
<1>3. Own(Idle, k)
  BY <1>2 DEF Own, Idle
<1> QED BY <1>1, <1>2, <1>3, OneIsOnly, OneCaches

LEMMA PublishingCache ==
    ASSUME IsInjective(ProcessOf), StoreInv, CacheInv, NEW t \in Threads, NEW slice, Publishing(t, slice)
    PROVE  CacheInv'
<1> DEFINE d == [Idle EXCEPT !.step = "publish", !.rows = slice]
<1>1. call' = [call EXCEPT ![t] = d] /\ UNCHANGED cache
  BY DEF Publishing
<1>2. d.step = "publish" /\ d.old = FALSE
  BY DEF Idle
<1> HIDE DEF d
<1>3. Own(d, cache[ProcessOf[t]])
  BY <1>2 DEF Own
<1> QED BY <1>1, <1>3, OneIsOnly, OneKeepsCache
LEMMA BeginCache ==
    ASSUME IsInjective(ProcessOf), StoreInv, CacheInv, NEW t \in Threads,
           NEW kind, NEW keys, NEW amount, Begin(t, kind, keys, amount)
    PROVE  CacheInv'
<1> DEFINE step == IF kind = "take" THEN "rebase" ELSE "check"
           k == cache[ProcessOf[t]]
<1>1. PICK plan : plan = {Target(table, x, Wanted(kind, table, x, amount)) : x \in keys}
  OBVIOUS
<1>2. call[t].step = "idle" /\ call[t].old = FALSE /\ ~k.old /\ IsCache(k)
  BY InCache DEF Begin, Own
<1>3. CASE UNCHANGED <<cache, call>>
  BY <1>3 DEF CacheInv
<1>4. CASE Publishing(t, table)
  BY <1>4, PublishingCache
<1>5. CASE cache' = Invalidated(ProcessOf[t]) /\ UNCHANGED call
  <2>1. cache' = [cache EXCEPT ![ProcessOf[t]] = Emptied(k)] /\ IsCache(Emptied(k)) /\ Emptied(k).old = FALSE
    BY <1>2, <1>5, InvalidatedIs, EmptiedIs
  <2>2. OnlyOf(t) /\ call'[t] = call[t]
    BY <1>5 DEF OnlyOf, Rests, CacheInv, Own
  <2>3. Own(call'[t], Emptied(k))
    BY <1>2, <2>1, <2>2, OwnPlain
  <2> HIDE DEF k
  <2> QED BY <2>1, <2>2, <2>3, OneCaches DEF k
<1>6. CASE call' = [call EXCEPT ![t] = Begun(step, kind, plan)] /\ UNCHANGED cache
  <2> DEFINE d == Begun(step, kind, plan)
  <2>1. d.old = FALSE /\ d.step = step
    BY DEF Begun, Idle
  <2>2. step \notin {"put", "open"}
    OBVIOUS
  <2> HIDE DEF d, step
  <2>3. Own(d, k)
    BY <1>2, <2>1, <2>2, OwnPlain
  <2> QED BY <1>6, <2>3, OneIsOnly, OneKeepsCache DEF d
<1>7. \/ UNCHANGED <<cache, call>> \/ Publishing(t, table)
      \/ cache' = Invalidated(ProcessOf[t]) /\ UNCHANGED call
      \/ call' = [call EXCEPT ![t] = Begun(step, kind, plan)] /\ UNCHANGED cache
  BY <1>1, Zenon DEF Begin, Begun
<1> QED BY <1>3, <1>4, <1>5, <1>6, <1>7

(* A call goes on with its own step.                                       *)
LEMMA StepIs ==
    ASSUME NEW c, IsCall(c), NEW step
    PROVE  LET d == [c EXCEPT !.step = step]
           IN  d.step = step /\ d.rows = c.rows /\ (d.old <=> c.old) /\ d.old = c.old
BY DEF IsCall, CallFields

LEMMA RebaseCache ==
    ASSUME IsInjective(ProcessOf), StoreInv, CacheInv, NEW t \in Threads, Rebase(t) \/ Check(t)
    PROVE  CacheInv'
<1>1. CASE Fails(t)
  BY <1>1, FailsCache
<1>2. ASSUME NEW step \in {"check", "update", "create"},
             call' = [call EXCEPT ![t].step = step], UNCHANGED cache, call[t].step \in {"rebase", "check"}
      PROVE  CacheInv'
  <2>0. PICK c, d : c = call[t] /\ IsCall(c) /\ c.old = FALSE /\ d = [c EXCEPT !.step = step]
    BY InStore, InCache DEF Own
  <2>1. call' = [call EXCEPT ![t] = d]
    BY <1>2, <2>0
  <2>2. d.step = step /\ d.old = FALSE
    BY <2>0, StepIs
  <2>3. cache[ProcessOf[t]].old = FALSE
    BY <1>2, InCache DEF Own, IsCache
  <2>4. Own(d, cache[ProcessOf[t]])
    BY <2>2, <2>3, OwnPlain
  <2>5. OnlyOf(t) /\ call'[t] = d
    BY <2>1, OneIsOnly
  <2> QED BY <1>2, <2>4, <2>5, OneKeepsCache
<1> QED BY <1>1, <1>2 DEF Rebase, Check

LEMMA PublicationCache ==
    ASSUME IsInjective(ProcessOf), StoreInv, CacheInv, NEW t \in Threads, Publish(t) \/ Put(t) \/ Open(t)
    PROVE  CacheInv'
<1>1. PICK c, p, k : /\ c = call[t] /\ p = ProcessOf[t] /\ k = cache[p]
                     /\ IsCall(c) /\ c.old = FALSE /\ IsCache(k) /\ Own(c, k) /\ p \in Processes
  BY InStore, InCache DEF Own
<1>2. CASE Publish(t)
  <2>0. PICK d, e : d = [c EXCEPT !.step = "put"] /\ e = Emptied(k)
    OBVIOUS
  <2>1. call' = [call EXCEPT ![t] = d] /\ cache' = [cache EXCEPT ![p] = e]
    BY <1>1, <1>2, <2>0, InvalidatedIs DEF Publish
  <2>2. d.step = "put" /\ d.old = FALSE
    BY <1>1, <2>0, StepIs
  <2>3. IsCache(e) /\ Own(d, e)
    BY <1>1, <2>0, <2>2, EmptiedIs DEF Own
  <2>4. OnlyOf(t) /\ call'[t] = d
    BY <2>1, OneIsOnly
  <2> QED BY <1>1, <2>1, <2>3, <2>4, OneCaches
<1>3. CASE Put(t)
  <2>0. PICK d, e : d = [c EXCEPT !.step = "open"] /\ e = [k EXCEPT !.rows = c.rows, !.old = FALSE]
    OBVIOUS
  <2>1. k.rows = Empty /\ ~k.loaded /\ c.step = "put"
    BY <1>1, <1>3 DEF Put, Own
  <2>2. c.rows = [i \in Ids |-> IF c.rows[i] # None THEN c.rows[i] ELSE k.rows[i]]
    BY <1>1, <2>1 DEF Empty, IsCall, IsSlice
  <2>3. call' = [call EXCEPT ![t] = d] /\ cache' = [cache EXCEPT ![p] = e]
    BY <1>1, <1>3, <2>2, <2>0 DEF Put
  <2>4. d.step = "open" /\ d.old = FALSE /\ d.rows = c.rows
    BY <1>1, <2>0, StepIs
  <2>5. DOMAIN e = CacheFields /\ e.loaded = k.loaded /\ e.old = FALSE /\ e.rows = c.rows /\ e.slice = k.slice
    BY <1>1, <2>0 DEF IsCache, CacheFields
  <2>6. IsCache(e) /\ Own(d, e)
    BY <1>1, <2>1, <2>4, <2>5 DEF IsCache, Own
  <2>7. OnlyOf(t) /\ call'[t] = d
    BY <2>3, OneIsOnly
  <2> QED BY <1>1, <2>3, <2>6, <2>7, OneCaches
<1>4. CASE Open(t)
  <2>0. PICK e : e = [k EXCEPT !.loaded = TRUE, !.slice = c.rows]
    OBVIOUS
  <2>1. k.rows = c.rows /\ k.old = FALSE
    BY <1>1, <1>4 DEF Open, Own, IsCache
  <2>2. call' = [call EXCEPT ![t] = Idle] /\ cache' = [cache EXCEPT ![p] = e]
    BY <1>1, <1>4, <2>0 DEF Open
  <2>3. DOMAIN e = CacheFields /\ e.loaded = TRUE /\ e.old = FALSE /\ e.rows = c.rows /\ e.slice = c.rows
    BY <1>1, <2>1, <2>0 DEF IsCache, CacheFields
  <2>4. IsCache(e) /\ Own(Idle, e)
    BY <2>3 DEF IsCache, Own, Idle
  <2>5. OnlyOf(t) /\ call'[t] = Idle
    BY <2>2, OneIsOnly
  <2> QED BY <1>1, <2>2, <2>4, <2>5, OneCaches
<1> QED BY <1>2, <1>3, <1>4

-----------------------------------------------------------------------------
(* The writes, and the cache they leave old or empty.                      *)
LEMMA WriteCache ==
    ASSUME IsInjective(ProcessOf), StoreInv, CacheInv, NEW t \in Threads, NEW new, NEW d,
           call' = [CallsAfter(new, ProcessOf[t]) EXCEPT ![t] = d], d.old = FALSE,
           \/ /\ d.step \in {"update", "create", "prove"}
              /\ cache' = CacheAfter(ProcessOf[t])
           \/ /\ d.step = "idle"
              /\ cache' = Invalidated(ProcessOf[t])
    PROVE  CacheInv'
<1>1. OnlyOf(t) /\ call'[t] = d
  BY TurnIsOnly
<1>2. PICK k : k = cache[ProcessOf[t]] /\ IsCache(k)
  BY InCache
<1>3. CASE d.step = "idle" /\ cache' = Invalidated(ProcessOf[t])
  <2>1. cache' = [cache EXCEPT ![ProcessOf[t]] = Emptied(k)] /\ IsCache(Emptied(k)) /\ Own(d, Emptied(k))
    BY <1>2, <1>3, InvalidatedIs, EmptiedIs DEF Own
  <2> QED BY <1>1, <2>1, OneCaches
<1>4. CASE d.step \in {"update", "create", "prove"} /\ cache' = CacheAfter(ProcessOf[t])
  <2>1. cache' = [cache EXCEPT ![ProcessOf[t]] = Aged(k)] /\ IsCache(Aged(k)) /\ Own(d, Aged(k))
    BY <1>2, <1>4, CacheAfterIs, AgedIs DEF Own
  <2> QED BY <1>1, <2>1, OneCaches
<1> QED BY <1>3, <1>4

LEMMA UpdateCache ==
    ASSUME IsInjective(ProcessOf), StoreInv, CacheInv, NEW t \in Threads, Update(t) \/ UpdateUnheard(t)
    PROVE  CacheInv'
<1>1. PICK c : c = call[t] /\ IsCall(c) /\ c.old = FALSE
  BY InStore, InCache DEF Own
<1>2. PICK new, after, e : new = Written(c) /\ after = CallsAfter(new, ProcessOf[t]) /\ e = after[t]
  OBVIOUS
<1>3. c.step = "update"
  BY <1>1 DEF Update, UpdateUnheard
<1>4. IsCall(e) /\ e.step = "update" /\ e.old = FALSE
  BY <1>1, <1>2, <1>3, WriterIs DEF IsCall
<1>5. PICK step, raced : step = (IF Creates(c.plan) # {} THEN "create" ELSE "prove") /\ raced = c.raced
  OBVIOUS
<1>6. CASE Update(t)
  <2> DEFINE d == [e EXCEPT !.step = step, !.raced = raced]
  <2>1. call' = [after EXCEPT ![t] = d] /\ cache' = CacheAfter(ProcessOf[t])
    BY <1>1, <1>2, <1>5, <1>6 DEF Update
  <2>2. d.step = step /\ d.old = FALSE
    BY <1>4 DEF IsCall, CallFields
  <2> HIDE DEF d
  <2> QED BY <1>2, <1>5, <2>1, <2>2, WriteCache
<1>7. CASE UpdateUnheard(t)
  <2>0. PICK d : d = [e EXCEPT !.raced = TRUE]
    OBVIOUS
  <2>1. \/ call' = [after EXCEPT ![t] = d] /\ cache' = CacheAfter(ProcessOf[t])
        \/ call' = [after EXCEPT ![t] = Idle] /\ cache' = Invalidated(ProcessOf[t])
    BY <1>1, <1>2, <1>7, <2>0 DEF UpdateUnheard
  <2>2. d.step = "update" /\ d.old = FALSE
    BY <1>4, <2>0 DEF IsCall, CallFields
  <2>3. Idle.step = "idle" /\ Idle.old = FALSE
    BY DEF Idle
  <2>4. CASE call' = [after EXCEPT ![t] = d] /\ cache' = CacheAfter(ProcessOf[t])
    BY <1>2, <2>2, <2>4, WriteCache
  <2>5. CASE call' = [after EXCEPT ![t] = Idle] /\ cache' = Invalidated(ProcessOf[t])
    BY <1>2, <2>3, <2>5, WriteCache
  <2> QED BY <2>1, <2>4, <2>5
<1> QED BY <1>6, <1>7

LEMMA CreateCache ==
    ASSUME IsInjective(ProcessOf), StoreInv, CacheInv, NEW t \in Threads, NEW ids, Create(t, ids)
    PROVE  CacheInv'
<1>1. PICK c, new, after, e, made :
         /\ c = call[t] /\ new = Created(c, ids) /\ after = CallsAfter(new, ProcessOf[t]) /\ e = after[t]
         /\ made = Range(ids)
  OBVIOUS
<1>2. IsCall(e) /\ c.step = "create" /\ c.old = FALSE
  BY <1>1, WriterIs, InCache DEF Create, Own
<1>3. e.old = FALSE
  <2>1. PICK o : e = After(c, new, o) /\ o = (c.old \/ c.step \in {"publish", "put", "open"})
    BY <1>1, OwnAfter
  <2>2. IsCall(c) /\ o = FALSE
    BY <1>1, <1>2, <2>1, InStore
  <2> QED BY <2>1, <2>2, AfterIs
<1>4. PICK d : d = [e EXCEPT !.step = "prove", !.made = made, !.raced = FALSE]
  OBVIOUS
<1>5. \/ call' = [after EXCEPT ![t] = d] /\ cache' = CacheAfter(ProcessOf[t])
      \/ call' = [after EXCEPT ![t] = Idle] /\ cache' = Invalidated(ProcessOf[t])
  BY <1>1, <1>4 DEF Create
<1>6. d.step = "prove" /\ d.old = FALSE
  BY <1>2, <1>3, <1>4 DEF IsCall, CallFields
<1>7. Idle.step = "idle" /\ Idle.old = FALSE
  BY DEF Idle
<1>8. CASE call' = [after EXCEPT ![t] = d] /\ cache' = CacheAfter(ProcessOf[t])
  BY <1>1, <1>6, <1>8, WriteCache
<1>9. CASE call' = [after EXCEPT ![t] = Idle] /\ cache' = Invalidated(ProcessOf[t])
  BY <1>1, <1>7, <1>9, WriteCache
<1> QED BY <1>5, <1>8, <1>9

LEMMA EditCache ==
    ASSUME StoreInv, CacheInv, Edit
    PROVE  CacheInv'
<1>1. PICK new : call' = CallsAfter(new, None) /\ UNCHANGED cache
  BY DEF Edit, By
<1>2. ASSUME NEW t \in Threads PROVE Rests(call[t], call'[t])
  <2>1. PICK c, o : /\ c = call[t]
                    /\ o = (call[t].old \/ (call[t].step \in {"publish", "put", "open"} /\ ProcessOf[t] = None))
    OBVIOUS
  <2>2. call'[t] = After(c, new, o)
    BY <1>1, <2>1, CallsAfterIs
  <2>3. IsCall(c) /\ o = FALSE
    BY <2>1, InStore, InCache DEF Own
  <2>4. PICK e : e = After(c, new, o)
    OBVIOUS
  <2>5. e.step = c.step /\ e.rows = c.rows /\ e.old = FALSE
    BY <2>3, <2>4, AfterIs
  <2> QED BY <2>1, <2>2, <2>4, <2>5 DEF Rests
<1> QED BY <1>1, <1>2 DEF CacheInv, Own, Rests

LEMMA ExitCache ==
    ASSUME IsInjective(ProcessOf), StoreInv, CacheInv, NEW p \in Processes, Exit(p)
    PROVE  CacheInv'
<1>1. IsCache(Unloaded) /\ Own(Idle, Unloaded)
  BY DEF IsCache, CacheFields, Own, Idle, Unloaded
<1>2. PICK none, idle : none = Unloaded /\ idle = Idle
  OBVIOUS
<1>3. /\ cache' = [cache EXCEPT ![p] = none]
      /\ call' = [u \in Threads |-> IF ProcessOf[u] = p THEN idle ELSE call[u]]
  BY <1>2 DEF Exit
<1>4. IsCache(none) /\ Own(idle, none)
  BY <1>1, <1>2
<1>5. ASSUME NEW t \in Threads PROVE Own(call'[t], cache'[ProcessOf[t]])
  BY <1>3, <1>4 DEF CacheInv
<1> QED BY <1>3, <1>4, <1>5 DEF CacheInv

LEMMA CacheStep ==
    ASSUME IsInjective(ProcessOf), StoreInv, CacheInv, [Next]_vars
    PROVE  CacheInv'
<1>1. ASSUME NEW t \in Threads, Step(t) PROVE CacheInv'
  <2>1. CASE \E fresh \in BOOLEAN : Read(t, fresh)
    BY <2>1, PublishingCache DEF Read
  <2>2. CASE UpdateFails(t) \/ CreateFails(t) \/ Prove(t)
    BY <2>2, FailsCache, PublishingCache DEF UpdateFails, CreateFails, Prove
  <2> QED BY <1>1, <2>1, <2>2, BeginCache, RebaseCache, PublicationCache, UpdateCache, CreateCache DEF Step
<1>2. CASE UNCHANGED vars
  BY <1>2 DEF vars, CacheInv
<1> QED BY <1>1, <1>2, EditCache, ExitCache DEF Next

LEMMA CacheStart ==
    ASSUME Init
    PROVE  CacheInv
<1>1. IsCache(Unloaded) /\ Own(Idle, Unloaded)
  BY DEF IsCache, CacheFields, Own, Idle, Unloaded
<1> QED BY <1>1 DEF Init, CacheInv

LEMMA CacheSays ==
    ASSUME IsInjective(ProcessOf), CacheInv
    PROVE  OwnWritesAreSeen /\ LoadedIsWhole
<1>1. LoadedIsWhole
  BY DEF CacheInv, IsCache, LoadedIsWhole
<1>2. ASSUME NEW p \in Processes, \A t \in Threads : ProcessOf[t] = p => call[t].step = "idle"
      PROVE  ~cache[p].old
  <2>1. PICK t \in Threads : ProcessOf[t] = p
    BY DEF Processes, Range
  <2> QED BY <1>2, <2>1 DEF CacheInv, Own
<1> QED BY <1>1, <1>2 DEF OwnWritesAreSeen

-----------------------------------------------------------------------------
(* The NAV rows.  The table has a row per identity, and a row per date as  *)
(* long as people move none.                                               *)
OneId(xs)   == \A x, y \in xs : x.id = y.id => x = y
OneDate(xs) == \A x, y \in xs : x.date = y.date => x = y
There(xs)   == \A x \in xs : I!State(x) \in landed
Final(x)    == x.asked = "final" => x.det = "final"

TableInv ==
    /\ rows \subseteq I!NavRows /\ OneId(rows) /\ There(rows)
    /\ \A x \in rows : Final(x)
    /\ "date" \notin hand => OneDate(rows)

(* A number goes down with every write, and a state that a process wrote   *)
(* has one from before.                                                    *)
Spent == {"writes", "patches", "edits", "losses", "restarts"}

Older(ver, q) == \A y \in I!NavRows : I!State(y) \in wrote[q] => y.ver > ver

VersInv ==
    /\ rowsLeft \in [Spent -> Nat]
    /\ wrote = [p \in Processes |-> wrote[p]]
    /\ \A q \in Processes : Older(I!Fresh, q)

(* What a copy holds the table has held.  As long as people neither move a *)
(* row nor spoil one during a write, a copy has a row per date, and what   *)
(* the process wrote is in it for as long as it is in the table.           *)
Copy(xs) == xs \subseteq I!NavRows /\ There(xs) /\ (hand = {} => OneDate(xs))

Covers(xs, p) == \A x \in rows : I!State(x) \in wrote[p] => \E y \in xs : I!State(y) = I!State(x)

CopiesOf(v, m, p, busy) ==
    /\ v \in [rows : SUBSET I!NavRows, dirty : BOOLEAN]
    /\ m \in [loaded : BOOLEAN, rows : SUBSET I!NavRows]
    /\ Copy(v.rows) /\ Copy(m.rows)
    /\ hand = {} => /\ m.loaded /\ m.rows # {} => Covers(m.rows, p)
                    /\ v.rows # {} \/ busy => Covers(v.rows, p)

CopiesInv ==
    /\ view = [p \in Processes |-> view[p]] /\ mem = [p \in Processes |-> mem[p]]
    /\ Copy(disk)
    /\ \A p \in Processes : CopiesOf(view[p], mem[p], p, lock = p)

(* A write in progress holds the lock.  Its rows have a date and an        *)
(* identity each; those it updates are in the table, those it creates are  *)
(* not, unless people move rows; what is done of it is in the table,       *)
(* unless they spoil one as well.                                          *)
OpFields == {"step", "batch", "rows", "updates", "creates", "done"}

All(o) == o.updates \cup o.creates

Newer(x) == x.ver > I!Fresh /\ \A q \in Processes : Older(x.ver, q)

IsOp(o) ==
    /\ DOMAIN o = OpFields
    /\ o.step \in {"update", "create", "apply"}
    /\ All(o) \subseteq I!NavRows /\ o.done \subseteq I!NavRows
    /\ OneId(All(o)) /\ OneDate(All(o)) /\ o.updates \cap o.creates = {}
    /\ \A x \in All(o) : x.asked = x.det /\ x.ok
    /\ \A x \in All(o) \cup o.done : Newer(x)

IsDone(o) ==
    /\ o.step = "update" => o.done = {}
    /\ o.step = "create" => \A x \in o.done, y \in o.creates : x.id # y.id /\ x.date # y.date
    /\ OneDate(o.done) /\ There(o.done)
    /\ hand = {} => I!Readable /\ \A x \in o.done : \E y \in rows : I!State(y) = I!State(x)

Awaits(o) ==
    "date" \notin hand =>
      /\ o.step = "update" => \A x \in o.updates : \E y \in rows : y.id = x.id /\ y.date = x.date
      /\ o.step \in {"update", "create"} => \A x \in o.creates, y \in rows : y.date # x.date

Active(o) == IsOp(o) /\ IsDone(o) /\ Awaits(o)

LockInv ==
    /\ lock \in Processes \cup {None}
    /\ op = [p \in Processes |-> op[p]]
    /\ \A p \in Processes : IF lock = p THEN Active(op[p]) ELSE op[p] = I!Idle

IndexInv == TableInv /\ VersInv /\ CopiesInv /\ LockInv

-----------------------------------------------------------------------------
(* Rows and their states.                                                  *)
LEMMA RowIs ==
    ASSUME NEW x \in I!NavRows
    PROVE  /\ DOMAIN x = {"id", "date", "ver", "det", "asked", "ok"}
           /\ x.id \in RowIds /\ x.date \in Dates /\ x.ver \in Nat /\ x.ok \in BOOLEAN
           /\ x.det \in Details \cup {None} /\ x.asked \in Details \cup {None}
BY DEF I!NavRows

LEMMA StateIs ==
    ASSUME NEW x, NEW y
    PROVE  (I!State(x) = I!State(y)) <=> (x.id = y.id /\ x.date = y.date /\ x.ver = y.ver)
BY DEF I!State

LEMMA PatchedIs ==
    ASSUME NEW x \in I!NavRows, NEW v \in Nat, NEW d \in Dates, NEW b \in BOOLEAN
    PROVE  LET y == [x EXCEPT !.ver = v]
               z == [x EXCEPT !.date = d, !.ver = v]
               w == [x EXCEPT !.ok = b, !.ver = v]
           IN /\ y \in I!NavRows /\ y.id = x.id /\ y.date = x.date /\ y.ver = v
              /\ y.asked = x.asked /\ y.det = x.det /\ y.ok = x.ok
              /\ z \in I!NavRows /\ z.id = x.id /\ z.date = d /\ z.ver = v
              /\ z.asked = x.asked /\ z.det = x.det
              /\ w \in I!NavRows /\ w.id = x.id /\ w.date = x.date /\ w.ver = v
              /\ w.asked = x.asked /\ w.det = x.det
BY DEF I!NavRows

LEMMA StrippedIs ==
    ASSUME NEW x \in I!NavRows
    PROVE  LET y == [x EXCEPT !.det = None]
               z == [x EXCEPT !.det = None, !.asked = None]
           IN /\ y \in I!NavRows /\ y.id = x.id /\ y.date = x.date /\ y.ver = x.ver
              /\ y.asked = x.asked /\ y.det = None /\ y.ok = x.ok
              /\ z \in I!NavRows /\ z.id = x.id /\ z.date = x.date /\ z.ver = x.ver
              /\ z.asked = None /\ z.det = None /\ z.ok = x.ok
BY DEF I!NavRows

LEMMA FreshIs ==
    ASSUME VersInv
    PROVE  /\ I!Fresh \in Nat
           /\ \A what \in Spent : I!Spend(what) => /\ I!Fresh > 0 /\ I!Fresh' = I!Fresh - 1
                                                   /\ rowsLeft' \in [Spent -> Nat]
           /\ UNCHANGED rowsLeft => I!Fresh' = I!Fresh
<1>1. I!Fresh \in Nat
  BY DEF VersInv, Spent, I!Fresh
<1>2. ASSUME NEW what \in Spent, I!Spend(what)
      PROVE  /\ I!Fresh > 0 /\ I!Fresh' = I!Fresh - 1
             /\ rowsLeft' \in [Spent -> Nat]
  BY <1>2 DEF VersInv, Spent, I!Fresh, I!Spend
<1>3. UNCHANGED rowsLeft => I!Fresh' = I!Fresh
  BY DEF I!Fresh
<1> QED BY <1>1, <1>2, <1>3

LEMMA TwinsIs ==
    ASSUME NEW xs, OneId(xs)
    PROVE  I!Twins(xs) <=> ~OneDate(xs)
BY DEF I!Twins, OneDate, OneId

-----------------------------------------------------------------------------
(* What was true of a copy stays so: the history grows, and no state that  *)
(* a process wrote comes back.                                             *)
Grows == landed \subseteq landed' /\ hand \subseteq hand'

Shrinks(p) ==
    \A x \in rows' : I!State(x) \in wrote'[p]
      => I!State(x) \in wrote[p] /\ \E y \in rows : I!State(y) = I!State(x)

LEMMA CopyStays ==
    ASSUME NEW xs, Copy(xs), Grows
    PROVE  Copy(xs)'
BY DEF Copy, There, Grows, I!State

LEMMA CoversStays ==
    ASSUME NEW xs, NEW p, Covers(xs, p), Shrinks(p)
    PROVE  Covers(xs, p)'
BY DEF Covers, Shrinks, I!State

LEMMA CopiesStay ==
    ASSUME NEW v, NEW m, NEW p, NEW busy, CopiesOf(v, m, p, busy), Grows, Shrinks(p)
    PROVE  CopiesOf(v, m, p, busy)'
<1>1. Copy(v.rows)' /\ Copy(m.rows)'
  BY CopyStays DEF CopiesOf
<1>2. hand' = {} => hand = {}
  BY DEF Grows
<1>3. Covers(m.rows, p) => Covers(m.rows, p)'
  BY CoversStays
<1>4. Covers(v.rows, p) => Covers(v.rows, p)'
  BY CoversStays
<1> QED BY <1>1, <1>2, <1>3, <1>4 DEF CopiesOf

LEMMA LessBusy ==
    ASSUME NEW v, NEW m, NEW p, NEW busy, NEW lazy, CopiesOf(v, m, p, busy), lazy => busy
    PROVE  CopiesOf(v, m, p, lazy)
BY DEF CopiesOf

(* One process' copies change, or none.                                    *)
LEMMA OneCopies ==
    ASSUME CopiesInv, NEW p \in Processes, NEW v, NEW m,
           view' = [view EXCEPT ![p] = v], mem' = [mem EXCEPT ![p] = m],
           NEW busy, lock' = p => busy, CopiesOf(v, m, p, busy)', Copy(disk)', Grows,
           \A q \in Processes \ {p} : Shrinks(q) /\ (lock' = q => lock = q)
    PROVE  CopiesInv'
<1>1. \A q \in Processes : CopiesOf(view[q], mem[q], q, lock = q)
  BY DEF CopiesInv
<1>2. /\ view' = [q \in Processes |-> IF q = p THEN v ELSE view[q]]
      /\ mem' = [q \in Processes |-> IF q = p THEN m ELSE mem[q]]
  BY DEF CopiesInv
<1>3. ASSUME NEW q \in Processes PROVE (CopiesOf(view[q], mem[q], q, lock = q))'
  <2>1. CASE q = p
    <3>1. PICK x, y, b : x = view'[q] /\ y = mem'[q] /\ b = (lock' = q)
      OBVIOUS
    <3>2. x = v /\ y = m /\ (b => busy)
      BY <1>2, <2>1, <3>1
    <3>3. CopiesOf(x, y, q, b)'
      BY <2>1, <3>2 DEF CopiesOf
    <3> QED BY <3>1, <3>3
  <2>2. CASE q # p
    <3>1. PICK x, y, b : x = view[q] /\ y = mem[q] /\ b = (lock' = q)
      OBVIOUS
    <3>2. CopiesOf(x, y, q, b)
      BY <1>1, <2>2, <3>1, LessBusy
    <3>3. CopiesOf(x, y, q, b)'
      BY <2>2, <3>2, CopiesStay
    <3>4. x = view'[q] /\ y = mem'[q]
      BY <1>2, <2>2, <3>1
    <3> QED BY <3>1, <3>3, <3>4
  <2> QED BY <2>1, <2>2
<1>4. view' = [q \in Processes |-> view'[q]] /\ mem' = [q \in Processes |-> mem'[q]]
  BY <1>2
<1> QED BY <1>3, <1>4 DEF CopiesInv

(* What a read makes of the copies of a process.                           *)
Full   == [rows |-> rows, dirty |-> TRUE]
Loaded == [loaded |-> TRUE, rows |-> rows]
Blank  == [rows |-> {}, dirty |-> FALSE]

LEMMA TableIsCopy ==
    ASSUME TableInv
    PROVE  Copy(rows) /\ \A p : Covers(rows, p)
BY DEF TableInv, Copy, Covers

LEMMA FullIsCopy ==
    ASSUME TableInv, NEW p, NEW busy
    PROVE  CopiesOf(Full, Loaded, p, busy) /\ CopiesOf(Full, I!Unloaded, p, busy)
<1>1. Copy(rows) /\ Covers(rows, p) /\ Copy({})
  BY TableIsCopy DEF Copy, There, OneDate
<1>2. rows \in SUBSET I!NavRows
  BY DEF TableInv
<1> QED BY <1>1, <1>2 DEF CopiesOf, Full, Loaded, I!Unloaded

LEMMA LoadedIsCopy ==
    ASSUME TableInv, NEW v, NEW m, NEW p, NEW busy, CopiesOf(v, m, p, busy)
    PROVE  CopiesOf(v, Loaded, p, busy) /\ CopiesOf(v, I!Unloaded, p, busy)
<1>1. Copy(rows) /\ Covers(rows, p) /\ Copy({})
  BY TableIsCopy DEF Copy, There, OneDate
<1>2. rows \in SUBSET I!NavRows
  BY DEF TableInv
<1> QED BY <1>1, <1>2 DEF CopiesOf, Loaded, I!Unloaded

LEMMA BlankIsCopy ==
    ASSUME NEW p, NEW busy, hand = {} => ~busy
    PROVE  CopiesOf(Blank, I!Unloaded, p, busy)
<1>1. Copy({})
  BY DEF Copy, There, OneDate
<1> QED BY <1>1 DEF CopiesOf, Blank, I!Unloaded

LEMMA PreloadedIs ==
    ASSUME IndexInv, NEW p \in Processes, NEW keep \in BOOLEAN, I!Preloaded(p, keep)
    PROVE  \E v, m : /\ view' = [view EXCEPT ![p] = v] /\ mem' = [mem EXCEPT ![p] = m]
                     /\ disk' = disk \/ disk' = {}
                     /\ CopiesOf(v, m, p, lock = p)
<1>1. PICK v, m : v = view[p] /\ m = mem[p] /\ CopiesOf(v, m, p, lock = p)
  BY DEF IndexInv, CopiesInv
<1>2. view = [view EXCEPT ![p] = v] /\ mem = [mem EXCEPT ![p] = m]
  BY <1>1 DEF IndexInv, CopiesInv
<1>3. PICK full, filled, blank, none : full = Full /\ filled = Loaded /\ blank = Blank /\ none = I!Unloaded
  OBVIOUS
<1>4. CASE I!Answers /\ I!Readable /\ keep
  <2>1. view' = [view EXCEPT ![p] = full] /\ mem' = [mem EXCEPT ![p] = filled] /\ disk' = disk
    BY <1>3, <1>4 DEF I!Preloaded, I!Stored, I!Cleared, Full, Loaded
  <2>2. CopiesOf(full, filled, p, lock = p)
    BY <1>3, FullIsCopy DEF IndexInv
  <2> QED BY <2>1, <2>2
<1>5. CASE I!Answers /\ I!Readable /\ ~keep
  <2>1. view' = view /\ mem' = [mem EXCEPT ![p] = filled] /\ disk' = disk
    BY <1>3, <1>5 DEF I!Preloaded, I!Stored, I!Cleared, Full, Loaded
  <2>2. CopiesOf(v, filled, p, lock = p)
    BY <1>1, <1>3, LoadedIsCopy DEF IndexInv
  <2> QED BY <1>2, <1>5, <2>1, <2>2
<1>6. CASE I!Answers /\ ~I!Readable
  <2>1. view' = [view EXCEPT ![p] = blank] /\ mem' = [mem EXCEPT ![p] = none] /\ disk' = {}
    BY <1>3, <1>6 DEF I!Preloaded, I!Stored, I!Cleared, Blank
  <2>2. hand = {} => lock # p
    BY <1>6 DEF IndexInv, LockInv, Active, IsDone
  <2>3. CopiesOf(blank, none, p, lock = p)
    BY <1>3, <2>2, BlankIsCopy
  <2> QED BY <1>6, <2>1, <2>3
<1>7. CASE ~I!Answers
  <2>1. view' = view /\ mem' = mem /\ disk' = disk
    BY <1>7 DEF I!Preloaded
  <2> QED BY <1>1, <1>2, <1>7, <2>1
<1> QED BY <1>4, <1>5, <1>6, <1>7

LEMMA PreloadedWhole ==
    ASSUME IndexInv, NEW p \in Processes, I!Preloaded(p, TRUE), I!Answers, I!Readable
    PROVE  \E v, m : /\ view' = [view EXCEPT ![p] = v] /\ mem' = [mem EXCEPT ![p] = m]
                     /\ disk' = disk
                     /\ \A busy : CopiesOf(v, m, p, busy)
<1>1. PICK full, filled : full = Full /\ filled = Loaded
  OBVIOUS
<1>2. view' = [view EXCEPT ![p] = full] /\ mem' = [mem EXCEPT ![p] = filled] /\ disk' = disk
  BY <1>1 DEF I!Preloaded, I!Stored, I!Cleared, Full, Loaded
<1>3. \A busy : CopiesOf(full, filled, p, busy)
  BY <1>1, FullIsCopy DEF IndexInv
<1> QED BY <1>2, <1>3

-----------------------------------------------------------------------------
(* Reads, and the timer: only copies change.                               *)
LEMMA StandsStill ==
    ASSUME IndexInv, UNCHANGED <<rows, schema, lock, op, rowsLeft, landed, wrote, hand>>
    PROVE  /\ TableInv' /\ VersInv' /\ LockInv' /\ Grows
           /\ \A p : Shrinks(p)
<1>1. I!Fresh' = I!Fresh /\ (I!Readable' <=> I!Readable)
  BY DEF I!Fresh, I!Readable
<1>2. TableInv' /\ Grows /\ \A p : Shrinks(p)
  BY DEF IndexInv, TableInv, There, I!State, Grows, Shrinks
<1>3. VersInv'
  BY <1>1 DEF IndexInv, VersInv, Older, I!State
<1>4. \A o : Active(o) => Active(o)'
  BY <1>1 DEF Active, IsOp, IsDone, Awaits, Newer, Older, There, I!State
<1>5. LockInv'
  BY <1>4 DEF IndexInv, LockInv
<1> QED BY <1>2, <1>3, <1>5

LEMMA QuietOK ==
    ASSUME IndexInv, NEW p \in Processes, NEW v, NEW m,
           UNCHANGED <<rows, schema, lock, op, rowsLeft, landed, wrote, hand>>,
           view' = [view EXCEPT ![p] = v], mem' = [mem EXCEPT ![p] = m],
           CopiesOf(v, m, p, lock = p), Copy(disk')
    PROVE  IndexInv'
<1>1. TableInv' /\ VersInv' /\ LockInv' /\ Grows /\ \A q : Shrinks(q)
  BY StandsStill
<1>2. PICK xs, busy : xs = disk' /\ busy = (lock = p)
  OBVIOUS
<1>3. Copy(xs)' /\ CopiesOf(v, m, p, busy)'
  BY <1>1, <1>2, CopyStays, CopiesStay
<1>4. Copy(disk)'
  BY <1>2, <1>3 DEF Copy
<1>5. CopiesInv'
  BY <1>1, <1>2, <1>3, <1>4, OneCopies DEF IndexInv
<1> QED BY <1>1, <1>5 DEF IndexInv

LEMMA ReadFreshOK ==
    ASSUME IndexInv, NEW p \in Processes, NEW keep \in BOOLEAN, I!ReadFresh(p, keep)
    PROVE  IndexInv'
<1>1. PICK v, m : /\ view' = [view EXCEPT ![p] = v] /\ mem' = [mem EXCEPT ![p] = m]
                  /\ disk' = disk \/ disk' = {}
                  /\ CopiesOf(v, m, p, lock = p)
  BY PreloadedIs DEF I!ReadFresh
<1>2. Copy(disk')
  BY <1>1 DEF IndexInv, CopiesInv, Copy, There, OneDate
<1> QED BY <1>1, <1>2, QuietOK DEF I!ReadFresh

LEMMA ReadOK ==
    ASSUME IndexInv, NEW p \in Processes, I!Read(p)
    PROVE  IndexInv'
<1>1. CASE I!Preloaded(p, TRUE)
  <2>1. PICK v, m : /\ view' = [view EXCEPT ![p] = v] /\ mem' = [mem EXCEPT ![p] = m]
                    /\ disk' = disk \/ disk' = {}
                    /\ CopiesOf(v, m, p, lock = p)
    BY <1>1, PreloadedIs
  <2>2. Copy(disk')
    BY <2>1 DEF IndexInv, CopiesInv, Copy, There, OneDate
  <2> QED BY <2>1, <2>2, QuietOK DEF I!Read
<1>2. CASE ~I!Preloaded(p, TRUE)
  <2>1. PICK v, m, n : v = view[p] /\ m = [loaded |-> TRUE, rows |-> v.rows] /\ n = mem[p]
    OBVIOUS
  <2>2. /\ view' = [view EXCEPT ![p] = v] /\ mem' = [mem EXCEPT ![p] = m] /\ UNCHANGED disk
    BY <1>2, <2>1 DEF I!Read, IndexInv, CopiesInv
  <2>3. CopiesOf(v, n, p, lock = p)
    BY <2>1 DEF IndexInv, CopiesInv
  <2>4. CopiesOf(v, m, p, lock = p)
    BY <2>1, <2>3 DEF CopiesOf
  <2> QED BY <1>2, <2>2, <2>4, QuietOK DEF I!Read, IndexInv, CopiesInv
<1> QED BY <1>1, <1>2

LEMMA FlushOK ==
    ASSUME IndexInv, NEW p \in Processes, I!Flush(p)
    PROVE  IndexInv'
<1>1. PICK u, v, m : u = view[p] /\ v = [u EXCEPT !.dirty = FALSE] /\ m = mem[p]
  OBVIOUS
<1>2. CopiesOf(u, m, p, lock = p)
  BY <1>1 DEF IndexInv, CopiesInv
<1>3. v.rows = u.rows /\ v \in [rows : SUBSET I!NavRows, dirty : BOOLEAN]
  BY <1>1, <1>2 DEF CopiesOf
<1>4. CopiesOf(v, m, p, lock = p) /\ Copy(u.rows)
  BY <1>2, <1>3 DEF CopiesOf
<1>5. /\ view' = [view EXCEPT ![p] = v] /\ mem' = [mem EXCEPT ![p] = m] /\ disk' = u.rows
  BY <1>1 DEF I!Flush, IndexInv, CopiesInv
<1>6. Copy(disk')
  BY <1>4, <1>5
<1>7. UNCHANGED <<rows, schema, lock, op, rowsLeft, landed, wrote, hand>>
  BY DEF I!Flush
<1> QED BY <1>4, <1>5, <1>6, <1>7, QuietOK

-----------------------------------------------------------------------------
(* Rows that are written replace those with their identities.  They keep   *)
(* the table in order when they have identities of their own, and dates no *)
(* other row has.                                                          *)
Fits(xs) ==
    /\ OneDate(xs)
    /\ \A x \in xs, y \in rows : y.date = x.date => y.id = x.id

LEMMA WrittenTable ==
    ASSUME TableInv, NEW xs, xs \subseteq I!NavRows, OneId(xs), \A x \in xs : Final(x), I!Written(xs),
           hand \subseteq hand', "date" \notin hand' => Fits(xs)
    PROVE  TableInv' /\ Grows
<1>1. /\ \A y \in rows' : y \in xs \/ (y \in rows /\ \A x \in xs : x.id # y.id)
      /\ rows' = {r \in rows : \A s \in xs : s.id # r.id} \cup xs
  BY DEF I!Written
<1>2. rows' \subseteq I!NavRows /\ OneId(rows') /\ \A x \in rows' : Final(x)
  BY <1>1 DEF TableInv, OneId
<1>3. \A x \in rows' : I!State(x) \in landed'
  BY <1>1 DEF I!Written, TableInv, There
<1>4. "date" \notin hand' => OneDate(rows')
  BY <1>1 DEF TableInv, OneDate, Fits
<1>5. Grows
  BY DEF I!Written, Grows
<1> QED BY <1>2, <1>3, <1>4, <1>5 DEF TableInv, There, OneId, OneDate, Final, I!State

LEMMA WrittenShrinks ==
    ASSUME NEW xs, xs \subseteq I!NavRows, I!Written(xs), NEW q, \A x \in xs : Older(x.ver, q),
           wrote'[q] = wrote[q] \/ wrote'[q] = {}
    PROVE  Shrinks(q)
<1>1. \A y \in rows' : y \in xs \/ y \in rows
  BY DEF I!Written
<1>2. \A x \in xs : I!State(x) \notin wrote[q]
  BY RowIs DEF Older
<1> QED BY <1>1, <1>2 DEF Shrinks

LEMMA SameShrinks ==
    ASSUME NEW q, UNCHANGED rows, wrote'[q] = wrote[q] \/ wrote'[q] = {}
    PROVE  Shrinks(q)
BY DEF Shrinks

(* What reaches the table of the rows of a stage.                          *)
Same(x, y) == x.id = y.id /\ x.date = y.date /\ x.ver = y.ver

LEMMA AcceptedIs ==
    ASSUME NEW xs, xs \subseteq I!NavRows, OneId(xs), OneDate(xs),
           \A x \in xs : x.asked = x.det /\ x.ok
    PROVE  /\ I!Accepted(xs) \subseteq I!NavRows
           /\ \A y \in I!Accepted(xs) : y.ok /\ \E x \in xs : Same(x, y)
           /\ OneId(I!Accepted(xs)) /\ OneDate(I!Accepted(xs))
           /\ ~I!Refused(xs) => \A y \in I!Accepted(xs) : Final(y)
<1>1. CASE schema
  <2>1. I!Accepted(xs) = xs
    BY <1>1 DEF I!Accepted
  <2> QED BY <2>1 DEF Same, Final
<1>2. CASE ~schema
  <2> DEFINE strip(x) == [x EXCEPT !.det = None]
  <2>1. I!Accepted(xs) = {strip(x) : x \in xs}
    BY <1>2 DEF I!Accepted, I!Stripped
  <2>2. \A x \in xs : /\ strip(x) \in I!NavRows /\ Same(x, strip(x)) /\ strip(x).ok
                      /\ strip(x).asked = x.asked
    BY StrippedIs DEF Same
  <2> HIDE DEF strip
  <2>3. ~I!Refused(xs) => \A x \in xs : x.det # "final"
    BY <1>2 DEF I!Refused, I!Droppable
  <2>4. \A y \in I!Accepted(xs) : \E x \in xs : y = strip(x)
    BY <2>1
  <2>5. OneId(I!Accepted(xs)) /\ OneDate(I!Accepted(xs))
    BY <2>2, <2>4 DEF OneId, OneDate, Same
  <2>6. ~I!Refused(xs) => \A y \in I!Accepted(xs) : Final(y)
    BY <2>2, <2>3, <2>4 DEF Final
  <2> QED BY <2>2, <2>4, <2>5, <2>6
<1> QED BY <1>1, <1>2

LEMMA InOp ==
    ASSUME IndexInv, NEW p \in Processes, I!Idle.step # op[p].step
    PROVE  lock = p /\ Active(op[p]) /\ \A q \in Processes \ {p} : op[q] = I!Idle
BY DEF IndexInv, LockInv

(* The stage of a write fits into the table.                               *)
LEMMA StageIs ==
    ASSUME IndexInv, NEW p \in Processes, op[p].step \in {"update", "create"},
           NEW xs, xs = I!Accepted(I!Stage(p)), ~I!Refused(I!Stage(p))
    PROVE  /\ lock = p /\ Active(op[p])
           /\ I!Stage(p) = (IF op[p].step = "update" THEN op[p].updates ELSE op[p].creates)
           /\ xs \subseteq I!NavRows /\ OneId(xs) /\ OneDate(xs)
           /\ \A x \in xs : Final(x) /\ Newer(x) /\ x.ok /\ \E y \in I!Stage(p) : Same(y, x)
           /\ "date" \notin hand => Fits(xs)
<1>1. lock = p /\ Active(op[p])
  BY InOp DEF I!Idle
<1>2. PICK o : o = op[p]
  OBVIOUS
<1>3. PICK ys : ys = I!Stage(p)
  OBVIOUS
<1>4. /\ ys = (IF o.step = "update" THEN o.updates ELSE o.creates)
      /\ IsOp(o) /\ Awaits(o) /\ o.step \in {"update", "create"} /\ ys \subseteq All(o)
  BY <1>1, <1>2, <1>3 DEF I!Stage, Active, All
<1>5. /\ ys \subseteq I!NavRows /\ OneId(ys) /\ OneDate(ys)
      /\ \A y \in ys : y.asked = y.det /\ y.ok /\ Newer(y)
  BY <1>4 DEF IsOp, OneId, OneDate
<1>6. /\ xs \subseteq I!NavRows /\ OneId(xs) /\ OneDate(xs)
      /\ \A x \in xs : Final(x) /\ x.ok /\ \E y \in ys : Same(y, x)
  BY <1>3, <1>5, AcceptedIs
<1>7. \A x \in xs : Newer(x)
  BY <1>5, <1>6 DEF Newer, Same
<1>8. ASSUME "date" \notin hand PROVE Fits(xs)
  <2>1. OneDate(rows)
    BY <1>8 DEF IndexInv, TableInv
  <2>2. ASSUME NEW x \in xs, NEW y \in rows, y.date = x.date PROVE y.id = x.id
    <3>1. PICK z \in ys : Same(z, x)
      BY <1>6
    <3>2. CASE o.step = "update"
      <4>1. PICK r \in rows : r.id = z.id /\ r.date = z.date
        BY <1>4, <1>8, <3>2 DEF Awaits
      <4> QED BY <2>1, <2>2, <3>1, <4>1 DEF OneDate, Same
    <3>3. CASE o.step = "create"
      BY <1>4, <1>8, <2>2, <3>1, <3>3 DEF Awaits, Same
    <3> QED BY <1>4, <3>2, <3>3
  <2> QED BY <1>6, <2>2 DEF Fits
<1> QED BY <1>1, <1>2, <1>3, <1>4, <1>6, <1>7, <1>8

LEMMA StageShrinks ==
    ASSUME NEW xs, xs \subseteq I!NavRows, \A x \in xs : Newer(x), I!Written(xs), UNCHANGED wrote
    PROVE  \A q \in Processes : Shrinks(q)
BY WrittenShrinks DEF Newer

(* The write ends.                                                         *)
LEMMA EndedIs ==
    ASSUME IndexInv, NEW p \in Processes, lock = p, I!Ended(p)
    PROVE  LockInv' /\ lock' = None
<1>1. lock' = None /\ \A q \in Processes : lock' # q
  BY IndexFacts DEF I!Ended, I!Release, I!IndexAssumption
<1>2. op' = [op EXCEPT ![p] = I!Idle] /\ op = [q \in Processes |-> op[q]]
  BY DEF I!Ended, IndexInv, LockInv
<1>3. \A q \in Processes : q # p => op[q] = I!Idle
  BY DEF IndexInv, LockInv
<1>4. PICK idle : idle = I!Idle
  OBVIOUS
<1>5. op' = [q \in Processes |-> idle]
  BY <1>2, <1>3, <1>4
<1> QED BY <1>1, <1>4, <1>5 DEF LockInv, I!Idle

-----------------------------------------------------------------------------
(* A stage lands and is heard.                                             *)
LEMMA VersStay ==
    ASSUME IndexInv, rowsLeft' \in [Spent -> Nat], I!Fresh' \in Nat, I!Fresh' <= I!Fresh, UNCHANGED wrote
    PROVE  VersInv' /\ \A x \in I!NavRows : Newer(x) => Newer(x)'
<1>1. \A q \in Processes, n \in Nat : Older(n, q) => Older(n, q)'
  BY DEF Older, I!State
<1>2. \A q \in Processes : Older(I!Fresh, q) => Older(I!Fresh, q)'
  BY FreshIs, RowIs DEF IndexInv, VersInv, Older, I!State
<1>3. \A x \in I!NavRows : Newer(x) => Newer(x)'
  BY <1>1, RowIs, FreshIs DEF IndexInv, Newer
<1> QED BY <1>2, <1>3 DEF IndexInv, VersInv

LEMMA LandedIs ==
    ASSUME IndexInv, NEW p \in Processes, I!StageLands(p), NEW o, o = op[p],
           NEW xs, xs = I!Accepted(I!Stage(p)),
           NEW d, d = [o EXCEPT !.step = IF @ = "update" THEN "create" ELSE "apply", !.done = @ \cup xs]
    PROVE  Active(d)'
<1>1. /\ lock = p /\ Active(o) /\ o.step \in {"update", "create"}
      /\ I!Stage(p) = (IF o.step = "update" THEN o.updates ELSE o.creates)
      /\ xs \subseteq I!NavRows /\ OneId(xs) /\ OneDate(xs)
      /\ \A x \in xs : Final(x) /\ Newer(x) /\ x.ok /\ \E y \in I!Stage(p) : Same(y, x)
      /\ I!Written(xs)
  BY StageIs DEF I!StageLands
<1>2. DOMAIN o = OpFields
  BY <1>1 DEF Active, IsOp
<1>3. /\ DOMAIN d = OpFields /\ d.step = (IF o.step = "update" THEN "create" ELSE "apply")
      /\ d.updates = o.updates /\ d.creates = o.creates /\ All(d) = All(o) /\ d.done = o.done \cup xs
  BY <1>2 DEF OpFields, All
<1>4. /\ rows' = {r \in rows : \A s \in xs : s.id # r.id} \cup xs
      /\ landed' = landed \cup {I!State(r) : r \in xs}
      /\ UNCHANGED <<wrote, hand, rowsLeft>>
  BY <1>1 DEF I!Written, I!StageLands
<1>5. \A y \in rows' : y \in xs \/ (y \in rows /\ \A x \in xs : x.id # y.id)
  BY <1>4
<1>6. \A x \in I!NavRows : Newer(x) => Newer(x)'
  BY <1>4 DEF Newer, Older, I!Fresh, I!State
<1>7. IsOp(d)'
  <2>1. \A x \in All(d) \cup d.done : Newer(x) /\ x \in I!NavRows
    BY <1>1, <1>3 DEF Active, IsOp
  <2>2. /\ DOMAIN d = OpFields /\ d.step \in {"update", "create", "apply"}
        /\ All(d) \subseteq I!NavRows /\ d.done \subseteq I!NavRows
        /\ OneId(All(d)) /\ OneDate(All(d)) /\ d.updates \cap d.creates = {}
        /\ \A x \in All(d) : x.asked = x.det /\ x.ok
    BY <1>1, <1>3 DEF Active, IsOp
  <2> QED BY <1>6, <2>1, <2>2 DEF IsOp
<1>8. CASE o.step = "update"
  <2>1. d.step = "create" /\ d.done = xs /\ \A x \in xs : \E y \in o.updates : Same(y, x)
    BY <1>1, <1>3, <1>8 DEF Active, IsDone
  <2>2. \A x \in xs, y \in o.creates : x.id # y.id /\ x.date # y.date
    BY <1>1, <2>1 DEF Active, IsOp, All, OneId, OneDate, Same
  <2>3. hand = {} => I!Readable' /\ \A x \in xs : x \in rows'
    BY <1>1, <1>4, <1>5 DEF Active, IsDone, I!Readable
  <2>4. \A x \in xs : I!State(x) \in landed'
    BY <1>4
  <2>5. IsDone(d)'
    BY <1>1, <1>3, <1>4, <2>1, <2>2, <2>3, <2>4 DEF IsDone, There, I!State, OneDate
  <2>6. Awaits(d)'
    BY <1>1, <1>3, <1>4, <1>5, <1>8, <2>1, <2>2 DEF Active, Awaits
  <2> QED BY <1>7, <2>5, <2>6 DEF Active
<1>9. CASE o.step = "create"
  <2>1. d.step = "apply" /\ d.done = o.done \cup xs /\ \A x \in xs : \E y \in o.creates : Same(y, x)
    BY <1>1, <1>3, <1>9
  <2>2. \A x \in o.done, y \in xs : x.id # y.id /\ x.date # y.date
    BY <1>1, <1>9, <2>1 DEF Active, IsDone, Same
  <2>3. OneDate(d.done)
    BY <1>1, <2>1, <2>2 DEF Active, IsDone, OneDate
  <2>4. There(d.done)'
    BY <1>1, <1>4, <2>1 DEF Active, IsDone, There, I!State
  <2>5. ASSUME hand = {} PROVE I!Readable' /\ \A x \in d.done : \E y \in rows' : I!State(y) = I!State(x)
    <3>1. I!Readable'
      BY <1>1, <1>5, <2>5 DEF Active, IsDone, I!Readable
    <3>2. ASSUME NEW x \in o.done PROVE \E y \in rows' : I!State(y) = I!State(x)
      <4>1. PICK y \in rows : I!State(y) = I!State(x)
        BY <1>1, <2>5 DEF Active, IsDone
      <4>2. y \in rows'
        BY <1>4, <2>2, <4>1, StateIs
      <4> QED BY <4>1, <4>2
    <3> QED BY <1>4, <2>1, <3>1, <3>2
  <2>6. IsDone(d)'
    BY <1>4, <2>1, <2>3, <2>4, <2>5 DEF IsDone, I!State
  <2>7. Awaits(d)'
    BY <2>1 DEF Awaits
  <2> QED BY <1>7, <2>6, <2>7 DEF Active
<1> QED BY <1>1, <1>8, <1>9

LEMMA CopiesKept ==
    ASSUME IndexInv, Grows, UNCHANGED <<view, mem, disk>>, \A q \in Processes : Shrinks(q),
           \A q \in Processes : lock' = q => lock = q
    PROVE  CopiesInv'
<1>1. ASSUME NEW q \in Processes PROVE (CopiesOf(view[q], mem[q], q, lock = q))'
  <2>1. PICK x, y, b : x = view[q] /\ y = mem[q] /\ b = (lock' = q)
    OBVIOUS
  <2>2. CopiesOf(x, y, q, b)
    BY <2>1, LessBusy DEF IndexInv, CopiesInv
  <2>3. CopiesOf(x, y, q, b)'
    BY <2>2, CopiesStay
  <2> QED BY <2>1, <2>3
<1>2. PICK xs : xs = disk
  OBVIOUS
<1>3. Copy(xs)'
  BY <1>2, CopyStays DEF IndexInv, CopiesInv
<1> QED BY <1>1, <1>2, <1>3 DEF IndexInv, CopiesInv

LEMMA StageLandsOK ==
    ASSUME IndexInv, NEW p \in Processes, I!StageLands(p)
    PROVE  IndexInv'
<1>1. PICK o, xs : o = op[p] /\ xs = I!Accepted(I!Stage(p))
  OBVIOUS
<1>2. PICK d : d = [o EXCEPT !.step = IF @ = "update" THEN "create" ELSE "apply", !.done = @ \cup xs]
  OBVIOUS
<1>3. /\ lock = p /\ xs \subseteq I!NavRows /\ OneId(xs)
      /\ \A x \in xs : Final(x) /\ Newer(x)
      /\ "date" \notin hand => Fits(xs)
      /\ I!Written(xs)
      /\ UNCHANGED <<view, mem, disk, lock, rowsLeft, wrote, hand>>
      /\ op' = [op EXCEPT ![p] = d]
  BY <1>1, <1>2, StageIs DEF I!StageLands
<1>4. TableInv' /\ Grows
  BY <1>3, WrittenTable DEF IndexInv
<1>5. CopiesInv'
  BY <1>3, <1>4, StageShrinks, CopiesKept
<1>6. VersInv'
  BY <1>3, FreshIs, VersStay DEF IndexInv, VersInv
<1>7. Active(d)'
  BY <1>1, <1>2, LandedIs
<1>8. LockInv'
  <2>1. PICK idle : idle = I!Idle
    OBVIOUS
  <2>2. op = [q \in Processes |-> op[q]] /\ \A q \in Processes : q # p => op[q] = idle
    BY <1>3, <2>1 DEF IndexInv, LockInv
  <2>3. op' = [q \in Processes |-> IF q = p THEN d ELSE idle]
    BY <1>3, <2>2
  <2> QED BY <1>3, <1>7, <2>1, <2>3 DEF IndexInv, LockInv, I!Idle
<1> QED BY <1>4, <1>5, <1>6, <1>8 DEF IndexInv

(* After a failure the index is read again, or forgotten.                  *)
LEMMA FullLater ==
    ASSUME TableInv', NEW xs, xs = rows', NEW p, NEW busy
    PROVE  CopiesOf([rows |-> xs, dirty |-> TRUE], [loaded |-> TRUE, rows |-> xs], p, busy)'
<1>1. xs \in SUBSET I!NavRows /\ Copy(xs)' /\ Covers(xs, p)'
  BY DEF TableInv, Copy, Covers, There
<1> QED BY <1>1 DEF CopiesOf

LEMMA BlankLater ==
    ASSUME NEW p
    PROVE  CopiesOf([rows |-> {}, dirty |-> FALSE], [loaded |-> FALSE, rows |-> {}], p, FALSE)'
<1>1. Copy({})'
  BY DEF Copy, There, OneDate
<1> QED BY <1>1 DEF CopiesOf

LEMMA RebuiltOK ==
    ASSUME IndexInv, NEW p \in Processes, I!Rebuilt(p), TableInv', Grows, lock' = None,
           \A q \in Processes : Shrinks(q)
    PROVE  CopiesInv'
<1>1. PICK xs : xs = rows'
  OBVIOUS
<1>2. PICK v, m : /\ \/ v = [rows |-> xs, dirty |-> TRUE] /\ m = [loaded |-> TRUE, rows |-> xs]
                     \/ v = [rows |-> {}, dirty |-> FALSE] /\ m = [loaded |-> FALSE, rows |-> {}]
                  /\ view' = [view EXCEPT ![p] = v] /\ mem' = [mem EXCEPT ![p] = m]
  BY <1>1 DEF I!Rebuilt, I!Cleared, I!Unloaded
<1>3. CopiesOf(v, m, p, FALSE)'
  <2>1. CASE v = [rows |-> xs, dirty |-> TRUE] /\ m = [loaded |-> TRUE, rows |-> xs]
    <3>1. PICK busy : busy = FALSE
      OBVIOUS
    <3>2. CopiesOf(v, m, p, busy)'
      BY <1>1, <2>1, FullLater
    <3> QED BY <3>1, <3>2
  <2>2. CASE v = [rows |-> {}, dirty |-> FALSE] /\ m = [loaded |-> FALSE, rows |-> {}]
    BY <2>2, BlankLater
  <2> QED BY <1>2, <2>1, <2>2
<1>4. disk' = {} /\ \A q \in Processes : lock' # q
  BY IndexFacts DEF I!Rebuilt, I!Cleared, I!IndexAssumption
<1>5. Copy(disk)'
  BY <1>4 DEF Copy, There, OneDate
<1> QED BY <1>2, <1>3, <1>4, <1>5, OneCopies DEF IndexInv

LEMMA StageLostOK ==
    ASSUME IndexInv, NEW p \in Processes, I!StageLost(p)
    PROVE  IndexInv'
<1>1. PICK xs : xs = I!Accepted(I!Stage(p))
  OBVIOUS
<1>2. /\ lock = p /\ xs \subseteq I!NavRows /\ OneId(xs)
      /\ \A x \in xs : Final(x) /\ Newer(x)
      /\ "date" \notin hand => Fits(xs)
      /\ I!Written(xs) \/ UNCHANGED <<rows, landed>>
      /\ UNCHANGED <<wrote, hand>>
      /\ I!Spend("losses") /\ I!Ended(p)
  BY <1>1, StageIs DEF I!StageLost
<1>3. TableInv' /\ Grows /\ \A q \in Processes : Shrinks(q)
  <2>1. CASE I!Written(xs)
    BY <1>2, <2>1, WrittenTable, StageShrinks DEF IndexInv
  <2>2. CASE UNCHANGED <<rows, landed>>
    BY <1>2, <2>2, SameShrinks DEF IndexInv, TableInv, There, Grows, I!State
  <2> QED BY <1>2, <2>1, <2>2
<1>4. LockInv' /\ lock' = None
  BY <1>2, EndedIs
<1>5. CopiesInv'
  <2>1. \A q \in Processes : lock' # q
    BY <1>4, IndexFacts DEF I!IndexAssumption
  <2>2. CASE UNCHANGED <<view, mem, disk>>
    BY <1>3, <2>1, <2>2, CopiesKept
  <2>3. CASE I!Rebuilt(p)
    BY <1>3, <1>4, <2>3, RebuiltOK
  <2> QED BY <2>2, <2>3 DEF I!StageLost
<1>6. VersInv'
  BY <1>2, FreshIs, VersStay DEF IndexInv, Spent
<1> QED BY <1>3, <1>4, <1>5, <1>6 DEF IndexInv

LEMMA StageRefusedOK ==
    ASSUME IndexInv, NEW p \in Processes, I!StageRefused(p)
    PROVE  IndexInv'
<1>1. lock = p /\ I!Ended(p) /\ UNCHANGED <<rows, rowsLeft, landed, wrote, hand>>
  BY InOp DEF I!StageRefused, I!Idle
<1>2. TableInv' /\ Grows /\ \A q \in Processes : Shrinks(q)
  BY <1>1, SameShrinks DEF IndexInv, TableInv, There, Grows, I!State
<1>3. LockInv' /\ lock' = None
  BY <1>1, EndedIs
<1>4. CopiesInv'
  <2>1. \A q \in Processes : lock' # q
    BY <1>3, IndexFacts DEF I!IndexAssumption
  <2>2. CASE UNCHANGED <<view, mem, disk>>
    BY <1>2, <2>1, <2>2, CopiesKept
  <2>3. CASE I!Rebuilt(p)
    BY <1>2, <1>3, <2>3, RebuiltOK
  <2> QED BY <2>2, <2>3 DEF I!StageRefused
<1>5. VersInv'
  BY <1>1, FreshIs, VersStay DEF IndexInv, VersInv
<1> QED BY <1>2, <1>3, <1>4, <1>5 DEF IndexInv

-----------------------------------------------------------------------------
(* What was done is put into the copy of the file, and the memory dropped. *)
LEMMA OneADayIs ==
    ASSUME NEW xs
    PROVE  I!OneADay(xs) \subseteq xs /\ (OneDate(xs) => I!OneADay(xs) = xs)
<1>1. I!OneADay(xs) = {CHOOSE r \in xs : r.date = d : d \in {r.date : r \in xs}}
  BY DEF I!OneADay
<1>2. \A y \in I!OneADay(xs) : \E x \in xs : y = CHOOSE r \in xs : r.date = x.date
  BY <1>1
<1>3. \A x \in xs : \E y \in I!OneADay(xs) : y = CHOOSE r \in xs : r.date = x.date
  BY <1>1
<1>4. \A x \in xs : (CHOOSE r \in xs : r.date = x.date) \in xs /\ (CHOOSE r \in xs : r.date = x.date).date = x.date
  OBVIOUS
<1>5. I!OneADay(xs) \subseteq xs
  BY <1>2, <1>4
<1>6. ASSUME OneDate(xs), NEW x \in xs PROVE x \in I!OneADay(xs)
  <2>1. PICK y \in I!OneADay(xs) : y = CHOOSE r \in xs : r.date = x.date
    BY <1>3
  <2>2. y \in xs /\ y.date = x.date
    BY <1>4, <2>1
  <2>3. y = x
    BY <1>6, <2>2 DEF OneDate
  <2> QED BY <2>3
<1> QED BY <1>5, <1>6

LEMMA ApplyOK ==
    ASSUME IndexInv, NEW p \in Processes, I!Apply(p)
    PROVE  IndexInv'
<1>1. lock = p /\ Active(op[p]) /\ I!Ended(p) /\ UNCHANGED <<rows, rowsLeft, landed, hand>>
  BY InOp DEF I!Apply, I!Idle
<1>2. PICK done : done = op[p].done
  OBVIOUS
<1>3. /\ done \subseteq I!NavRows /\ OneDate(done) /\ There(done)
      /\ \A x \in done : Newer(x)
      /\ hand = {} => \A x \in done : \E y \in rows : I!State(y) = I!State(x)
  BY <1>1, <1>2 DEF Active, IsOp, IsDone
<1>4. wrote' = [wrote EXCEPT ![p] = @ \cup {I!State(r) : r \in done}]
  BY <1>2 DEF I!Apply
<1>5. wrote = [q \in Processes |-> wrote[q]]
  BY DEF IndexInv, VersInv
<1>6. wrote'[p] = wrote[p] \cup {I!State(r) : r \in done} /\ \A q \in Processes \ {p} : wrote'[q] = wrote[q]
  BY <1>4, <1>5
<1>7. TableInv' /\ Grows /\ \A q \in Processes \ {p} : Shrinks(q)
  BY <1>1, <1>6, SameShrinks DEF IndexInv, TableInv, There, Grows, I!State
<1>8. LockInv' /\ lock' = None
  BY <1>1, EndedIs
<1>9. VersInv'
  <2>1. I!Fresh' = I!Fresh /\ rowsLeft' \in [Spent -> Nat]
    BY <1>1, FreshIs DEF IndexInv, VersInv
  <2>2. ASSUME NEW q \in Processes, NEW y \in I!NavRows, I!State(y) \in wrote'[q] PROVE y.ver > I!Fresh
    <3>1. CASE I!State(y) \in wrote[q]
      BY <3>1 DEF IndexInv, VersInv, Older
    <3>2. CASE I!State(y) \notin wrote[q]
      <4>1. PICK x \in done : I!State(y) = I!State(x)
        BY <1>6, <2>2, <3>2
      <4> QED BY <1>3, <4>1, StateIs DEF Newer
    <3> QED BY <3>1, <3>2
  <2>3. wrote' = [q \in Processes |-> wrote'[q]]
    BY <1>4, <1>5
  <2> QED BY <2>1, <2>2, <2>3 DEF VersInv, Older, I!State
<1>10. PICK old, kept : old = view[p].rows /\ kept = {r \in I!OneADay(old) : \A s \in done : s.date # r.date}
  OBVIOUS
<1>11. /\ old \subseteq I!NavRows /\ There(old)
       /\ hand = {} => OneDate(old) /\ Covers(old, p)
  BY <1>1, <1>10 DEF IndexInv, CopiesInv, CopiesOf, Copy
<1>12. PICK v, m : v = [rows |-> kept \cup done, dirty |-> FALSE] /\ m = [loaded |-> FALSE, rows |-> {}]
  OBVIOUS
<1>13. view' = [view EXCEPT ![p] = v] /\ mem' = [mem EXCEPT ![p] = m] /\ disk' = view'[p].rows
  BY <1>2, <1>10, <1>12 DEF I!Apply, I!Applied, I!Unloaded
<1>14. view'[p] = v /\ disk' = kept \cup done
  BY <1>12, <1>13 DEF IndexInv, CopiesInv
<1>15. Copy(kept \cup done)' /\ Copy({})'
  <2>1. kept \subseteq old
    BY <1>10, OneADayIs
  <2>2. kept \cup done \subseteq I!NavRows /\ \A x \in kept \cup done : I!State(x) \in landed'
    BY <1>1, <1>3, <1>11, <2>1 DEF There
  <2>3. hand = {} => OneDate(kept \cup done)
    BY <1>3, <1>10, <1>11, <2>1 DEF OneDate
  <2> QED BY <1>1, <2>2, <2>3 DEF Copy, There, I!State, OneDate
<1>16. ASSUME hand = {}, NEW x \in rows, I!State(x) \in wrote'[p]
       PROVE  \E y \in kept \cup done : I!State(y) = I!State(x)
  <2>1. CASE \E y \in done : I!State(y) = I!State(x)
    BY <2>1
  <2>2. CASE ~ \E y \in done : I!State(y) = I!State(x)
    <3>1. PICK y \in old : I!State(y) = I!State(x)
      BY <1>6, <1>11, <1>16, <2>2 DEF Covers
    <3>2. y \in I!OneADay(old) /\ y.date = x.date
      BY <1>11, <1>16, <3>1, OneADayIs, StateIs
    <3>3. ASSUME NEW s \in done, s.date = x.date PROVE FALSE
      <4>1. PICK r \in rows : I!State(r) = I!State(s)
        BY <1>3, <1>16
      <4>2. r.date = x.date
        BY <3>3, <4>1, StateIs
      <4>3. r = x
        BY <1>16, <4>2 DEF IndexInv, TableInv, OneDate
      <4> QED BY <2>2, <4>1, <4>3
    <3> QED BY <1>10, <3>1, <3>2, <3>3
  <2> QED BY <2>1, <2>2
<1>17. CopiesOf(v, m, p, FALSE)'
  <2>1. hand' = {} => Covers(kept \cup done, p)'
    BY <1>1, <1>16 DEF Covers, I!State
  <2>2. v.rows = kept \cup done /\ m.rows = {} /\ m.loaded = FALSE
        /\ v \in [rows : SUBSET I!NavRows, dirty : BOOLEAN] /\ m \in [loaded : BOOLEAN, rows : SUBSET I!NavRows]
    BY <1>12, <1>15 DEF Copy
  <2> QED BY <1>15, <2>1, <2>2 DEF CopiesOf
<1>18. CopiesInv'
  <2>1. Copy(disk)' /\ \A q \in Processes : lock' # q
    BY <1>8, <1>14, <1>15, IndexFacts DEF Copy, I!IndexAssumption
  <2> QED BY <1>7, <1>13, <1>17, <2>1, OneCopies DEF IndexInv
<1> QED BY <1>7, <1>8, <1>9, <1>18 DEF IndexInv

-----------------------------------------------------------------------------
(* The plan of a write: a row per date, each with an identity of its own.  *)
Updating(xs) == {r \in xs : r.id \in {y.id : y \in rows}}

FreeExists == \E i \in RowIds : \A s \in landed : s[1] # i

LEMMA FreeIdIs ==
    ASSUME TableInv, FreeExists
    PROVE  I!FreeId \in RowIds /\ \A y \in rows : y.id # I!FreeId
<1>1. I!FreeId \in RowIds /\ \A s \in landed : s[1] # I!FreeId
  BY DEF FreeExists, I!FreeId
<1>2. \A y \in rows : I!State(y) \in landed /\ I!State(y)[1] = y.id
  BY DEF TableInv, There, I!State
<1> QED BY <1>1, <1>2

LEMMA PlanIs ==
    ASSUME TableInv, VersInv, OneDate(rows),
           NEW dates \in SUBSET Dates, NEW det \in Details,
           NEW xs, xs = I!Plan(rows, dates, det),
           NEW ups, ups = Updating(xs), Cardinality(xs \ ups) <= 1,
           (\A d \in dates : \E y \in rows : y.date = d) \/ FreeExists
    PROVE  /\ xs \subseteq I!NavRows
           /\ \A x \in xs : x.asked = x.det /\ x.ok /\ x.ver = I!Fresh
           /\ OneId(xs) /\ OneDate(xs)
           /\ \A x \in ups : \E y \in rows : y.id = x.id /\ y.date = x.date
           /\ \A x \in xs \ ups, y \in rows : y.date # x.date
<1> DEFINE of(d) == {r.id : r \in {x \in rows : x.date = d}}
           at(d) == IF of(d) = {} THEN I!FreeId ELSE CHOOSE i \in of(d) : TRUE
<1>1. xs = {I!Row(at(d), d, I!Fresh, det) : d \in dates}
  BY Zenon DEF I!Plan
<1>2. \A d \in dates : \/ \E y \in rows : y.date = d /\ y.id = at(d)
                       \/ /\ \A y \in rows : y.date # d /\ y.id # at(d)
                          /\ at(d) = I!FreeId /\ FreeExists
  <2> SUFFICES ASSUME NEW d \in dates
               PROVE  \/ \E y \in rows : y.date = d /\ y.id = at(d)
                      \/ /\ \A y \in rows : y.date # d /\ y.id # at(d)
                         /\ at(d) = I!FreeId /\ FreeExists
    OBVIOUS
  <2>1. CASE of(d) = {}
    <3>1. \A y \in rows : y.date # d
      BY <2>1
    <3>2. FreeExists /\ at(d) = I!FreeId
      BY <2>1, <3>1
    <3> QED BY <3>1, <3>2, FreeIdIs
  <2>2. CASE of(d) # {}
    <3>1. at(d) \in of(d)
      BY <2>2
    <3> QED BY <3>1
  <2> QED BY <2>1, <2>2
<1> HIDE DEF at
<1>3. \A d \in dates : at(d) \in RowIds
  BY <1>2, FreeIdIs, RowIs DEF TableInv
<1>4. \A x \in xs : \E d \in dates : x = I!Row(at(d), d, I!Fresh, det)
  BY <1>1
<1>5. I!Fresh \in Nat
  BY FreshIs
<1>6. \A x \in xs : /\ x \in I!NavRows /\ x.asked = x.det /\ x.ok /\ x.ver = I!Fresh
                    /\ x.date \in dates /\ x.id = at(x.date)
                    /\ x = I!Row(at(x.date), x.date, I!Fresh, det)
  <2> SUFFICES ASSUME NEW d \in dates, NEW x, x = I!Row(at(d), d, I!Fresh, det)
               PROVE  /\ x \in I!NavRows /\ x.asked = x.det /\ x.ok /\ x.ver = I!Fresh
                      /\ x.date = d /\ x.id = at(d)
    BY <1>4
  <2>1. at(d) \in RowIds /\ d \in Dates /\ det \in Details \cup {None}
    BY <1>3
  <2> QED BY <1>5, <2>1 DEF I!Row, I!NavRows
<1>7. OneDate(xs)
  BY <1>6 DEF OneDate
<1>8. \A x \in ups : \E y \in rows : y.id = x.id /\ y.date = x.date
  BY <1>2, <1>6 DEF Updating
<1>9. \A x \in xs \ ups, y \in rows : y.date # x.date
  BY <1>2, <1>6 DEF Updating
<1>10. \A a, b \in xs \ ups : a = b
  <2>1. IsFiniteSet(xs)
    <3>1. PICK f : f = [x \in xs |-> x.date]
      OBVIOUS
    <3>2. f \in [xs -> Dates] /\ IsInjective(f)
      BY <1>6, <1>7, <3>1 DEF OneDate, IsInjective
    <3>3. f \in Injection(xs, Dates)
      BY <3>2 DEF Injection
    <3>4. IsFiniteSet(Dates)
      BY IndexFacts DEF I!IndexAssumption, I!IsFiniteSet, IsFiniteSet
    <3> QED BY <3>3, <3>4, FS_Injection
  <2>2. IsFiniteSet(xs \ ups) /\ Cardinality(xs \ ups) \in Nat
    BY <2>1, FS_Subset, FS_CardinalityType
  <2>3. ASSUME NEW a \in xs \ ups PROVE {a} = xs \ ups
    <3>1. PICK one, all : one = {a} /\ all = xs \ ups
      OBVIOUS
    <3>2. Cardinality(one) = 1 /\ one \in SUBSET all
      BY <3>1, FS_Singleton
    <3>3. Cardinality(one) <= Cardinality(all) /\ (Cardinality(all) = Cardinality(one) => all = one)
      BY <2>2, <3>1, <3>2, FS_Subset
    <3> QED BY <2>2, <3>1, <3>2, <3>3
  <2> QED BY <2>3
<1>11. OneId(xs)
  <2> SUFFICES ASSUME NEW a \in xs, NEW b \in xs, a.id = b.id PROVE a = b
    BY DEF OneId
  <2>1. CASE a \in ups /\ b \in ups
    <3>1. PICK y, z \in rows : y.id = a.id /\ y.date = a.date /\ z.id = b.id /\ z.date = b.date
      BY <1>8, <2>1
    <3>2. y = z
      BY <3>1 DEF TableInv, OneId
    <3> QED BY <1>7, <3>1, <3>2 DEF OneDate
  <2>2. CASE a \notin ups /\ b \notin ups
    BY <1>10, <2>2
  <2> QED BY <2>1, <2>2 DEF Updating
<1> QED BY <1>6, <1>7, <1>8, <1>9, <1>11

LEMMA BeginsIs ==
    ASSUME IndexInv, NEW what \in Spent, I!Spend(what), UNCHANGED <<rows, landed, wrote, hand>>
    PROVE  /\ TableInv' /\ VersInv' /\ Grows /\ \A q : Shrinks(q)
           /\ \A x \in I!NavRows : x.ver = I!Fresh => Newer(x)'
<1>1. TableInv' /\ Grows /\ \A q : Shrinks(q)
  BY DEF IndexInv, TableInv, There, I!State, Grows, Shrinks
<1>2. I!Fresh \in Nat /\ I!Fresh > 0 /\ I!Fresh' = I!Fresh - 1 /\ rowsLeft' \in [Spent -> Nat]
  BY FreshIs DEF IndexInv
<1>3. VersInv'
  BY <1>2, VersStay
<1>4. \A q \in Processes : Older(I!Fresh, q)
  BY DEF IndexInv, VersInv
<1>5. ASSUME NEW x \in I!NavRows, x.ver = I!Fresh PROVE Newer(x)'
  <2>1. PICK n : n = I!Fresh
    OBVIOUS
  <2>2. x.ver = n /\ n > I!Fresh' /\ \A q \in Processes : Older(n, q)
    BY <1>2, <1>4, <1>5, <2>1
  <2>3. \A q \in Processes : Older(n, q)'
    BY <2>2 DEF Older, I!State
  <2> QED BY <2>2, <2>3 DEF Newer
<1> QED BY <1>1, <1>3, <1>5

LEMMA StartWriteOK ==
    ASSUME IndexInv, NEW p \in Processes, I!StartWrite(p)
    PROVE  IndexInv'
<1>1. /\ lock = None /\ I!Spend("writes") /\ I!Preloaded(p, TRUE)
      /\ UNCHANGED <<rows, schema, landed, wrote, hand>>
  BY DEF I!StartWrite
<1>2. /\ TableInv' /\ VersInv' /\ Grows /\ \A q : Shrinks(q)
      /\ \A x \in I!NavRows : x.ver = I!Fresh => Newer(x)'
  BY <1>1, BeginsIs DEF Spent
<1>3. ASSUME disk' = disk \/ disk' = {} PROVE Copy(disk)'
  <2>1. PICK xs : xs = disk'
    OBVIOUS
  <2>2. Copy(xs)
    BY <1>3, <2>1 DEF IndexInv, CopiesInv, Copy, There, OneDate
  <2>3. Copy(xs)'
    BY <1>2, <2>2, CopyStays
  <2> QED BY <2>1, <2>3 DEF Copy
<1>5. /\ \A q \in Processes : op[q] = I!Idle /\ q # None
      /\ op = [q \in Processes |-> op[q]]
  BY <1>1, IndexFacts DEF IndexInv, LockInv, I!IndexAssumption
<1>6. CASE UNCHANGED <<op, lock>>
  <2>1. LockInv'
    BY <1>1, <1>5, <1>6 DEF LockInv, I!Idle
  <2>2. PICK v, m : /\ view' = [view EXCEPT ![p] = v] /\ mem' = [mem EXCEPT ![p] = m]
                    /\ disk' = disk \/ disk' = {}
                    /\ CopiesOf(v, m, p, lock = p)
    BY <1>1, PreloadedIs
  <2>3. PICK busy : busy = (lock = p)
    OBVIOUS
  <2>4. CopiesOf(v, m, p, busy)'
    BY <1>2, <2>2, <2>3, CopiesStay
  <2>5. CopiesInv'
    BY <1>2, <1>3, <1>6, <2>2, <2>3, <2>4, OneCopies DEF IndexInv
  <2> QED BY <1>2, <2>1, <2>5 DEF IndexInv
<1>7. CASE ~UNCHANGED <<op, lock>>
  <2>1. PICK dates \in (SUBSET Dates) \ {{}}, det \in Details, batch, overwrite \in BOOLEAN :
          LET planned == I!Planned(p)
              xs      == I!Plan(planned, dates, det)
              known   == {r.id : r \in planned}
              updates == {r \in xs : r.id \in known}
          IN /\ batch \/ I!Cardinality(dates) = 1
             /\ I!Cardinality(dates) = 1 \/ updates # {}
             /\ I!Cardinality(xs \ updates) <= 1
             /\ \/ \A d \in dates : \E r \in planned : r.date = d
                \/ \E i \in RowIds : \A s \in landed : s[1] # i
             /\ IF ~I!Answers \/ ~I!Readable \/ I!Twins(planned) \/ (~batch /\ updates # {} /\ ~overwrite)
                THEN UNCHANGED <<op, lock>>
                ELSE /\ lock' = p
                     /\ op' = [op EXCEPT ![p] = [step |-> "update", batch |-> batch, rows |-> planned,
                                 updates |-> updates, creates |-> xs \ updates, done |-> {}]]
    BY DEF I!StartWrite
  <2>2. PICK xs, ups : xs = I!Plan(rows, dates, det) /\ ups = Updating(xs)
    OBVIOUS
  <2>3. PICK d : d = [step |-> "update", batch |-> batch, rows |-> rows,
                      updates |-> ups, creates |-> xs \ ups, done |-> {}]
    OBVIOUS
  <2>0. \A S : I!Cardinality(S) = Cardinality(S)
    BY DEF I!Cardinality, Cardinality, I!IsFiniteSet, IsFiniteSet
  <2>4. /\ Cardinality(xs \ ups) <= 1
        /\ (\A x \in dates : \E r \in rows : r.date = x) \/ FreeExists
        /\ I!Answers /\ I!Readable /\ OneDate(rows)
        /\ lock' = p /\ op' = [op EXCEPT ![p] = d]
    BY <1>7, <2>0, <2>1, <2>2, <2>3, TwinsIs DEF I!Planned, Updating, FreeExists, IndexInv, TableInv
  <2>5. /\ xs \subseteq I!NavRows
        /\ \A x \in xs : x.asked = x.det /\ x.ok /\ x.ver = I!Fresh
        /\ OneId(xs) /\ OneDate(xs)
        /\ \A x \in ups : \E y \in rows : y.id = x.id /\ y.date = x.date
        /\ \A x \in xs \ ups, y \in rows : y.date # x.date
    <3>1. TableInv /\ VersInv /\ OneDate(rows) /\ dates \in SUBSET Dates
      BY <2>4 DEF IndexInv
    <3>2. (\A x \in dates : \E y \in rows : y.date = x) \/ FreeExists
      BY <2>4
    <3> QED BY <2>2, <2>4, <3>1, <3>2, PlanIs
  <2>6. /\ DOMAIN d = OpFields /\ d.step = "update" /\ d.updates = ups /\ d.creates = xs \ ups
        /\ d.done = {} /\ All(d) = xs
    BY <2>2, <2>3 DEF OpFields, All, Updating
  <2>7. IsOp(d)'
    <3>1. \A x \in xs : Newer(x)'
      BY <1>2, <2>5
    <3> QED BY <2>5, <2>6, <3>1 DEF IsOp
  <2>8. IsDone(d)'
    BY <1>1, <2>4, <2>6 DEF IsDone, OneDate, There, I!Readable
  <2>9. Awaits(d)'
    BY <1>1, <2>5, <2>6 DEF Awaits
  <2>10. LockInv'
    <3>1. PICK idle : idle = I!Idle
      OBVIOUS
    <3>2. op' = [q \in Processes |-> IF q = p THEN d ELSE idle]
      BY <1>5, <2>4, <3>1
    <3>3. Active(d)'
      BY <2>7, <2>8, <2>9 DEF Active
    <3>4. \A q \in Processes : q # p => op'[q] = I!Idle'
      BY <3>1, <3>2 DEF I!Idle
    <3>5. op'[p] = d /\ op' = [q \in Processes |-> op'[q]]
      BY <3>2
    <3>6. \A q \in Processes : (IF lock = q THEN Active(op[q]) ELSE op[q] = I!Idle)'
      BY <2>4, <3>3, <3>4, <3>5
    <3> QED BY <2>4, <3>5, <3>6 DEF LockInv
  <2>11. CopiesInv'
    <3>1. PICK v, m : /\ view' = [view EXCEPT ![p] = v] /\ mem' = [mem EXCEPT ![p] = m]
                      /\ disk' = disk
                      /\ \A busy : CopiesOf(v, m, p, busy)
      BY <1>1, <2>4, PreloadedWhole
    <3>2. PICK busy : busy = TRUE
      OBVIOUS
    <3>3. CopiesOf(v, m, p, busy)'
      BY <1>2, <3>1, CopiesStay
    <3> QED BY <1>2, <1>3, <2>4, <3>1, <3>2, <3>3, OneCopies DEF IndexInv
  <2> QED BY <1>2, <2>10, <2>11 DEF IndexInv
<1> QED BY <1>6, <1>7

-----------------------------------------------------------------------------
(* One row is written anew, by a patch or by hand.                         *)
LEMMA RowTurns ==
    ASSUME IndexInv, NEW x \in rows, NEW y \in I!NavRows, y.id = x.id, y.ver = I!Fresh, Final(y),
           NEW xs, xs = {y}, I!Written(xs), hand \subseteq hand',
           "date" \notin hand' => y.date = x.date, UNCHANGED wrote
    PROVE  TableInv' /\ Grows /\ \A q \in Processes : Shrinks(q)
<1>1. OneId(xs) /\ xs \subseteq I!NavRows /\ \A z \in xs : Final(z)
  BY DEF OneId
<1>2. "date" \notin hand' => Fits(xs)
  BY DEF IndexInv, TableInv, OneDate, Fits
<1>3. TableInv' /\ Grows
  BY <1>1, <1>2, WrittenTable DEF IndexInv
<1>4. \A q \in Processes, z \in xs : Older(z.ver, q)
  BY DEF IndexInv, VersInv
<1>5. \A q \in Processes : Shrinks(q)
  BY <1>1, <1>4, WrittenShrinks
<1> QED BY <1>3, <1>5

LEMMA IdleLock ==
    ASSUME IndexInv, lock = None, UNCHANGED <<lock, op>>
    PROVE  LockInv'
BY IndexFacts DEF IndexInv, LockInv, I!Idle, I!IndexAssumption

LEMMA PatchedRow ==
    ASSUME IndexInv, NEW x \in rows, I!Written({[x EXCEPT !.ver = I!Fresh]}), UNCHANGED <<wrote, hand>>
    PROVE  TableInv' /\ Grows /\ \A q \in Processes : Shrinks(q)
<1>1. x \in I!NavRows /\ Final(x) /\ I!Fresh \in Nat
  BY FreshIs DEF IndexInv, TableInv
<1>2. PICK y : y = [x EXCEPT !.ver = I!Fresh]
  OBVIOUS
<1>3. /\ y \in I!NavRows /\ y.id = x.id /\ y.date = x.date /\ y.ver = I!Fresh
      /\ y.asked = x.asked /\ y.det = x.det
  BY <1>1, <1>2 DEF I!NavRows
<1>4. PICK xs : xs = {y}
  OBVIOUS
<1>5. I!Written(xs) /\ Final(y)
  BY <1>1, <1>2, <1>3, <1>4 DEF Final
<1> QED BY <1>3, <1>4, <1>5, RowTurns

LEMMA PatchOK ==
    ASSUME IndexInv, NEW p \in Processes, I!Patch(p)
    PROVE  IndexInv'
<1>1. lock = None /\ UNCHANGED <<schema, lock, op, wrote, hand>> /\ I!Spend("patches")
  BY DEF I!Patch
<1>2. LockInv' /\ VersInv'
  BY <1>1, IdleLock, FreshIs, VersStay DEF IndexInv, Spent
<1>3. CASE \E x \in rows : I!Written({[x EXCEPT !.ver = I!Fresh]}) /\ I!Forgotten(p)
  <2>1. TableInv' /\ Grows /\ \A q \in Processes : Shrinks(q)
    BY <1>1, <1>3, PatchedRow
  <2>2. PICK v, m, none, busy : v = view[p] /\ m = mem[p] /\ none = I!Unloaded /\ busy = (lock = p)
    OBVIOUS
  <2>3. CopiesOf(v, m, p, busy)
    BY <2>2 DEF IndexInv, CopiesInv
  <2>4. CopiesOf(v, none, p, busy)
    BY <2>2, <2>3, LoadedIsCopy DEF IndexInv
  <2>5. CopiesOf(v, none, p, busy)'
    BY <2>1, <2>4, CopiesStay
  <2>6. view' = [view EXCEPT ![p] = v] /\ mem' = [mem EXCEPT ![p] = none] /\ UNCHANGED disk
    BY <1>3, <2>2 DEF I!Forgotten, IndexInv, CopiesInv
  <2>7. PICK xs : xs = disk
    OBVIOUS
  <2>8. Copy(xs)'
    BY <2>1, <2>7, CopyStays DEF IndexInv, CopiesInv
  <2>9. Copy(disk)'
    BY <2>6, <2>7, <2>8
  <2>10. CopiesInv'
    BY <1>1, <2>1, <2>2, <2>5, <2>6, <2>9, OneCopies DEF IndexInv
  <2> QED BY <1>2, <2>1, <2>10 DEF IndexInv
<1>4. CASE UNCHANGED <<rows, landed, mem, view, disk>>
  <2>1. TableInv' /\ Grows /\ \A q \in Processes : Shrinks(q)
    BY <1>1, <1>4, SameShrinks DEF IndexInv, TableInv, There, Grows, I!State
  <2>2. CopiesInv'
    BY <1>1, <1>4, <2>1, CopiesKept
  <2> QED BY <1>2, <2>1, <2>2 DEF IndexInv
<1> QED BY <1>3, <1>4 DEF I!Patch

LEMMA RestateOK ==
    ASSUME IndexInv, NEW p \in Processes, I!Restate(p)
    PROVE  IndexInv'
<1>1. lock = None /\ UNCHANGED <<schema, disk, lock, op, wrote, hand>> /\ I!Spend("patches")
  BY DEF I!Restate
<1>2. LockInv' /\ VersInv'
  BY <1>1, IdleLock, FreshIs, VersStay DEF IndexInv, Spent
<1>3. TableInv' /\ Grows /\ \A q \in Processes : Shrinks(q)
  BY <1>1, PatchedRow DEF I!Restate
<1>4. PICK v, m, busy : v = Full /\ m = I!Unloaded /\ busy = (lock = p)
  OBVIOUS
<1>5. CopiesOf(v, m, p, busy)
  BY <1>4, FullIsCopy DEF IndexInv
<1>6. CopiesOf(v, m, p, busy)'
  BY <1>3, <1>5, CopiesStay
<1>7. view' = [view EXCEPT ![p] = v] /\ mem' = [mem EXCEPT ![p] = m]
  BY <1>4 DEF I!Restate, Full
<1>8. PICK xs : xs = disk
  OBVIOUS
<1>9. Copy(xs)'
  BY <1>3, <1>8, CopyStays DEF IndexInv, CopiesInv
<1>10. Copy(disk)'
  BY <1>1, <1>8, <1>9
<1>11. CopiesInv'
  BY <1>1, <1>3, <1>4, <1>6, <1>7, <1>10, OneCopies DEF IndexInv
<1> QED BY <1>2, <1>3, <1>11 DEF IndexInv

-----------------------------------------------------------------------------
(* A restart: what the process wrote before is not its own any more.       *)
LEMMA RestartOK ==
    ASSUME IndexInv, NEW p \in Processes, I!Restart(p)
    PROVE  IndexInv'
<1>1. /\ I!Spend("restarts") /\ UNCHANGED <<rows, schema, disk, landed, hand>>
      /\ lock' = (IF lock = p THEN None ELSE lock) /\ wrote' = [wrote EXCEPT ![p] = {}]
  BY DEF I!Restart
<1>2. I!Fresh \in Nat /\ I!Fresh' = I!Fresh - 1 /\ rowsLeft' \in [Spent -> Nat] /\ I!Fresh > 0
  BY <1>1, FreshIs DEF IndexInv, Spent
<1>3. \A q \in Processes : wrote'[q] = (IF q = p THEN {} ELSE wrote[q])
  BY <1>1 DEF IndexInv, VersInv
<1>4. TableInv' /\ Grows /\ \A q \in Processes : Shrinks(q)
  BY <1>1, <1>3, SameShrinks DEF IndexInv, TableInv, There, Grows, I!State
<1>5. \A q \in Processes, n \in Nat : Older(n, q) => Older(n, q)'
  BY <1>3 DEF Older, I!State
<1>6. VersInv'
  <2>1. \A q \in Processes : Older(I!Fresh, q)'
    BY <1>2, <1>3, RowIs DEF IndexInv, VersInv, Older, I!State
  <2> QED BY <1>1, <1>2, <2>1 DEF IndexInv, VersInv
<1>7. LockInv'
  <2>1. PICK idle : idle = I!Idle
    OBVIOUS
  <2>2. op' = [q \in Processes |-> IF q = p THEN idle ELSE op[q]]
    BY <2>1 DEF I!Restart, IndexInv, LockInv
  <2>3. \A x \in I!NavRows : Newer(x) => Newer(x)'
    BY <1>2, <1>5, RowIs DEF Newer
  <2>4. ASSUME NEW o, Active(o) PROVE Active(o)'
    <3>1. IsOp(o)'
      BY <2>3, <2>4 DEF Active, IsOp
    <3>2. IsDone(o)' /\ Awaits(o)'
      BY <1>1, <2>4 DEF Active, IsDone, Awaits, There, I!State, I!Readable
    <3> QED BY <3>1, <3>2 DEF Active
  <2>5. \A q \in Processes : IF lock' = q THEN q # p /\ lock = q ELSE q = p \/ lock # q
    BY <1>1, IndexFacts DEF I!IndexAssumption
  <2>6. ASSUME NEW q \in Processes PROVE (IF lock = q THEN Active(op[q]) ELSE op[q] = I!Idle)'
    <3>1. CASE lock' = q
      <4>1. PICK o : o = op[q]
        OBVIOUS
      <4>2. op'[q] = o /\ Active(o)'
        BY <2>2, <2>4, <2>5, <3>1, <4>1 DEF IndexInv, LockInv
      <4> QED BY <3>1, <4>2
    <3>2. CASE lock' # q
      <4>1. op'[q] = idle
        BY <2>1, <2>2, <2>5, <3>2 DEF IndexInv, LockInv
      <4> QED BY <2>1, <3>2, <4>1 DEF I!Idle
    <3> QED BY <3>1, <3>2
  <2>7. lock' \in Processes \cup {None} /\ op' = [q \in Processes |-> op'[q]]
    BY <1>1, <2>2 DEF IndexInv, LockInv
  <2> QED BY <2>6, <2>7 DEF LockInv
<1>8. PICK xs : xs = disk
  OBVIOUS
<1>9. Copy(xs)' /\ xs \subseteq I!NavRows
  BY <1>4, <1>8, CopyStays DEF IndexInv, CopiesInv, Copy
<1>10. Copy(disk)'
  BY <1>1, <1>8, <1>9
<1>11. PICK v, m : v = [rows |-> xs, dirty |-> FALSE] /\ m = [loaded |-> FALSE, rows |-> {}]
  OBVIOUS
<1>12. view' = [view EXCEPT ![p] = v] /\ mem' = [mem EXCEPT ![p] = m]
  BY <1>8, <1>11 DEF I!Restart, I!Unloaded
<1>13. CopiesOf(v, m, p, FALSE)'
  <2>1. Covers(xs, p)' /\ Copy({})'
    BY <1>3 DEF Covers, Copy, There, OneDate
  <2> QED BY <1>9, <1>11, <2>1 DEF CopiesOf
<1>14. CopiesInv'
  <2>1. lock' # p /\ \A q \in Processes \ {p} : lock' = q => lock = q
    BY <1>1, IndexFacts DEF I!IndexAssumption
  <2>2. PICK busy : busy = FALSE
    OBVIOUS
  <2>3. CopiesOf(v, m, p, busy)'
    BY <1>13, <2>2
  <2> QED BY <1>4, <1>10, <1>12, <2>1, <2>2, <2>3, OneCopies DEF IndexInv
<1> QED BY <1>4, <1>6, <1>7, <1>14 DEF IndexInv

-----------------------------------------------------------------------------
(* People.  A write in progress finds its rows where they were, unless a   *)
(* row was moved, and as they were, unless one was spoiled.                *)
Mirrored ==
    /\ \A y \in rows : \E z \in rows' : z.id = y.id /\ z.date = y.date
    /\ \A z \in rows' : \E y \in rows : z.id = y.id /\ z.date = y.date

Unspoiled ==
    /\ \A y \in rows : \E z \in rows' : I!State(z) = I!State(y)
    /\ \A z \in rows' : \E y \in rows : z.ok = y.ok

LEMMA EditLock ==
    ASSUME IndexInv, UNCHANGED <<lock, op, wrote>>, Grows, \A x \in I!NavRows : Newer(x) => Newer(x)',
           lock # None => /\ "date" \notin hand' => Mirrored
                          /\ hand' = {} => Unspoiled
    PROVE  LockInv'
<1>1. CASE lock = None
  BY <1>1, IdleLock
<1>2. CASE lock # None
  <2>1. ASSUME NEW o, Active(o) PROVE Active(o)'
    <3>1. IsOp(o)'
      BY <2>1 DEF Active, IsOp
    <3>2. There(o.done)'
      BY <2>1 DEF Active, IsDone, There, Grows, I!State
    <3>3. hand' = {} => I!Readable' /\ \A x \in o.done : \E y \in rows' : I!State(y) = I!State(x)
      BY <1>2, <2>1 DEF Active, IsDone, Grows, Unspoiled, I!Readable
    <3>4. IsDone(o)'
      BY <2>1, <3>2, <3>3 DEF Active, IsDone, I!State
    <3>5. Awaits(o)'
      BY <1>2, <2>1 DEF Active, Awaits, Grows, Mirrored
    <3> QED BY <3>1, <3>4, <3>5 DEF Active
  <2>2. ASSUME NEW q \in Processes PROVE (IF lock = q THEN Active(op[q]) ELSE op[q] = I!Idle)'
    <3>1. PICK o : o = op[q]
      OBVIOUS
    <3>2. CASE lock = q
      BY <2>1, <3>1, <3>2 DEF IndexInv, LockInv
    <3>3. CASE lock # q
      BY <3>3 DEF IndexInv, LockInv, I!Idle
    <3> QED BY <3>2, <3>3
  <2> QED BY <2>2 DEF IndexInv, LockInv
<1> QED BY <1>1, <1>2

LEMMA RowMirrored ==
    ASSUME IndexInv, NEW x \in rows, NEW y, y.id = x.id, y.date = x.date, I!Written({y})
    PROVE  Mirrored
<1>1. rows' = {r \in rows : r.id # y.id} \cup {y}
  BY DEF I!Written
<1>2. \A r \in rows : r.id = y.id => r = x
  BY DEF IndexInv, TableInv, OneId
<1> QED BY <1>1, <1>2 DEF Mirrored

LEMMA RowsEditOK ==
    ASSUME IndexInv, I!Edit
    PROVE  IndexInv'
<1>1. I!Spend("edits") /\ UNCHANGED <<view, mem, disk, lock, op, wrote>>
  BY DEF I!Edit
<1>2. VersInv' /\ (\A x \in I!NavRows : Newer(x) => Newer(x)') /\ I!Fresh \in Nat
  BY <1>1, FreshIs, VersStay DEF IndexInv, Spent
<1>3. CASE \E x \in rows : I!Written({[x EXCEPT !.ok = ~@, !.ver = I!Fresh]})
           /\ hand' = (IF lock = None THEN hand ELSE hand \cup {"spoiled"})
  <2>1. PICK x \in rows : I!Written({[x EXCEPT !.ok = ~@, !.ver = I!Fresh]})
    BY <1>3
  <2>2. x \in I!NavRows /\ Final(x)
    BY DEF IndexInv, TableInv
  <2>3. PICK b \in BOOLEAN : b = ~x.ok
    OBVIOUS
  <2>4. PICK y : y = [x EXCEPT !.ok = b, !.ver = I!Fresh]
    OBVIOUS
  <2>5. /\ y \in I!NavRows /\ y.id = x.id /\ y.date = x.date /\ y.ver = I!Fresh
        /\ y.asked = x.asked /\ y.det = x.det
    BY <1>2, <2>2, <2>4 DEF I!NavRows
  <2>6. I!Written({y})
    BY <2>1, <2>3, <2>4
  <2>7. PICK xs : xs = {y}
    OBVIOUS
  <2>8. TableInv' /\ Grows /\ \A q \in Processes : Shrinks(q)
    BY <1>1, <1>3, <2>2, <2>5, <2>6, <2>7, RowTurns DEF Final
  <2>9. LockInv'
    BY <1>1, <1>2, <1>3, <2>5, <2>6, <2>8, RowMirrored, EditLock
  <2> QED BY <1>1, <1>2, <2>8, <2>9, CopiesKept DEF IndexInv
<1>4. CASE \E x \in rows, d \in Dates : I!Written({[x EXCEPT !.date = d, !.ver = I!Fresh]})
           /\ hand' = hand \cup {"date"}
  <2>1. PICK x \in rows, d \in Dates : I!Written({[x EXCEPT !.date = d, !.ver = I!Fresh]})
    BY <1>4
  <2>2. x \in I!NavRows /\ Final(x)
    BY DEF IndexInv, TableInv
  <2>3. PICK y : y = [x EXCEPT !.date = d, !.ver = I!Fresh]
    OBVIOUS
  <2>4. y \in I!NavRows /\ y.id = x.id /\ y.ver = I!Fresh /\ y.asked = x.asked /\ y.det = x.det
    BY <1>2, <2>2, <2>3 DEF I!NavRows
  <2>5. PICK xs : xs = {y}
    OBVIOUS
  <2>6. TableInv' /\ Grows /\ \A q \in Processes : Shrinks(q)
    BY <1>1, <1>4, <2>1, <2>2, <2>3, <2>4, <2>5, RowTurns DEF Final
  <2>7. LockInv'
    BY <1>1, <1>2, <1>4, <2>6, EditLock
  <2> QED BY <1>1, <1>2, <2>6, <2>7, CopiesKept DEF IndexInv
<1>5. CASE rows' = {[r EXCEPT !.det = None, !.asked = None] : r \in rows} /\ UNCHANGED <<landed, hand>>
  <2> DEFINE strip(x) == [x EXCEPT !.det = None, !.asked = None]
  <2>1. \A x \in rows : /\ strip(x) \in I!NavRows /\ Same(strip(x), x) /\ strip(x).ok = x.ok
                        /\ Final(strip(x))
    BY StrippedIs DEF IndexInv, TableInv, Same, Final
  <2>2. rows' = {strip(x) : x \in rows}
    BY <1>5
  <2> HIDE DEF strip
  <2>3. /\ \A z \in rows' : \E x \in rows : z = strip(x)
        /\ \A x \in rows : strip(x) \in rows'
    BY <2>2
  <2>4. Mirrored /\ Unspoiled
    BY <2>1, <2>3, StateIs DEF Mirrored, Unspoiled, Same
  <2>5. /\ rows' \subseteq I!NavRows /\ \A z \in rows' : Final(z)
        /\ \A z \in rows' : \E x \in rows : I!State(z) = I!State(x)
    BY <2>1, <2>3, StateIs DEF Same
  <2>6. OneId(rows') /\ ("date" \notin hand => OneDate(rows'))
    BY <2>1, <2>3 DEF IndexInv, TableInv, OneId, OneDate, Same
  <2>7. TableInv'
    BY <1>5, <2>5, <2>6 DEF IndexInv, TableInv, There, OneId, OneDate, Final, I!State
  <2>8. Grows /\ \A q \in Processes : Shrinks(q)
    BY <1>1, <1>5, <2>5 DEF Grows, Shrinks
  <2>9. LockInv'
    BY <1>1, <1>2, <1>5, <2>4, <2>8, EditLock
  <2> QED BY <1>1, <1>2, <2>7, <2>8, <2>9, CopiesKept DEF IndexInv
<1> QED BY <1>3, <1>4, <1>5 DEF I!Edit

LEMMA IndexStep ==
    ASSUME IndexInv, I!Next
    PROVE  IndexInv'
BY StartWriteOK, StageLandsOK, StageLostOK, StageRefusedOK, ApplyOK, PatchOK, RestateOK,
   ReadFreshOK, ReadOK, FlushOK, RestartOK, RowsEditOK DEF I!Next

LEMMA IndexStutters ==
    ASSUME IndexInv, UNCHANGED indexVars
    PROVE  IndexInv'
<1>1. TableInv' /\ VersInv' /\ LockInv' /\ Grows /\ \A q : Shrinks(q)
  BY StandsStill DEF indexVars
<1>2. CopiesInv'
  BY <1>1, CopiesKept DEF indexVars
<1> QED BY <1>1, <1>2 DEF IndexInv

LEMMA IndexStart ==
    ASSUME I!Init
    PROVE  IndexInv
<1>1. /\ rows \subseteq I!NavRows /\ ~I!Twins(rows) /\ OneId(rows) /\ \A x \in rows : x.asked = x.det
      /\ rowsLeft \in [Spent -> Nat] /\ lock = None /\ lock \notin Processes
  BY IndexFacts DEF I!Init, I!IndexAssumption, OneId, Spent
<1>2. TableInv
  BY <1>1, TwinsIs DEF TableInv, There, Final, I!Init
<1>3. VersInv
  BY <1>1 DEF VersInv, Older, I!Init
<1>4. LockInv
  BY <1>1 DEF LockInv, I!Init
<1>5. PICK v, m : v = [rows |-> {}, dirty |-> FALSE] /\ m = I!Unloaded
  OBVIOUS
<1>6. \A p \in Processes : view[p] = v /\ mem[p] = m
  BY <1>5 DEF I!Init
<1>7. \A p \in Processes : CopiesOf(v, m, p, lock = p)
  BY <1>1, <1>5, BlankIsCopy DEF Blank
<1>8. CopiesInv
  BY <1>5, <1>6, <1>7 DEF CopiesInv, Copy, There, OneDate, I!Init
<1> QED BY <1>2, <1>3, <1>4, <1>8 DEF IndexInv

LEMMA IndexSays ==
    ASSUME IndexInv
    PROVE  I!NoTwinsOfOurs /\ I!FinalityIsKept /\ I!ServedWasThere /\ I!WritesAreSeen
<1>1. I!NoTwinsOfOurs
  BY TwinsIs DEF IndexInv, TableInv, I!NoTwinsOfOurs
<1>2. I!FinalityIsKept
  BY DEF IndexInv, TableInv, Final, I!FinalityIsKept
<1>3. I!ServedWasThere
  BY DEF IndexInv, TableInv, CopiesInv, CopiesOf, Copy, There, I!ServedWasThere, I!Known
<1>4. I!WritesAreSeen
  BY DEF IndexInv, CopiesInv, CopiesOf, Covers, I!WritesAreSeen, I!Known
<1> QED BY <1>1, <1>2, <1>3, <1>4

-----------------------------------------------------------------------------
(* The gate.  What a synchronization found, and the receipt it leaves, is  *)
(* backed by a full sync that read the same off the sheet; once an attempt *)
(* has said that it could not synchronize, the receipt says so.            *)
IsSheet ==
    /\ sheet = [quantity |-> sheet.quantity, cost |-> sheet.cost, fund |-> sheet.fund, cash |-> sheet.cash]
    /\ sheet.cash \in BOOLEAN

IsSync(x) == x = [pc |-> x.pc, obs |-> x.obs, ver |-> x.ver, prof |-> x.prof, whole |-> x.whole,
                  stages |-> x.stages, partial |-> x.partial, verdict |-> x.verdict]

Backed(x, found) ==
    x.verdict # None =>
      /\ DOMAIN x.verdict = Q!Replicas
      /\ x.verdict["quantity"] = "trusted" /\ x.verdict["fund"] = "trusted" =>
           \E f \in found : /\ f.obs = x.obs /\ f.prof = x.prof
                            /\ x.verdict["cost"] = "trusted" => f.cost
                            /\ x.verdict["cash"] = "trusted" => f.cash

SyncOf(s, x, found) ==
    /\ IsSync(x)
    /\ x.pc \in {"observed", "failed", "refused"} => x.verdict = None
    /\ s = "full" => Backed(x, found)

Syncs == sync = [s \in Q!Kinds |-> sync[s]] /\ \A s \in Q!Kinds : SyncOf(s, sync[s], proofs)

ReceiptOf(x, found) ==
    /\ x.full => Backed(x, found)
    /\ x.ok => x.verdict # None /\ ~Q!Mismatched(x.verdict)

GateInv ==
    /\ IsSheet /\ Syncs
    /\ latest # None => ReceiptOf(latest, proofs)
    /\ failed /\ latest # None => latest.verdict = None \/ ~latest.full

LEMMA MoreBacks ==
    ASSUME NEW x, NEW found, NEW more, found \subseteq more
    PROVE  /\ Backed(x, found) => Backed(x, more)
           /\ ReceiptOf(x, found) => ReceiptOf(x, more)
           /\ \A s : SyncOf(s, x, found) => SyncOf(s, x, more)
<1>1. Backed(x, found) => Backed(x, more)
  BY DEF Backed
<1> QED BY <1>1 DEF ReceiptOf, SyncOf

(* A step of a sync, which may find a proof.                               *)
LEMMA SyncMoves ==
    ASSUME Syncs, NEW s \in Q!Kinds, NEW x, SyncOf(s, x, proofs'),
           sync' = [sync EXCEPT ![s] = x], proofs \subseteq proofs'
    PROVE  Syncs'
<1>1. sync' = [k \in Q!Kinds |-> sync'[k]]
  BY DEF Syncs
<1>2. ASSUME NEW k \in Q!Kinds PROVE SyncOf(k, sync'[k], proofs')
  <2>1. SyncOf(k, sync[k], proofs')
    BY MoreBacks DEF Syncs
  <2> QED BY <2>1 DEF Syncs
<1> QED BY <1>1, <1>2 DEF Syncs

LEMMA IdleSync ==
    ASSUME NEW s, NEW found
    PROVE  SyncOf(s, Q!Idle, found)
BY DEF Q!Idle, SyncOf, IsSync, Backed

(* A step that leaves the receipt, and finds nothing.                      *)
LEMMA GateKept ==
    ASSUME GateInv, IsSheet', Syncs', latest' = latest, proofs \subseteq proofs', failed' = failed
    PROVE  GateInv'
BY MoreBacks DEF GateInv

LEMMA ObserveOK ==
    ASSUME GateInv, NEW s \in Q!Kinds, Q!Observe(s) \/ \E whole \in BOOLEAN : Q!QueryFails(s, whole)
    PROVE  GateInv'
<1>1. ASSUME Q!Observe(s) PROVE Syncs'
  <2>1. PICK x : x = [Q!Idle EXCEPT !.pc = "observed", !.obs = clock, !.ver = version,
                                    !.prof = profile, !.whole = TRUE]
    OBVIOUS
  <2>2. SyncOf(s, x, proofs')
    BY <2>1 DEF Q!Idle, SyncOf, IsSync, Backed
  <2>3. sync' = [sync EXCEPT ![s] = x]
    BY <1>1, <2>1 DEF Q!Observe
  <2> QED BY <1>1, <2>2, <2>3, SyncMoves DEF GateInv, Q!Observe
<1>2. ASSUME NEW whole \in BOOLEAN, Q!QueryFails(s, whole) PROVE Syncs'
  <2>1. PICK x : x = [Q!Idle EXCEPT !.pc = "failed", !.obs = clock, !.whole = whole,
                                    !.prof = IF whole THEN profile ELSE None]
    OBVIOUS
  <2>2. SyncOf(s, x, proofs')
    BY <2>1 DEF Q!Idle, SyncOf, IsSync, Backed
  <2>3. sync' = [sync EXCEPT ![s] = x]
    BY <1>2, <2>1 DEF Q!QueryFails
  <2> QED BY <1>2, <2>2, <2>3, SyncMoves DEF GateInv, Q!QueryFails
<1>3. Syncs'
  BY <1>1, <1>2
<1>4. proofs' = proofs /\ latest' = latest /\ failed' = failed /\ sheet' = sheet
  BY DEF Q!Observe, Q!QueryFails
<1> QED BY <1>3, <1>4, GateKept DEF GateInv, IsSheet

(* A step to a place where nothing has been read yet, or from where it has *)
(* been; it may write the sheet.                                           *)
Continues(x, y) ==
    /\ IsSync(x) /\ x.verdict = y.verdict /\ x.obs = y.obs /\ x.prof = y.prof
    /\ x.pc \notin {"observed", "failed"}
    /\ x.pc = "refused" => y.pc = "observed"

LEMMA SyncGoes ==
    ASSUME GateInv, NEW s \in Q!Kinds, NEW x, Continues(x, sync[s]),
           sync' = [sync EXCEPT ![s] = x],
           IsSheet', latest' = latest, proofs' = proofs, failed' = failed
    PROVE  GateInv'
<1>1. PICK y : y = sync[s] /\ SyncOf(s, y, proofs) /\ Continues(x, y)
  BY DEF GateInv, Syncs
<1>2. Backed(y, proofs) => Backed(x, proofs)
  BY <1>1 DEF Backed, Continues
<1>3. SyncOf(s, x, proofs')
  BY <1>1, <1>2 DEF SyncOf, Continues
<1>4. Syncs'
  BY <1>3, SyncMoves DEF GateInv
<1> QED BY <1>4, GateKept

LEMMA DiffFailsOK ==
    ASSUME GateInv, Q!DiffFails
    PROVE  GateInv'
<1>1. "full" \in Q!Kinds
  BY DEF Q!Kinds
<1>2. PICK y, x : y = sync["full"] /\ IsSync(y) /\ x = [y EXCEPT !.pc = "refused"]
  BY <1>1 DEF GateInv, Syncs, SyncOf
<1>3. Continues(x, y)
  BY <1>2 DEF Q!DiffFails, Continues, IsSync
<1>4. sync' = [sync EXCEPT !["full"] = x]
  BY <1>2 DEF Q!DiffFails, Q!Goto
<1>5. IsSheet' /\ latest' = latest /\ proofs' = proofs /\ failed' = failed
  BY DEF Q!DiffFails, GateInv, IsSheet
<1> QED BY <1>1, <1>2, <1>3, <1>4, <1>5, SyncGoes

(* The sheet is written, or not, or no one knows.                          *)
LEMMA SheetWritten ==
    ASSUME IsSheet, NEW ver, NEW written,
           \/ written = [sheet EXCEPT !.quantity = ver, !.cost = ver]
           \/ written = [sheet EXCEPT !.fund = ver],
           sheet' \in {sheet, written}
    PROVE  IsSheet'
BY DEF IsSheet

LEMMA WritePositionsOK ==
    ASSUME GateInv, Q!WritePositions
    PROVE  GateInv'
<1>1. "full" \in Q!Kinds
  BY DEF Q!Kinds
<1>2. PICK y, written : /\ y = sync["full"] /\ IsSync(y)
                        /\ written = [sheet EXCEPT !.quantity = y.ver, !.cost = y.ver]
                        /\ sheet' \in {sheet, written}
  BY <1>1 DEF GateInv, Syncs, SyncOf, Q!WritePositions
<1>3. IsSheet'
  BY <1>2, SheetWritten DEF GateInv
<1>4. PICK x : /\ sync' = [sync EXCEPT !["full"] = x]
               /\ \/ x = [y EXCEPT !.pc = "fund", !.stages = {"positions"}]
                  \/ x = [y EXCEPT !.pc = "readback", !.partial = TRUE]
  BY <1>1, <1>2 DEF Q!WritePositions, GateInv, Syncs
<1>5. Continues(x, y)
  BY <1>2, <1>4 DEF Continues, IsSync
<1>6. latest' = latest /\ proofs' = proofs /\ failed' = failed
  BY DEF Q!WritePositions
<1> QED BY <1>1, <1>2, <1>3, <1>4, <1>5, <1>6, SyncGoes

LEMMA WriteFundOK ==
    ASSUME GateInv, NEW s \in Q!Kinds, Q!WriteFund(s)
    PROVE  GateInv'
<1>1. PICK y, written : /\ y = sync[s] /\ IsSync(y)
                        /\ written = [sheet EXCEPT !.fund = y.ver] /\ sheet' \in {sheet, written}
  BY DEF GateInv, Syncs, SyncOf, Q!WriteFund
<1>2. IsSheet'
  BY <1>1, SheetWritten DEF GateInv
<1>3. PICK x : /\ sync' = [sync EXCEPT ![s] = x]
               /\ \/ x = [y EXCEPT !.pc = "readback", !.stages = @ \cup {"securities_cash", "fund_mmf"}]
                  \/ x = [y EXCEPT !.pc = "readback", !.partial = TRUE, !.stages = @ \cup {"securities_cash"}]
  BY <1>1 DEF Q!WriteFund, GateInv, Syncs
<1>4. Continues(x, y)
  BY <1>1, <1>3 DEF Continues, IsSync
<1>5. latest' = latest /\ proofs' = proofs /\ failed' = failed
  BY DEF Q!WriteFund
<1> QED BY <1>1, <1>2, <1>3, <1>4, <1>5, SyncGoes

(* A verdict that was read, and the proof found with it.                   *)
LEMMA ReadBackOK ==
    ASSUME GateInv, NEW s \in Q!Kinds, Q!ReadBack(s)
    PROVE  GateInv'
<1>1. PICK y : y = sync[s] /\ IsSync(y)
  BY DEF GateInv, Syncs, SyncOf
<1>2. PICK verdict \in {Q!Compare(s), Q!Unread(s)}, pc \in {"again", "save"} :
        sync' = [sync EXCEPT ![s] = [y EXCEPT !.pc = pc, !.verdict = verdict]]
  <2>1. PICK verdict \in {Q!Compare(s), Q!Unread(s)} :
          sync' = [sync EXCEPT
                     ![s].pc = IF sync[s].pc = "readback" /\ Q!Mismatched(verdict) THEN "again" ELSE "save",
                     ![s].verdict = verdict]
    BY DEF Q!ReadBack
  <2>2. PICK pc \in {"again", "save"} :
          pc = IF sync[s].pc = "readback" /\ Q!Mismatched(verdict) THEN "again" ELSE "save"
    OBVIOUS
  <2>3. sync' = [sync EXCEPT ![s] = [y EXCEPT !.pc = pc, !.verdict = verdict]]
    BY <1>1, <2>1, <2>2 DEF GateInv, Syncs
  <2> QED BY <2>3
<1>3. PICK x : x = [y EXCEPT !.pc = pc, !.verdict = verdict]
  OBVIOUS
<1>4. IsSync(x) /\ x.pc = pc /\ x.verdict = verdict /\ x.obs = y.obs /\ x.prof = y.prof
  BY <1>1, <1>3 DEF IsSync
<1>5. PICK proof : proof = [obs |-> y.obs, prof |-> y.prof, cost |-> sheet.cost = y.ver, cash |-> sheet.cash]
  OBVIOUS
<1>6. /\ proofs \subseteq proofs'
      /\ s = "full" /\ sheet.quantity = y.ver /\ sheet.fund = y.ver => proof \in proofs'
  BY <1>1, <1>5 DEF Q!ReadBack
<1>7. ASSUME s = "full" PROVE Backed(x, proofs')
  <2>1. CASE verdict = Q!Unread(s)
    BY <1>4, <1>7, <2>1 DEF Q!Unread, Backed, Q!Replicas
  <2>2. CASE verdict = Q!Compare(s)
    <3>1. verdict = [quantity |-> IF sheet.quantity = y.ver THEN "trusted" ELSE "untrusted",
                     cost |-> IF sheet.cost = y.ver THEN "trusted" ELSE "untrusted",
                     cash |-> IF sheet.cash THEN "trusted" ELSE "untrusted",
                     fund |-> IF sheet.fund = y.ver THEN "trusted" ELSE "untrusted"]
      BY <1>1, <1>7, <2>2, Zenon DEF Q!Compare
    <3>2. /\ DOMAIN verdict = Q!Replicas
          /\ verdict["quantity"] = "trusted" <=> sheet.quantity = y.ver
          /\ verdict["cost"] = "trusted" <=> sheet.cost = y.ver
          /\ verdict["cash"] = "trusted" <=> sheet.cash
          /\ verdict["fund"] = "trusted" <=> sheet.fund = y.ver
      BY <3>1 DEF Q!Replicas
    <3>3. /\ proof.obs = x.obs /\ proof.prof = x.prof
          /\ verdict["cost"] = "trusted" => proof.cost
          /\ verdict["cash"] = "trusted" => proof.cash
      BY <1>4, <1>5, <3>2
    <3> QED BY <1>4, <1>6, <1>7, <3>2, <3>3 DEF Backed
  <2> QED BY <1>2, <2>1, <2>2
<1>8. SyncOf(s, x, proofs')
  BY <1>2, <1>4, <1>7 DEF SyncOf
<1>9. Syncs'
  BY <1>2, <1>3, <1>6, <1>8, SyncMoves DEF GateInv
<1>10. IsSheet' /\ latest' = latest /\ failed' = failed
  BY DEF Q!ReadBack, GateInv, IsSheet
<1> QED BY <1>6, <1>9, <1>10, GateKept

LEMMA ReceiptSays ==
    ASSUME Syncs, NEW s \in Q!Kinds, NEW r, r = Q!Receipt(s)
    PROVE  ReceiptOf(r, proofs) /\ r.verdict = sync[s].verdict /\ (r.full <=> s = "full")
<1>1. PICK y : y = sync[s] /\ SyncOf(s, y, proofs)
  BY DEF Syncs
<1>2. /\ r.obs = y.obs /\ r.prof = y.prof /\ r.verdict = y.verdict /\ (r.full <=> s = "full")
      /\ r.ok <=> y.verdict # None /\ Q!Succeeded(s)
  BY <1>1 DEF Q!Receipt
<1>3. r.full => Backed(r, proofs)
  BY <1>1, <1>2 DEF SyncOf, Backed
<1>4. r.ok => r.verdict # None /\ ~Q!Mismatched(r.verdict)
  BY <1>1, <1>2 DEF Q!Succeeded
<1> QED BY <1>1, <1>2, <1>3, <1>4 DEF ReceiptOf

LEMMA SaveOK ==
    ASSUME GateInv, NEW s \in Q!Kinds, Q!Save(s) \/ Q!SaveFailed(s)
    PROVE  GateInv'
<1>1. /\ sync' = [sync EXCEPT ![s] = Q!Idle] /\ proofs' = proofs /\ sheet' = sheet
  BY DEF Q!Save, Q!SaveFailed
<1>2. IsSheet' /\ Syncs'
  BY <1>1, IdleSync, SyncMoves DEF GateInv, IsSheet
<1>3. PICK r : r = Q!Receipt(s)
  OBVIOUS
<1>4. ReceiptOf(r, proofs) /\ r.verdict = sync[s].verdict /\ (r.full <=> s = "full")
  BY <1>3, ReceiptSays DEF GateInv
<1>5. sync[s].pc \in {"failed", "refused"} => sync[s].verdict = None
  BY DEF GateInv, Syncs, SyncOf
<1>6. \/ latest' = r /\ failed' = (failed /\ s # "full")
      \/ latest' = r /\ sync[s].pc \in {"failed", "refused"}
      \/ latest' = latest /\ failed' = failed
  BY <1>3 DEF Q!Save, Q!SaveFailed
<1>7. latest' # None => ReceiptOf(latest', proofs')
  BY <1>1, <1>4, <1>6 DEF GateInv
<1>8. failed' /\ latest' # None => latest'.verdict = None \/ ~latest'.full
  BY <1>4, <1>5, <1>6 DEF GateInv
<1> QED BY <1>2, <1>7, <1>8 DEF GateInv

LEMMA SyncCrashOK ==
    ASSUME GateInv, NEW s \in Q!Kinds, Q!Crash(s)
    PROVE  GateInv'
<1>1. Syncs'
  BY IdleSync, SyncMoves DEF GateInv, Q!Crash
<1> QED BY <1>1, GateKept DEF Q!Crash, GateInv, IsSheet

(* Whatever is no synchronization leaves both it and its receipt.          *)
LEMMA AsideOK ==
    ASSUME GateInv, IsSheet', UNCHANGED <<sync, latest, proofs, failed>>
    PROVE  GateInv'
<1>1. Syncs'
  BY DEF GateInv, Syncs
<1> QED BY <1>1, GateKept

LEMMA SheetEditOK ==
    ASSUME GateInv, Q!Edit
    PROVE  GateInv'
<1>1. \/ sheet' \in {[sheet EXCEPT !.quantity = 0], [sheet EXCEPT !.cost = 0],
                     [sheet EXCEPT !.fund = 0], [sheet EXCEPT !.cash = ~@]}
      \/ sheet' = sheet
  BY DEF Q!Edit
<1>2. IsSheet'
  BY <1>1 DEF GateInv, IsSheet
<1> QED BY <1>2, AsideOK DEF Q!Edit

LEMMA GateStepOK ==
    ASSUME GateInv, Q!Next
    PROVE  GateInv'
<1>1. ASSUME UNCHANGED <<sheet, sync, latest, proofs, failed>> PROVE GateInv'
  BY <1>1, AsideOK DEF GateInv, IsSheet
<1>2. Q!Tick \/ Q!Trade \/ Q!WriteNav \/ (\E p \in Profiles \cup {None} : Q!Configure(p))
      \/ (\E v \in Valuations : Q!Value(v)) \/ (\E known, audited \in BOOLEAN : Q!Publish(known, audited))
      => GateInv'
  BY <1>1 DEF Q!Tick, Q!Trade, Q!WriteNav, Q!Configure, Q!Value, Q!Publish
<1> QED BY <1>2, ObserveOK, DiffFailsOK, WritePositionsOK, WriteFundOK, ReadBackOK, SaveOK,
           SyncCrashOK, SheetEditOK DEF Q!Next

LEMMA GateStutters ==
    ASSUME GateInv, UNCHANGED gateVars
    PROVE  GateInv'
BY AsideOK DEF gateVars, GateInv, IsSheet

LEMMA GateStart ==
    ASSUME Q!Init
    PROVE  GateInv
<1>1. Syncs
  BY IdleSync DEF Q!Init, Syncs
<1> QED BY <1>1 DEF Q!Init, GateInv, IsSheet

(* What the gate admits has a proof, and nothing has failed since.         *)
LEMMA UsableIs ==
    ASSUME GateInv, Q!Usable(latest)
    PROVE  /\ latest # None /\ latest.obs >= Q!Required(clock) /\ latest.prof = profile
           /\ latest.full /\ Backed(latest, proofs)
           /\ latest.ok => latest.verdict # None /\ ~Q!Mismatched(latest.verdict)
BY DEF Q!Usable, Q!Fresh, Q!Complete, GateInv, ReceiptOf

LEMMA AdmittedIs ==
    ASSUME GateInv, NEW v, Q!Admits(v)
    PROVE  /\ \E p \in proofs : p.obs >= Q!Required(clock) /\ p.prof = profile /\ p.cash
           /\ ~failed
<1>1. /\ Q!Mapping = "trusted" /\ Q!Verdict(latest, "quantity") = "trusted"
      /\ Q!Verdict(latest, "cash") = "trusted" /\ Q!Verdict(latest, "fund") = "trusted"
  BY DEF Q!Admits, Q!Gate, Q!Trusted
<1>2. Q!Usable(latest)
  BY <1>1 DEF Q!Mapping
<1>3. /\ latest.verdict # None /\ latest.verdict["quantity"] = "trusted"
      /\ latest.verdict["cash"] = "trusted" /\ latest.verdict["fund"] = "trusted"
  BY <1>1, <1>2 DEF Q!Verdict
<1>4. PICK f \in proofs : f.obs = latest.obs /\ f.prof = latest.prof /\ f.cash
  BY <1>2, <1>3, UsableIs DEF Backed
<1>5. f.obs >= Q!Required(clock) /\ f.prof = profile
  BY <1>2, <1>4, UsableIs
<1> QED BY <1>2, <1>3, <1>4, <1>5, UsableIs DEF GateInv

LEMMA HealthyIs ==
    ASSUME GateInv, Q!Healthy
    PROVE  \E p \in proofs : p.obs >= Q!Required(clock) /\ p.prof = profile /\ p.cost
<1>1. Q!Usable(latest) /\ latest.ok
  BY DEF Q!Healthy
<1>2. /\ DOMAIN latest.verdict = Q!Replicas /\ latest.verdict # None
      /\ latest.verdict["quantity"] = "trusted" /\ latest.verdict["cost"] = "trusted"
      /\ latest.verdict["fund"] = "trusted"
  BY <1>1, UsableIs DEF Q!Mismatched, Backed, Q!Replicas
<1>3. PICK f \in proofs : f.obs = latest.obs /\ f.prof = latest.prof /\ f.cost
  BY <1>1, <1>2, UsableIs DEF Backed
<1> QED BY <1>1, <1>3, UsableIs

LEMMA NavIs ==
    ASSUME NEW known \in BOOLEAN, NEW audited \in BOOLEAN, known => row # None,
           Q!NavStatus(Q!Valuation(known), audited)
    PROVE  row # None /\ row.final /\ Q!Admits(row) /\ ~twins
<1>1. PICK v : v = Q!Valuation(known)
  OBVIOUS
<1>2. v.final /\ audited /\ ~twins
  BY <1>1 DEF Q!NavStatus, Q!Gate, Q!History
<1>3. known /\ v = row
  BY <1>1, <1>2 DEF Q!Valuation
<1> QED BY <1>1, <1>2, <1>3 DEF Q!NavStatus, Q!Gate, Q!Admits, Q!Trusted

LEMMA NavWritten ==
    ASSUME GateInv, Q!Next, row' # row
    PROVE  /\ \E p \in proofs : p.obs >= Q!Required(clock) /\ p.prof = profile /\ p.cash
           /\ ~failed
<1>1. Q!WriteNav
  BY DEF Q!Next, Q!Tick, Q!Trade, Q!Edit, Q!DiffFails, Q!WritePositions, Q!Configure, Q!Observe,
         Q!SaveFailed, Q!WriteFund, Q!ReadBack, Q!Save, Q!Crash, Q!QueryFails, Q!Value, Q!Publish
<1>2. Q!Admits(valued)
  BY <1>1 DEF Q!WriteNav
<1> QED BY <1>2, AdmittedIs

LEMMA StatusPublished ==
    ASSUME GateInv, Q!Next, artifact' # artifact
    PROVE  /\ artifact'.healthy =>
                \E p \in proofs : p.obs >= Q!Required(clock) /\ p.prof = profile /\ p.cost
           /\ artifact'.nav => row # None /\ row.final /\ Q!Admits(row) /\ ~twins
<1>1. PICK known \in BOOLEAN, audited \in BOOLEAN : Q!Publish(known, audited)
  BY DEF Q!Next, Q!Tick, Q!Trade, Q!Edit, Q!DiffFails, Q!WritePositions, Q!WriteNav, Q!Configure, Q!Observe,
         Q!SaveFailed, Q!WriteFund, Q!ReadBack, Q!Save, Q!Crash, Q!QueryFails, Q!Value
<1>2. /\ artifact'.healthy <=> Q!Healthy
      /\ artifact'.nav <=> Q!NavStatus(Q!Valuation(known), audited)
      /\ known => row # None
  BY <1>1 DEF Q!Publish
<1> QED BY <1>2, HealthyIs, NavIs

-----------------------------------------------------------------------------
(* The whole.                                                              *)
Inv == StoreInv /\ IndexInv /\ GateInv

LEMMA StartInv ==
    ASSUME MCInit
    PROVE  Inv /\ CacheInv
BY StoreStart, CacheStart, IndexStart, GateStart DEF MCInit, Inv

LEMMA StepInv ==
    ASSUME Inv, [MCNext]_allVars
    PROVE  Inv' /\ (IsInjective(ProcessOf) /\ CacheInv => CacheInv') /\ [Next]_vars
<1>1. [Next]_vars
  BY DEF MCNext, allVars, HoldingsStep, RowsStep, QuotesStep, GateStep
<1>2. StoreInv' /\ (IsInjective(ProcessOf) /\ CacheInv => CacheInv')
  BY <1>1, StoreStep, CacheStep DEF Inv
<1>3. IndexInv'
  BY IndexStep, IndexStutters DEF Inv, MCNext, allVars, HoldingsStep, RowsStep, QuotesStep, GateStep
<1>4. GateInv'
  BY GateStepOK, GateStutters DEF Inv, MCNext, allVars, HoldingsStep, RowsStep, QuotesStep, GateStep
<1> QED BY <1>1, <1>2, <1>3, <1>4 DEF Inv

LEMMA AlwaysInv == MCSpec => []Inv
<1>1. MCInit => Inv
  BY StartInv
<1>2. Inv /\ [MCNext]_allVars => Inv'
  BY StepInv
<1> QED BY <1>1, <1>2, PTL DEF MCSpec

(* A process never loses sight of what it wrote itself, heard or not, when *)
(* its threads do not share a cache: a loaded account was read after its   *)
(* last write, and a NAV row it was told it wrote is what it answers with  *)
(* for as long as the row stays (holdings_repository.py:780-820,           *)
(* _apply_nav_rows_to_local_cache).                                        *)
THEOREM SeesItsWrites == IsInjective(ProcessOf) => (MCSpec => []WritesAreSeen)
<1> SUFFICES ASSUME IsInjective(ProcessOf) PROVE MCSpec => []WritesAreSeen
  OBVIOUS
<1>1. MCInit => Inv /\ CacheInv
  BY StartInv
<1>2. Inv /\ CacheInv /\ [MCNext]_allVars
      => (Inv /\ CacheInv)'
  BY StepInv
<1>3. Inv /\ CacheInv => WritesAreSeen
  BY CacheSays, IndexSays DEF WritesAreSeen, Inv
<1> QED BY <1>1, <1>2, <1>3, PTL DEF MCSpec

(* A copy answers with what one read gave: the whole of an account that    *)
(* counts as loaded (holdings_repository.py:592-595), and no NAV row the   *)
(* table has not held, also after a batch that failed half-way.            *)
THEOREM ServesWhatWasThere == IsInjective(ProcessOf) => (MCSpec => []CopiesWereThere)
<1> SUFFICES ASSUME IsInjective(ProcessOf) PROVE MCSpec => []CopiesWereThere
  OBVIOUS
<1>1. MCInit => Inv /\ CacheInv
  BY StartInv
<1>2. Inv /\ CacheInv /\ [MCNext]_allVars
      => (Inv /\ CacheInv)'
  BY StepInv
<1>3. Inv /\ CacheInv => CopiesWereThere
  BY CacheSays, IndexSays DEF CopiesWereThere, Inv
<1> QED BY <1>1, <1>2, <1>3, PTL DEF MCSpec

(* No full write leaves two NAV rows on a date, and a final row stays so:  *)
(* the plan is made on the index read under the lock, and the retry        *)
(* without the details is refused (_write_nav_full_records,                *)
(* _fail_closed_if_finality_would_be_dropped).                             *)
THEOREM KeepsRows == MCSpec => []RowsAreKept
<1>1. Inv => RowsAreKept
  BY IndexSays DEF RowsAreKept, Inv
<1> QED BY <1>1, AlwaysInv, PTL

(* A write that nobody raced after its check finds the records as they     *)
(* were when it was planned (_fresh_base_for_target), whatever threads     *)
(* share a cache.                                                          *)
THEOREM WritesOnItsBase == MCSpec => KeepsBase
<1> DEFINE Kept(t) ==
       (/\ call[t].step \in {"update", "create"} /\ ~call[t].raced
        /\ call'[t].step # call[t].step /\ table' # table)
       => \A target \in (IF call[t].step = "update" THEN Updates(call[t].plan) ELSE Creates(call[t].plan)) :
            IF call[t].step = "update" THEN table[target.id] = target.was
            ELSE Rows(table, target.key) = {}
<1>1. Inv /\ [MCNext]_allVars
      => [\A t \in Threads : Kept(t)]_vars
  BY StepKeepsBase DEF Inv
<1> QED BY <1>1, AlwaysInv, PTL DEF MCSpec, KeepsBase

(* A NAV is written on holdings that a full sync of the configured broker  *)
(* account, in the newest window, has found on the sheet, and never after  *)
(* an attempt that said it could not synchronize: through failed writes    *)
(* and reads, crashes, edits and changes of the configuration              *)
(* (quality/policy.py, the gate of the NAV writer).                        *)
THEOREM NavHasProof == MCSpec => NavRestsOnProof
<1>1. Inv /\ [MCNext]_allVars
      => [row' # row => \E p \in proofs : p.obs >= Q!Required(clock) /\ p.prof = profile /\ p.cash]_(Q!vars)
  BY NavWritten DEF Inv, MCNext, allVars, gateVars, HoldingsStep, RowsStep, QuotesStep, GateStep, Q!vars
<1>2. Inv /\ [MCNext]_allVars => [row' # row => ~failed]_(Q!vars)
  BY NavWritten DEF Inv, MCNext, allVars, gateVars, HoldingsStep, RowsStep, QuotesStep, GateStep, Q!vars
<1>3. MCSpec => Q!NavOnProof
  BY <1>1, AlwaysInv, PTL DEF MCSpec, Q!NavOnProof
<1>4. MCSpec => Q!NavNotAfterFailure
  BY <1>2, AlwaysInv, PTL DEF MCSpec, Q!NavNotAfterFailure
<1> QED BY <1>3, <1>4 DEF NavRestsOnProof

(* What the status says is true when it is published: a healthy account    *)
(* was synchronized in the newest window, and a NAV that readers may trust *)
(* is one the writer's gate would let through (quality/service.py,         *)
(* quality/artifact.py).                                                   *)
THEOREM StatusIsTrue == MCSpec => ReportIsTrue
<1>1. Inv /\ [MCNext]_allVars
      => [artifact' # artifact /\ artifact'.healthy =>
            \E p \in proofs : p.obs >= Q!Required(clock) /\ p.prof = profile /\ p.cost]_(Q!vars)
  BY StatusPublished DEF Inv, MCNext, allVars, gateVars, HoldingsStep, RowsStep, QuotesStep, GateStep, Q!vars
<1>2. Inv /\ [MCNext]_allVars
      => [artifact' # artifact /\ artifact'.nav => row # None /\ row.final /\ Q!Admits(row) /\ ~twins]_(Q!vars)
  BY StatusPublished DEF Inv, MCNext, allVars, gateVars, HoldingsStep, RowsStep, QuotesStep, GateStep, Q!vars
<1>3. MCSpec => Q!HealthyHasSynced
  BY <1>1, AlwaysInv, PTL DEF MCSpec, Q!HealthyHasSynced
<1>4. MCSpec => Q!PublishedIsAdmitted
  BY <1>2, AlwaysInv, PTL DEF MCSpec, Q!PublishedIsAdmitted
<1> QED BY <1>3, <1>4 DEF ReportIsTrue
=============================================================================

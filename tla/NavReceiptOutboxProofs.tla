------------------------ MODULE NavReceiptOutboxProofs ------------------------
(***************************************************************************)
(* What is proved of the NAV receipt outbox, for any number of runs,       *)
(* drains and receipts, any lease and any retry delays.                    *)
(*                                                                         *)
(* Leases and dispatchers race freely here: two calls may hold the same    *)
(* receipt.  What keeps the outbox honest is that an outcome "sent" comes  *)
(* after an acceptance whoever sent (Acknowledged), and that a row leaves  *)
(* "sending" only for the outcome of a call that holds it.  A run between  *)
(* the halves of its mark holds its row still, or the sweep that took it   *)
(* is on record (Noted).                                                   *)
(***************************************************************************)
EXTENDS NavReceiptOutbox, TLAPS

USE NavReceiptAssumption

(* A call that has sent its row, and a row that is settled, have the        *)
(* channel's acceptance behind them.                                        *)
Acknowledged ==
    /\ \A d \in Dispatchers : \A r \in Receipts :
         At(d, r) /\ disp[d].outcome = "sent" => accepted[r] > 0
    /\ \A r \in Receipts : row[r].status = "sent" => accepted[r] > 0

(* A run that has sent its receipt and has read its claim.                  *)
Reporting(d, r) ==
    At(d, r) /\ disp[d].for = r /\ disp[d].outcome = "sent" /\ disp[d].seen # None

(* A claim is read for an outcome, and held until the outcome is written    *)
(* unless a sweep came in between.                                          *)
Noted ==
    /\ \A d \in Dispatchers : disp[d].seen # None => disp[d].outcome # None
    /\ \A d \in Dispatchers : \A r \in Receipts :
         Reporting(d, r) => Holds(d, r) \/ r \in lapsed

IInv == TypeOK /\ Acknowledged /\ Noted /\ ToldIsSettled

-----------------------------------------------------------------------------
(* Types of the tables the operations compute.                              *)

LEMMA SweptRow ==
    ASSUME NEW x \in Row
    PROVE  /\ Swept(x) \in Row
           /\ Swept(x).status = x.status \/ (x.status = "sending" /\ Swept(x).status = "failed")
BY DEF Swept, Row

LEMMA AgedRow ==
    ASSUME NEW x \in Row
    PROVE  Aged(x) \in Row /\ Aged(x).status = x.status /\ Aged(x).owner = x.owner
<1>1. (IF x.status = "sending" /\ x.age < Lease THEN x.age + 1 ELSE x.age) \in Nat
  BY DEF Row
<1>2. (IF x.due > 0 THEN x.due - 1 ELSE x.due) \in Nat
  BY DEF Row
<1>3. QED
  BY <1>1, <1>2 DEF Aged, Row

LEMMA DelayIsNat == ASSUME NEW n \in Nat, n > 0 PROVE Delay(n) \in Nat
BY DEF Delay

LEMMA DisownedRows ==
    ASSUME TypeOK, NEW d \in Dispatchers
    PROVE  /\ Disowned(row, d) \in [Receipts -> Row]
           /\ \A r \in Receipts : /\ Disowned(row, d)[r].status = row[r].status
                                  /\ row[r].owner # d => Disowned(row, d)[r] = row[r]
<1>1. \A x \in Row : [x EXCEPT !.owner = None] \in Row /\ [x EXCEPT !.owner = None].status = x.status
  BY DEF Row
<1>2. \A r \in Receipts : row[r] \in Row
  BY DEF TypeOK
<1>3. \A r \in Receipts : Disowned(row, d)[r] \in Row /\ Disowned(row, d)[r].status = row[r].status
                          /\ (row[r].owner # d => Disowned(row, d)[r] = row[r])
  BY <1>1, <1>2 DEF Disowned
<1>4. QED
  BY <1>3 DEF Disowned

(* The table a claim leaves: the rows of the batch were due, and the sweep  *)
(* and the claim neither settle a row nor touch one that is settled.        *)
LEMMA ClaimedRows ==
    ASSUME TypeOK, NEW d \in Dispatchers, NEW batch \in SUBSET Receipts,
           row' = [r \in Receipts |-> IF r \in batch
                                      THEN [Swept(row[r]) EXCEPT !.status = "sending", !.owner = d, !.age = 0]
                                      ELSE Swept(row[r])],
           \A r \in batch : Swept(row[r]).status \in {"pending", "failed"}
    PROVE  /\ row' \in [Receipts -> Row]
           /\ \A r \in Receipts : /\ (row'[r].status = "sent") <=> (row[r].status = "sent")
                                  /\ (row'[r].status = "absent") <=> (row[r].status = "absent")
           /\ \A r \in batch : row[r].status \notin {"absent", "sent"}
           /\ \A r \in Receipts : row[r].status = "sending" /\ Swept(row[r]) = row[r] => row'[r] = row[r]
<1>1. \A r \in Receipts : /\ row[r] \in Row /\ Swept(row[r]) \in Row
                          /\ \/ Swept(row[r]).status = row[r].status
                             \/ row[r].status = "sending" /\ Swept(row[r]).status = "failed"
  BY SweptRow DEF TypeOK
<1>2. ASSUME NEW x \in Row
      PROVE  LET y == [x EXCEPT !.status = "sending", !.owner = d, !.age = 0]
             IN y \in Row /\ y.status = "sending"
  BY DEF Row
<1>3. \A r \in Receipts : row'[r] \in Row
  BY <1>1, <1>2
<1>4. \A r \in batch : row[r].status \notin {"absent", "sent"} /\ row'[r].status = "sending"
  BY <1>1, <1>2
<1>5. \A r \in Receipts \ batch : row'[r] = Swept(row[r])
  OBVIOUS
<1>6. QED
  BY <1>1, <1>3, <1>4, <1>5

LEMMA DueStatus == ASSUME NEW x, IsDue(x) PROVE x.status \in {"pending", "failed"}
BY DEF IsDue

(* A drain of the queue claims a batch of the rows that are owed.           *)
LEMMA DrainClaims ==
    ASSUME TypeOK, NEW d \in Dispatchers, Drain(d)
    PROVE  \E batch \in SUBSET Receipts :
             /\ disp[d] = Idle
             /\ disp' = [disp EXCEPT ![d] = [Idle EXCEPT !.batch = batch]]
             /\ row' \in [Receipts -> Row]
             /\ \A r \in Receipts : /\ (row'[r].status = "sent") <=> (row[r].status = "sent")
                                    /\ (row'[r].status = "absent") <=> (row[r].status = "absent")
             /\ \A r \in batch : row[r].status \notin {"absent", "sent"}
             /\ \A r \in Receipts : row[r].status = "sending" /\ Swept(row[r]) = row[r] => row'[r] = row[r]
<1> DEFINE swept == [r \in Receipts |-> Swept(row[r])]
           batch == Batch(swept, Receipts)
<1>1. /\ disp[d] = Idle
      /\ disp' = [disp EXCEPT ![d].batch = batch]
      /\ row' = [r \in Receipts |-> IF r \in batch
                   THEN [Swept(row[r]) EXCEPT !.status = "sending", !.owner = d, !.age = 0]
                   ELSE Swept(row[r])]
  BY DEF Drain, Claimed
<1>2. batch \in SUBSET Receipts /\ \A r \in batch : IsDue(swept[r])
  BY DEF Batch
<1>3. \A r \in batch : Swept(row[r]).status \in {"pending", "failed"}
  BY <1>2, DueStatus
<1> HIDE DEF swept, batch
<1>4. disp' = [disp EXCEPT ![d] = [Idle EXCEPT !.batch = batch]]
  BY <1>1
<1>5. QED
  BY <1>1, <1>2, <1>3, <1>4, ClaimedRows

(* A run's own dispatch claims its row, or only reports what the row says.  *)
LEMMA DispatchClaims ==
    ASSUME TypeOK, NEW d \in Dispatchers, NEW r \in Receipts, Dispatch(d, r)
    PROVE  /\ disp[d] = Idle
           /\ row' \in [Receipts -> Row]
           /\ \A s \in Receipts : /\ (row'[s].status = "sent") <=> (row[s].status = "sent")
                                  /\ (row'[s].status = "absent") <=> (row[s].status = "absent")
           /\ \A s \in Receipts : row[s].status = "sending" /\ Swept(row[s]) = row[s] => row'[s] = row[s]
           /\ \/ /\ disp' = [disp EXCEPT ![d] = [Idle EXCEPT !.batch = {r}, !.for = r]]
                 /\ row[r].status \notin {"absent", "sent"}
                 /\ told' = told
              \/ /\ disp' = disp
                 /\ told' = [told EXCEPT ![r] = IF row[r].status = "sent" THEN "sent" ELSE "queued"]
<1> DEFINE swept == [s \in Receipts |-> Swept(row[s])]
<1>1. disp[d] = Idle
  BY DEF Dispatch
<1>2. CASE Batch(swept, {r}) = {r}
  <2>1. /\ row' = [swept EXCEPT ![r].status = "sending", ![r].owner = d, ![r].age = 0]
        /\ disp' = [disp EXCEPT ![d] = [Idle EXCEPT !.batch = {r}, !.for = r]]
        /\ told' = told
    BY <1>2 DEF Dispatch
  <2>2. row' = [s \in Receipts |-> IF s \in {r}
                  THEN [Swept(row[s]) EXCEPT !.status = "sending", !.owner = d, !.age = 0]
                  ELSE Swept(row[s])]
    BY <2>1
  <2>3. \A s \in {r} : Swept(row[s]).status \in {"pending", "failed"}
    <3>1. IsDue(swept[r])
      BY <1>2 DEF Batch
    <3>2. QED
      BY <3>1, DueStatus
  <2>4. {r} \in SUBSET Receipts
    OBVIOUS
  <2> HIDE DEF swept
  <2>5. QED
    BY <1>1, <2>1, <2>2, <2>3, <2>4, ClaimedRows
<1>3. CASE Batch(swept, {r}) # {r}
  <2>1. /\ row' = swept /\ disp' = disp
        /\ told' = [told EXCEPT ![r] = IF row[r].status = "sent" THEN "sent" ELSE "queued"]
    BY <1>3 DEF Dispatch
  <2>2. row' = [s \in Receipts |-> IF s \in {}
                  THEN [Swept(row[s]) EXCEPT !.status = "sending", !.owner = d, !.age = 0]
                  ELSE Swept(row[s])]
    BY <2>1
  <2>3. {} \in SUBSET Receipts /\ \A s \in {} : Swept(row[s]).status \in {"pending", "failed"}
    OBVIOUS
  <2> HIDE DEF swept
  <2>4. QED
    BY <1>1, <2>1, <2>2, <2>3, ClaimedRows
<1>4. QED
  BY <1>2, <1>3

(* A call that holds its row writes its outcome there and nowhere else.     *)
LEMMA MarkWrites ==
    ASSUME TypeOK, Noted, NEW d \in Dispatchers, NEW r \in Receipts, Mark(d, r), Holds(d, r)
    PROVE  /\ row' \in [Receipts -> Row]
           /\ row[r].status = "sending" /\ disp[d].outcome \in {"sent", "failed"}
           /\ row'[r].status = disp[d].outcome
           /\ \A s \in Receipts \ {r} : row'[s] = row[s]
<1> DEFINE attempt == disp[d].seen + 1
           due == IF disp[d].outcome = "sent" THEN 0 ELSE Delay(attempt)
           counted == IF attempt <= MaxAttempts THEN attempt ELSE MaxAttempts
           new == [status |-> disp[d].outcome, owner |-> None, age |-> 0,
                   attempt |-> counted, due |-> due]
<1>1. row[r].status = "sending" /\ disp[d].outcome \in {"sent", "failed"}
  BY DEF Mark, Holds, Noted, TypeOK, Call
<1>2. row' = [row EXCEPT ![r] = new]
  BY DEF Mark, Marked
<1>3. due \in Nat /\ counted \in Nat
  <2>1. attempt \in Nat /\ attempt > 0
    BY DEF Mark, TypeOK, Call
  <2>2. QED
    BY <2>1, DelayIsNat
<1> HIDE DEF attempt, due, counted
<1>4. new \in Row /\ new.status = disp[d].outcome
  BY <1>1, <1>3 DEF Row
<1> HIDE DEF new
<1>5. QED
  BY <1>1, <1>2, <1>4 DEF TypeOK

(* What a call may still transmit changes with that call only.              *)
LEMMA CallStep ==
    ASSUME TypeOK, NEW d \in Dispatchers, NEW x \in Call, disp' = [disp EXCEPT ![d] = x]
    PROVE  /\ disp' \in [Dispatchers -> Call] /\ disp'[d] = x
           /\ \A e \in Dispatchers \ {d} : disp'[e] = disp[e]
BY DEF TypeOK

LEMMA IdleCall == Idle \in Call /\ Idle.batch = {} /\ Idle.outcome = None /\ Idle.seen = None
BY DEF Idle, Call

LEMMA RestCall ==
    ASSUME TypeOK, NEW d \in Dispatchers, NEW r \in Receipts
    PROVE  /\ Rest(d, r) \in Call /\ Rest(d, r).batch = disp[d].batch \ {r}
           /\ Rest(d, r).outcome = None /\ Rest(d, r).seen = None
BY IdleCall DEF Rest, TypeOK, Call

LEMMA OldestIsOne ==
    ASSUME TypeOK, NEW d \in Dispatchers, NEW r \in Receipts, NEW s \in Receipts, At(d, r), At(d, s)
    PROVE  r = s
BY DEF At

-----------------------------------------------------------------------------
(* The inductive invariant.                                                 *)

LEMMA InitIInv == Init => IInv
<1> SUFFICES ASSUME Init
             PROVE  IInv
  OBVIOUS
<1>1. TypeOK
  BY IdleCall DEF Init, TypeOK, Row
<1>2. Acknowledged
  BY IdleCall DEF Init, Acknowledged
<1>3. ToldIsSettled
  BY DEF Init, ToldIsSettled
<1>4. Noted
  BY IdleCall DEF Init, Noted, Reporting
<1>5. QED
  BY <1>1, <1>2, <1>3, <1>4 DEF IInv

(* A step that sends and tells nothing: no call gains an outcome, and the   *)
(* settled rows are those that were settled, and a row that is taken from a *)
(* run which is marking it is on record.                                    *)
LEMMA SilentStep ==
    ASSUME IInv, row' \in [Receipts -> Row], disp' \in [Dispatchers -> Call],
           accepted' \in [Receipts -> Nat],
           \A r \in Receipts : accepted'[r] >= accepted[r],
           \A r \in Receipts : (row'[r].status = "sent") <=> (row[r].status = "sent"),
           \A d \in Dispatchers : \/ disp'[d] = disp[d]
                                  \/ disp'[d].outcome = None /\ disp'[d].seen = None,
           lapsed \subseteq lapsed', lapsed' \in SUBSET Receipts,
           \A d \in Dispatchers : \A r \in Receipts :
             disp'[d] = disp[d] /\ Reporting(d, r) /\ Holds(d, r) => Holds(d, r)' \/ r \in lapsed',
           told' \in [Receipts -> {None, "sent", "queued", "unknown"}],
           \A r \in Receipts : told'[r] = "sent" => told[r] = "sent" \/ row[r].status = "sent"
    PROVE  IInv'
<1>1. TypeOK'
  BY DEF TypeOK
<1>2. ASSUME NEW d \in Dispatchers, NEW r \in Receipts, At(d, r)', disp'[d].outcome = "sent"
      PROVE  accepted'[r] > 0
  <2>1. disp'[d] = disp[d]
    BY <1>2
  <2>2. At(d, r)
    BY <1>2, <2>1 DEF At
  <2>3. accepted[r] > 0
    BY <1>2, <2>1, <2>2 DEF IInv, Acknowledged
  <2>4. QED
    BY <2>3 DEF IInv, TypeOK
<1>3. ASSUME NEW r \in Receipts, row'[r].status = "sent"
      PROVE  accepted'[r] > 0
  BY <1>3 DEF IInv, Acknowledged, TypeOK
<1>4. Acknowledged'
  BY <1>2, <1>3 DEF Acknowledged
<1>5. ToldIsSettled'
  BY <1>3 DEF IInv, ToldIsSettled, Acknowledged, TypeOK
<1>6. ASSUME NEW d \in Dispatchers, NEW r \in Receipts, Reporting(d, r)'
      PROVE  Holds(d, r)' \/ r \in lapsed'
  <2>1. disp'[d] = disp[d]
    BY <1>6 DEF Reporting
  <2>2. Reporting(d, r)
    BY <1>6, <2>1 DEF Reporting, At
  <2>3. QED
    BY <2>1, <2>2 DEF IInv, Noted
<1>7. \A d \in Dispatchers : disp'[d].seen # None => disp'[d].outcome # None
  BY DEF IInv, Noted
<1>8. Noted'
  BY <1>6, <1>7 DEF Noted
<1>9. QED
  BY <1>1, <1>4, <1>5, <1>8 DEF IInv

(* A claim that sweeps the table leaves the row of a call that is marking   *)
(* it alone, or the sweep is on record.                                     *)
LEMMA SweepIsNoted ==
    ASSUME lapsed' = lapsed \cup Lapsing, TypeOK, NEW d \in Dispatchers, NEW r \in Receipts,
           Reporting(d, r), Holds(d, r),
           row[r].status = "sending" /\ Swept(row[r]) = row[r] => row'[r] = row[r]
    PROVE  Holds(d, r)' \/ r \in lapsed'
<1>1. CASE Swept(row[r]) = row[r]
  BY <1>1 DEF Holds
<1>2. CASE Swept(row[r]) # row[r]
  BY <1>2 DEF Lapsing, Reporting
<1>3. QED
  BY <1>1, <1>2

LEMMA LapsingRows == Lapsing \in SUBSET Receipts
BY DEF Lapsing

LEMMA DrainKeeps == ASSUME IInv, NEW d \in Dispatchers, Drain(d) PROVE IInv'
<1>1. TypeOK /\ accepted' = accepted /\ told' = told /\ lapsed' = lapsed \cup Lapsing
  BY DEF IInv, Drain, Claimed
<1>2. PICK batch \in SUBSET Receipts :
        /\ disp' = [disp EXCEPT ![d] = [Idle EXCEPT !.batch = batch]]
        /\ row' \in [Receipts -> Row]
        /\ \A r \in Receipts : (row'[r].status = "sent") <=> (row[r].status = "sent")
        /\ \A r \in Receipts : row[r].status = "sending" /\ Swept(row[r]) = row[r] => row'[r] = row[r]
  BY <1>1, DrainClaims
<1>3. /\ [Idle EXCEPT !.batch = batch] \in Call
      /\ [Idle EXCEPT !.batch = batch].outcome = None /\ [Idle EXCEPT !.batch = batch].seen = None
  BY DEF Idle, Call
<1>4. /\ disp' \in [Dispatchers -> Call]
      /\ \A e \in Dispatchers : disp'[e] = disp[e] \/ (disp'[e].outcome = None /\ disp'[e].seen = None)
  BY <1>1, <1>2, <1>3, CallStep
<1>5. lapsed \subseteq lapsed' /\ lapsed' \in SUBSET Receipts
  BY <1>1, LapsingRows DEF TypeOK
<1>6. \A e \in Dispatchers : \A r \in Receipts :
        Reporting(e, r) /\ Holds(e, r) => Holds(e, r)' \/ r \in lapsed'
  BY <1>1, <1>2, SweepIsNoted
<1>7. QED
  BY <1>1, <1>2, <1>4, <1>5, <1>6, SilentStep DEF TypeOK

LEMMA DispatchKeeps ==
    ASSUME IInv, NEW d \in Dispatchers, NEW r \in Receipts, Dispatch(d, r) PROVE IInv'
<1>1. TypeOK /\ accepted' = accepted /\ lapsed' = lapsed \cup Lapsing
  BY DEF IInv, Dispatch
<1>2. /\ row' \in [Receipts -> Row]
      /\ \A s \in Receipts : (row'[s].status = "sent") <=> (row[s].status = "sent")
      /\ \A s \in Receipts : row[s].status = "sending" /\ Swept(row[s]) = row[s] => row'[s] = row[s]
      /\ \/ disp' = [disp EXCEPT ![d] = [Idle EXCEPT !.batch = {r}, !.for = r]] /\ told' = told
         \/ /\ disp' = disp
            /\ told' = [told EXCEPT ![r] = IF row[r].status = "sent" THEN "sent" ELSE "queued"]
  BY <1>1, DispatchClaims
<1>3. /\ [Idle EXCEPT !.batch = {r}, !.for = r] \in Call
      /\ [Idle EXCEPT !.batch = {r}, !.for = r].outcome = None
      /\ [Idle EXCEPT !.batch = {r}, !.for = r].seen = None
  BY DEF Idle, Call
<1>4. /\ disp' \in [Dispatchers -> Call]
      /\ \A e \in Dispatchers : disp'[e] = disp[e] \/ (disp'[e].outcome = None /\ disp'[e].seen = None)
  BY <1>1, <1>2, <1>3, CallStep DEF TypeOK
<1>5. /\ told' \in [Receipts -> {None, "sent", "queued", "unknown"}]
      /\ \A s \in Receipts : told'[s] = "sent" => told[s] = "sent" \/ row[s].status = "sent"
  BY <1>1, <1>2 DEF TypeOK
<1>6. lapsed \subseteq lapsed' /\ lapsed' \in SUBSET Receipts
  BY <1>1, LapsingRows DEF TypeOK
<1>7. \A e \in Dispatchers : \A s \in Receipts :
        Reporting(e, s) /\ Holds(e, s) => Holds(e, s)' \/ s \in lapsed'
  BY <1>1, <1>2, SweepIsNoted
<1>8. QED
  BY <1>1, <1>2, <1>4, <1>5, <1>6, <1>7, SilentStep DEF TypeOK

LEMMA EnqueueKeeps == ASSUME IInv, NEW r \in Receipts, Enqueue(r) PROVE IInv'
<1>1. TypeOK /\ UNCHANGED <<disp, accepted, told, lapsed>>
  BY DEF IInv, Enqueue
<1>2. [row[r] EXCEPT !.status = "pending"] \in Row /\ row'[r].status = "pending"
  BY <1>1 DEF TypeOK, Row, Enqueue
<1>3. /\ row' \in [Receipts -> Row]
      /\ \A s \in Receipts : (row'[s].status = "sent") <=> (row[s].status = "sent")
  BY <1>1, <1>2 DEF TypeOK, Enqueue
<1>4. \A e \in Dispatchers : \A s \in Receipts : Holds(e, s) => Holds(e, s)'
  BY <1>1, <1>2 DEF TypeOK, Enqueue, Holds
<1>5. QED
  BY <1>1, <1>3, <1>4, SilentStep DEF TypeOK

LEMMA TickKeeps == ASSUME IInv, Tick PROVE IInv'
<1>1. TypeOK /\ UNCHANGED <<disp, accepted, told, lapsed>>
  BY DEF IInv, Tick
<1>2. /\ row' \in [Receipts -> Row]
      /\ \A s \in Receipts : row'[s].status = row[s].status /\ row'[s].owner = row[s].owner
  BY <1>1, AgedRow DEF TypeOK, Tick
<1>3. QED
  BY <1>1, <1>2, SilentStep DEF TypeOK, Holds

(* A call that ends takes its own claims along and no other.                *)
LEMMA EndingKeeps ==
    ASSUME IInv, NEW d \in Dispatchers, row' = Disowned(row, d), disp' = [disp EXCEPT ![d] = Idle],
           lapsed' = lapsed, accepted' \in [Receipts -> Nat],
           \A r \in Receipts : accepted'[r] >= accepted[r],
           told' \in [Receipts -> {None, "sent", "queued", "unknown"}],
           \A r \in Receipts : told'[r] = "sent" => told[r] = "sent"
    PROVE  IInv'
<1>1. TypeOK
  BY DEF IInv
<1>2. /\ disp' \in [Dispatchers -> Call] /\ disp'[d].outcome = None /\ disp'[d].seen = None
      /\ \A e \in Dispatchers \ {d} : disp'[e] = disp[e]
  BY <1>1, CallStep, IdleCall
<1>3. /\ row' \in [Receipts -> Row]
      /\ \A r \in Receipts : row'[r].status = row[r].status
      /\ \A r \in Receipts : row[r].owner # d => row'[r] = row[r]
  BY <1>1, DisownedRows
<1>4. ASSUME NEW e \in Dispatchers, NEW r \in Receipts, disp'[e] = disp[e], Reporting(e, r), Holds(e, r)
      PROVE  Holds(e, r)'
  <2>1. e # d
    BY <1>2, <1>4 DEF Reporting
  <2>2. QED
    BY <1>3, <1>4, <2>1 DEF Holds
<1>5. \A e \in Dispatchers : disp'[e] = disp[e] \/ (disp'[e].outcome = None /\ disp'[e].seen = None)
  BY <1>2
<1>6. lapsed \subseteq lapsed' /\ lapsed' \in SUBSET Receipts
  BY <1>1 DEF TypeOK
<1> HIDE DEF Reporting, Holds
<1>7. QED
  BY <1>2, <1>3, <1>4, <1>5, <1>6, SilentStep

LEMMA CrashKeeps == ASSUME IInv, NEW d \in Dispatchers, Crash(d) PROVE IInv'
<1>1. /\ TypeOK /\ told' = told /\ lapsed' = lapsed
      /\ row' = Disowned(row, d) /\ disp' = [disp EXCEPT ![d] = Idle]
  BY DEF IInv, Crash
<1>2. PICK through :
        accepted' = [r \in Receipts |-> IF r \in through THEN accepted[r] + 1 ELSE accepted[r]]
  BY DEF Crash
<1>3. accepted' \in [Receipts -> Nat] /\ \A r \in Receipts : accepted'[r] >= accepted[r]
  BY <1>1, <1>2 DEF TypeOK
<1>4. QED
  BY <1>1, <1>3, EndingKeeps DEF TypeOK

LEMMA MarkLostKeeps ==
    ASSUME IInv, NEW d \in Dispatchers, NEW r \in Receipts, MarkLost(d, r) PROVE IInv'
<1>1. /\ TypeOK /\ accepted' = accepted /\ lapsed' = lapsed /\ row' = Disowned(row, d)
      /\ disp' = [disp EXCEPT ![d] = Idle]
      /\ told' = IF disp[d].for = r THEN [told EXCEPT ![r] = "unknown"] ELSE told
  BY DEF IInv, MarkLost
<1>2. /\ told' \in [Receipts -> {None, "sent", "queued", "unknown"}]
      /\ \A s \in Receipts : told'[s] = "sent" => told[s] = "sent"
  BY <1>1 DEF TypeOK
<1>3. accepted' \in [Receipts -> Nat] /\ \A s \in Receipts : accepted'[s] >= accepted[s]
  BY <1>1 DEF TypeOK
<1>4. QED
  BY <1>1, <1>2, <1>3, EndingKeeps

(* Sending is where an outcome is won: "sent" only if the channel took it.  *)
LEMMA SendKeeps ==
    ASSUME IInv, NEW d \in Dispatchers, NEW r \in Receipts, NEW success \in BOOLEAN,
           NEW reached \in BOOLEAN, Send(d, r, success, reached)
    PROVE  IInv'
<1>1. /\ TypeOK /\ row' = row /\ told' = told /\ lapsed' = lapsed
      /\ At(d, r) /\ (success => reached) /\ disp[d].seen = None
  BY DEF IInv, Send, Noted
<1>2. accepted' = [accepted EXCEPT ![r] = IF reached THEN @ + 1 ELSE @]
  BY DEF Send
<1>3. /\ accepted' \in [Receipts -> Nat]
      /\ \A s \in Receipts : accepted'[s] >= accepted[s]
      /\ reached => accepted'[r] > 0
  BY <1>1, <1>2 DEF TypeOK
<1> DEFINE x == [disp[d] EXCEPT !.outcome = IF success THEN "sent" ELSE "failed"]
<1>4. /\ x \in Call /\ x.batch = disp[d].batch /\ x.seen = None
      /\ x.outcome = IF success THEN "sent" ELSE "failed"
  BY <1>1 DEF TypeOK, Call
<1>5. disp' = [disp EXCEPT ![d] = x]
  BY DEF Send
<1> HIDE DEF x
<1>6. /\ disp' \in [Dispatchers -> Call] /\ disp'[d] = x
      /\ \A e \in Dispatchers \ {d} : disp'[e] = disp[e]
  BY <1>1, <1>4, <1>5, CallStep
<1>7. TypeOK'
  BY <1>1, <1>3, <1>6 DEF TypeOK
<1>8. ASSUME NEW e \in Dispatchers, NEW s \in Receipts, At(e, s)', disp'[e].outcome = "sent"
      PROVE  accepted'[s] > 0
  <2>1. CASE e = d
    <3>1. At(d, s)
      BY <1>4, <1>6, <1>8, <2>1 DEF At
    <3>2. s = r /\ success
      BY <1>1, <1>4, <1>6, <1>8, <2>1, <3>1, OldestIsOne
    <3>3. QED
      BY <1>1, <1>3, <3>2
  <2>2. CASE e # d
    <3>1. At(e, s) /\ disp[e].outcome = "sent"
      BY <1>6, <1>8, <2>2 DEF At
    <3>2. accepted[s] > 0
      BY <3>1 DEF IInv, Acknowledged
    <3>3. QED
      BY <1>1, <1>3, <3>2 DEF TypeOK
  <2>3. QED
    BY <2>1, <2>2
<1>9. \A s \in Receipts : accepted[s] > 0 => accepted'[s] > 0
  BY <1>1, <1>3 DEF TypeOK
<1>10. Acknowledged' /\ ToldIsSettled'
  BY <1>1, <1>8, <1>9 DEF IInv, Acknowledged, ToldIsSettled
<1>11. Noted'
  <2>1. \A e \in Dispatchers : disp'[e].seen # None => e # d
    BY <1>4, <1>6
  <2>2. \A e \in Dispatchers \ {d} : \A s \in Receipts : Reporting(e, s)' => Reporting(e, s)
    BY <1>6 DEF Reporting, At
  <2>3. \A e \in Dispatchers : \A s \in Receipts : Reporting(e, s)' => e # d
    BY <2>1 DEF Reporting
  <2>4. \A e \in Dispatchers : \A s \in Receipts : Holds(e, s)' <=> Holds(e, s)
    BY <1>1 DEF Holds
  <2>5. QED
    BY <1>1, <1>6, <2>1, <2>2, <2>3, <2>4 DEF IInv, Noted
<1>12. QED
  BY <1>7, <1>10, <1>11 DEF IInv

(* Reading the claim only shows that the call holds its row.                *)
LEMMA MarkReadKeeps ==
    ASSUME IInv, NEW d \in Dispatchers, NEW r \in Receipts, MarkRead(d, r) PROVE IInv'
<1>1. /\ TypeOK /\ UNCHANGED <<row, accepted, told, lapsed>>
      /\ At(d, r) /\ Holds(d, r) /\ disp[d].outcome # None
  BY DEF IInv, MarkRead
<1> DEFINE x == [disp[d] EXCEPT !.seen = row[r].attempt]
<1>2. /\ x \in Call /\ x.batch = disp[d].batch /\ x.outcome = disp[d].outcome
  BY <1>1 DEF TypeOK, Call, Row
<1>3. disp' = [disp EXCEPT ![d] = x]
  BY DEF MarkRead
<1> HIDE DEF x
<1>4. /\ disp' \in [Dispatchers -> Call] /\ disp'[d] = x
      /\ \A e \in Dispatchers \ {d} : disp'[e] = disp[e]
  BY <1>1, <1>2, <1>3, CallStep
<1>5. \A e \in Dispatchers : \A s \in Receipts : At(e, s)' <=> At(e, s)
  BY <1>2, <1>4 DEF At
<1>6. \A e \in Dispatchers : disp'[e].outcome = disp[e].outcome
  BY <1>2, <1>4
<1>7. TypeOK'
  BY <1>1, <1>4 DEF TypeOK
<1>8. Acknowledged' /\ ToldIsSettled'
  BY <1>1, <1>5, <1>6 DEF IInv, Acknowledged, ToldIsSettled
<1>9. ASSUME NEW e \in Dispatchers, NEW s \in Receipts, Reporting(e, s)'
      PROVE  Holds(e, s)' \/ s \in lapsed'
  <2>1. CASE e = d
    <3>1. s = r
      BY <1>1, <1>5, <1>9, <2>1, OldestIsOne DEF Reporting
    <3>2. QED
      BY <1>1, <2>1, <3>1 DEF Holds
  <2>2. CASE e # d
    <3>1. Reporting(e, s)
      BY <1>4, <1>9, <2>2 DEF Reporting, At
    <3>2. QED
      BY <1>1, <3>1 DEF IInv, Noted, Holds
  <2>3. QED
    BY <2>1, <2>2
<1>10. Noted'
  <2>1. \A e \in Dispatchers : disp'[e].seen # None => disp'[e].outcome # None
    BY <1>1, <1>4, <1>6 DEF IInv, Noted
  <2>2. QED
    BY <1>9, <2>1 DEF Noted
<1>11. QED
  BY <1>7, <1>8, <1>10 DEF IInv

(* The update: a row is settled by a call that holds it, and a run that is  *)
(* told "sent" by a call that no longer does was swept in between.          *)
LEMMA MarkKeeps ==
    ASSUME IInv, NEW d \in Dispatchers, NEW r \in Receipts, Mark(d, r) PROVE IInv'
<1>1. TypeOK /\ Noted /\ accepted' = accepted /\ lapsed' = lapsed /\ At(d, r) /\ disp[d].seen # None
  BY DEF IInv, Mark
<1>2. /\ row' \in [Receipts -> Row] /\ disp[d].outcome \in {"sent", "failed"}
      /\ Holds(d, r) => row[r].status = "sending" /\ row'[r].status = disp[d].outcome
      /\ ~ Holds(d, r) => row' = row
      /\ \A s \in Receipts \ {r} : row'[s] = row[s]
  <2>1. disp[d].outcome \in {"sent", "failed"}
    BY <1>1 DEF Noted, TypeOK, Call
  <2>2. CASE Holds(d, r)
    BY <1>1, <2>1, <2>2, MarkWrites
  <2>3. CASE ~ Holds(d, r)
    <3>1. row' = row
      BY <2>3 DEF Mark
    <3>2. QED
      BY <1>1, <2>1, <2>3, <3>1 DEF TypeOK
  <2>4. QED
    BY <2>2, <2>3
<1>3. Rest(d, r) \in Call /\ Rest(d, r).outcome = None /\ Rest(d, r).seen = None
  BY <1>1, RestCall
<1>4. disp' = [disp EXCEPT ![d] = Rest(d, r)]
  BY DEF Mark
<1>5. /\ disp' \in [Dispatchers -> Call] /\ disp'[d].outcome = None /\ disp'[d].seen = None
      /\ \A e \in Dispatchers \ {d} : disp'[e] = disp[e]
  BY <1>1, <1>3, <1>4, CallStep
<1>6. /\ told' \in [Receipts -> {None, "sent", "queued", "unknown"}]
      /\ \A s \in Receipts : told'[s] = "sent" => \/ told[s] = "sent"
                                                  \/ s = r /\ Reporting(d, r)
  BY <1>1 DEF Mark, TypeOK, Reporting
<1>7. TypeOK'
  BY <1>1, <1>2, <1>5, <1>6 DEF TypeOK
<1>8. ASSUME NEW e \in Dispatchers, NEW s \in Receipts, At(e, s)', disp'[e].outcome = "sent"
      PROVE  accepted'[s] > 0
  <2>1. e # d /\ disp'[e] = disp[e]
    BY <1>5, <1>8
  <2>2. At(e, s)
    BY <1>8, <2>1 DEF At
  <2>3. QED
    BY <1>1, <1>8, <2>1, <2>2 DEF IInv, Acknowledged
<1>9. ASSUME NEW s \in Receipts, row'[s].status = "sent"
      PROVE  accepted'[s] > 0
  BY <1>1, <1>2, <1>9 DEF IInv, Acknowledged
<1>10. ASSUME NEW s \in Receipts, told'[s] = "sent"
       PROVE  accepted'[s] > 0 /\ (row'[s].status = "sent" \/ s \in lapsed')
  <2>1. CASE told[s] = "sent"
    BY <1>1, <1>2, <2>1 DEF IInv, ToldIsSettled
  <2>2. CASE s = r /\ Reporting(d, r)
    <3>1. accepted[r] > 0 /\ disp[d].outcome = "sent"
      BY <1>1, <2>2 DEF IInv, Acknowledged, Reporting
    <3>2. Holds(d, r) \/ r \in lapsed
      BY <1>1, <2>2 DEF Noted
    <3>3. QED
      BY <1>1, <1>2, <2>2, <3>1, <3>2
  <2>3. QED
    BY <1>6, <1>10, <2>1, <2>2
<1>11. ASSUME NEW e \in Dispatchers, NEW s \in Receipts, Reporting(e, s)'
       PROVE  Holds(e, s)' \/ s \in lapsed'
  <2>1. e # d /\ disp'[e] = disp[e]
    BY <1>5, <1>11 DEF Reporting
  <2>2. Holds(e, s) \/ s \in lapsed
    BY <1>1, <1>11, <2>1 DEF Noted, Reporting, At
  <2>3. Holds(e, s) => row'[s] = row[s]
    BY <1>2, <2>1 DEF Holds
  <2>4. QED
    BY <1>1, <2>2, <2>3 DEF Holds
<1>12. Noted'
  <2>1. \A e \in Dispatchers : disp'[e].seen # None => disp'[e].outcome # None
    BY <1>1, <1>5 DEF Noted
  <2>2. QED
    BY <1>11, <2>1 DEF Noted
<1>13. Acknowledged' /\ ToldIsSettled'
  BY <1>8, <1>9, <1>10 DEF Acknowledged, ToldIsSettled
<1>14. QED
  BY <1>7, <1>12, <1>13 DEF IInv

LEMMA NextIInv == IInv /\ [Next]_vars => IInv'
<1> SUFFICES ASSUME IInv, [Next]_vars
             PROVE  IInv'
  OBVIOUS
<1>1. ASSUME NEW d \in Dispatchers, SendOf(d) PROVE IInv'
  BY <1>1, SendKeeps DEF SendOf
<1>2. ASSUME NEW d \in Dispatchers, Settle(d) PROVE IInv'
  BY <1>2, MarkReadKeeps, MarkKeeps, MarkLostKeeps DEF Settle
<1>3. ASSUME NEW d \in Dispatchers, Crash(d) PROVE IInv'
  BY <1>3, CrashKeeps
<1>4. ASSUME NEW d \in Drainers, Drain(d) PROVE IInv'
  BY <1>4, DrainKeeps DEF Dispatchers
<1>5. ASSUME NEW d \in Runners, NEW r \in Receipts, Dispatch(d, r) PROVE IInv'
  BY <1>5, DispatchKeeps DEF Dispatchers
<1>6. CASE UNCHANGED vars
  BY <1>6 DEF vars, IInv, TypeOK, Acknowledged, Noted, Reporting, Holds, ToldIsSettled, At
<1>7. QED
  BY <1>1, <1>2, <1>3, <1>4, <1>5, <1>6, EnqueueKeeps, TickKeeps DEF Next

LEMMA Inductive == Spec => []IInv
BY InitIInv, NextIInv, PTL DEF Spec

(* A run that reads "sent": the channel has taken its message, and the row  *)
(* says so for good, whichever dispatchers raced and whichever leases ran   *)
(* out, but for one window of the code: a sweep between the read and the    *)
(* update of the run's own mark.                                            *)
THEOREM SentIsTrue == Spec => []ToldIsSettled
<1>1. IInv => ToldIsSettled
  BY DEF IInv
<1>2. QED
  BY <1>1, Inductive, PTL

-----------------------------------------------------------------------------
(* The outbox implements ReceiptDelivery: every step is one of its steps,   *)
(* or changes nothing it sees.                                              *)

Stutters ==
    /\ [r \in Receipts |-> Delivery(row[r])]' = [r \in Receipts |-> Delivery(row[r])]
    /\ [r \in Receipts |-> Charged(r)]' = [r \in Receipts |-> Charged(r)]
    /\ accepted' = accepted

LEMMA Quiet ==
    ASSUME \A r \in Receipts : Delivery(row'[r]) = Delivery(row[r]) /\ Charged(r)' = Charged(r),
           accepted' = accepted
    PROVE  Stutters
BY DEF Stutters

(* A row that is neither new nor settled is owed.                           *)
LEMMA DeliveryOf ==
    ASSUME NEW x \in Row, NEW y \in Row,
           (y.status = "sent") <=> (x.status = "sent"), (y.status = "absent") <=> (x.status = "absent")
    PROVE  Delivery(y) = Delivery(x)
BY DEF Delivery, Row

LEMMA Owed ==
    ASSUME NEW x \in Row, x.status \notin {"absent", "sent"}
    PROVE  Delivery(x) = "owed"
BY DEF Delivery

(* Who may transmit a receipt changes with the call that changes.           *)
LEMMA OneCall ==
    ASSUME NEW d \in Dispatchers, \A e \in Dispatchers \ {d} : disp'[e] = disp[e], NEW r \in Receipts
    PROVE  /\ d \in Charged(r) <=> r \in Unsent(d)
           /\ (r \in Unsent(d)' <=> r \in Unsent(d)) => Charged(r)' = Charged(r)
           /\ r \in Unsent(d)' => Charged(r)' = Charged(r) \cup {d}
           /\ r \notin Unsent(d)' => Charged(r)' = Charged(r) \ {d}
<1>1. \A e \in Dispatchers \ {d} : Unsent(e)' = Unsent(e)
  BY DEF Unsent, At
<1>2. /\ \A e : e \in Charged(r) <=> e \in Dispatchers /\ r \in Unsent(e)
      /\ \A e : e \in Charged(r)' <=> e \in Dispatchers /\ r \in Unsent(e)'
  BY DEF Charged
<1> HIDE DEF Unsent, Charged
<1>3. QED
  BY <1>1, <1>2

LEMMA IdleIsFree ==
    ASSUME NEW d \in Dispatchers, disp[d] = Idle
    PROVE  Unsent(d) = {}
BY IdleCall DEF Unsent

LEMMA UnsentBatch ==
    ASSUME NEW d \in Dispatchers, disp[d].outcome = None
    PROVE  Unsent(d) = disp[d].batch
BY DEF Unsent

(* A call that takes a batch is charged with what it takes.                 *)
LEMMA TakingCharges ==
    ASSUME TypeOK, NEW d \in Dispatchers, NEW batch \in SUBSET Receipts, NEW x \in Call,
           disp[d] = Idle, disp' = [disp EXCEPT ![d] = x], x.batch = batch, x.outcome = None,
           row' \in [Receipts -> Row],
           \A r \in Receipts : /\ (row'[r].status = "sent") <=> (row[r].status = "sent")
                               /\ (row'[r].status = "absent") <=> (row[r].status = "absent"),
           \A r \in batch : row[r].status \notin {"absent", "sent"},
           accepted' = accepted
    PROVE  Promise!Charge(d, batch)
<1>1. disp'[d] = x /\ \A e \in Dispatchers \ {d} : disp'[e] = disp[e]
  BY CallStep
<1>2. Unsent(d) = {} /\ Unsent(d)' = batch
  BY <1>1, IdleIsFree DEF Unsent
<1>3. \A r \in Receipts : Charged(r)' = IF r \in batch THEN Charged(r) \cup {d} ELSE Charged(r)
  BY <1>1, <1>2, OneCall
<1>4. \A r \in Receipts : Delivery(row'[r]) = Delivery(row[r])
  BY DeliveryOf DEF TypeOK
<1>5. \A r \in batch : Delivery(row[r]) = "owed" /\ d \notin Charged(r)
  BY <1>2, Owed DEF TypeOK, Charged
<1>6. QED
  BY <1>3, <1>4, <1>5 DEF Promise!Charge

(* A call that ends, or has sent the row in hand, is charged with it no more. *)
LEMMA LeavingReleases ==
    ASSUME TypeOK, NEW d \in Dispatchers, NEW batch \in SUBSET Unsent(d),
           NEW through \in SUBSET batch, \A r, s \in through : r = s,
           \A e \in Dispatchers \ {d} : disp'[e] = disp[e],
           Unsent(d)' = Unsent(d) \ batch,
           row' \in [Receipts -> Row],
           \A r \in Receipts : row'[r].status = row[r].status,
           accepted' = [r \in Receipts |-> IF r \in through THEN accepted[r] + 1 ELSE accepted[r]]
    PROVE  Promise!Release(d, batch, through)
<1>1. \A r \in Receipts : Charged(r)' = IF r \in batch THEN Charged(r) \ {d} ELSE Charged(r)
  BY OneCall
<1>2. \A r \in Receipts : Delivery(row'[r]) = Delivery(row[r])
  BY DeliveryOf DEF TypeOK
<1>3. \A r \in batch : r \in Receipts /\ d \in Charged(r)
  BY DEF Charged, Unsent, TypeOK, Call
<1>4. QED
  BY <1>1, <1>2, <1>3 DEF Promise!Release

LEMMA DrainCharges ==
    ASSUME TypeOK, NEW d \in Dispatchers, Drain(d)
    PROVE  \E batch \in SUBSET Receipts : Promise!Charge(d, batch)
<1>1. PICK batch \in SUBSET Receipts :
        /\ disp[d] = Idle
        /\ disp' = [disp EXCEPT ![d] = [Idle EXCEPT !.batch = batch]]
        /\ row' \in [Receipts -> Row]
        /\ \A r \in Receipts : /\ (row'[r].status = "sent") <=> (row[r].status = "sent")
                               /\ (row'[r].status = "absent") <=> (row[r].status = "absent")
        /\ \A r \in batch : row[r].status \notin {"absent", "sent"}
  BY DrainClaims
<1> DEFINE x == [Idle EXCEPT !.batch = batch]
<1>2. x \in Call /\ x.batch = batch /\ x.outcome = None
  BY DEF Idle, Call
<1>3. accepted' = accepted
  BY DEF Drain
<1> HIDE DEF x
<1>4. disp' = [disp EXCEPT ![d] = x]
  BY <1>1 DEF x
<1>5. Promise!Charge(d, batch)
  BY <1>1, <1>2, <1>3, <1>4, TakingCharges
<1>6. QED
  BY <1>5

LEMMA DispatchCharges ==
    ASSUME TypeOK, NEW d \in Dispatchers, NEW r \in Receipts, Dispatch(d, r)
    PROVE  Promise!Charge(d, {r}) \/ Stutters
<1>1. /\ disp[d] = Idle /\ accepted' = accepted
      /\ row' \in [Receipts -> Row]
      /\ \A s \in Receipts : /\ (row'[s].status = "sent") <=> (row[s].status = "sent")
                             /\ (row'[s].status = "absent") <=> (row[s].status = "absent")
  BY DispatchClaims DEF Dispatch
<1>2. CASE /\ disp' = [disp EXCEPT ![d] = [Idle EXCEPT !.batch = {r}, !.for = r]]
           /\ row[r].status \notin {"absent", "sent"}
  <2> DEFINE x == [Idle EXCEPT !.batch = {r}, !.for = r]
  <2>1. x \in Call /\ x.batch = {r} /\ x.outcome = None
    BY DEF Idle, Call
  <2> HIDE DEF x
  <2>2. disp' = [disp EXCEPT ![d] = x] /\ {r} \in SUBSET Receipts
    BY <1>2 DEF x
  <2>3. \A s \in {r} : row[s].status \notin {"absent", "sent"}
    BY <1>2
  <2>4. QED
    BY <1>1, <2>1, <2>2, <2>3, TakingCharges
<1>3. CASE disp' = disp
  <2>1. \A s \in Receipts : Charged(s)' = Charged(s)
    BY <1>3 DEF Charged, Unsent, At
  <2>2. \A s \in Receipts : Delivery(row'[s]) = Delivery(row[s])
    BY <1>1, DeliveryOf DEF TypeOK
  <2>3. QED
    BY <1>1, <2>1, <2>2, Quiet
<1>4. QED
  BY <1>2, <1>3, DispatchClaims

LEMMA EnqueueQueues == ASSUME TypeOK, NEW r \in Receipts, Enqueue(r) PROVE Promise!Queue(r)
<1>1. /\ row[r].status = "absent" /\ row'[r].status = "pending"
      /\ \A s \in Receipts \ {r} : row'[s] = row[s]
  BY DEF Enqueue, TypeOK, Row
<1>2. \A s \in Receipts : Charged(s)' = Charged(s)
  BY DEF Enqueue, Charged, Unsent, At
<1>3. QED
  BY <1>1, <1>2 DEF Enqueue, Promise!Queue, Delivery

LEMMA SendReleases ==
    ASSUME TypeOK, NEW d \in Dispatchers, NEW r \in Receipts,
           \E success, reached \in BOOLEAN : Send(d, r, success, reached)
    PROVE  \E through \in SUBSET {r} : Promise!Release(d, {r}, through)
<1>0. PICK success \in BOOLEAN, reached \in BOOLEAN : Send(d, r, success, reached)
  OBVIOUS
<1> DEFINE through == IF reached THEN {r} ELSE {}
<1>1. /\ At(d, r) /\ disp[d].outcome = None /\ row' = row
      /\ accepted' = [s \in Receipts |-> IF s \in through THEN accepted[s] + 1 ELSE accepted[s]]
  BY <1>0 DEF Send, TypeOK
<1>2. /\ disp'[d].batch = disp[d].batch /\ disp'[d].outcome # None
      /\ \A e \in Dispatchers \ {d} : disp'[e] = disp[e]
  BY <1>0 DEF Send, TypeOK, Call
<1>3. Unsent(d) = disp[d].batch /\ {r} \in SUBSET Unsent(d)
  BY <1>1, UnsentBatch DEF At
<1>4. Unsent(d)' = Unsent(d) \ {r}
  <2>1. \A s \in disp[d].batch : s \in Receipts /\ (At(d, s) => s = r)
    BY <1>1, OldestIsOne DEF TypeOK, Call
  <2>2. \A s \in disp[d].batch : At(d, s)' <=> s = r
    BY <1>1, <1>2, <2>1 DEF At
  <2>3. QED
    BY <1>2, <1>3, <2>2 DEF Unsent
<1>5. through \in SUBSET {r} /\ \A s, t \in through : s = t
  OBVIOUS
<1> HIDE DEF through
<1>6. Promise!Release(d, {r}, through)
  BY <1>1, <1>2, <1>3, <1>4, <1>5, LeavingReleases DEF TypeOK
<1>7. QED
  BY <1>5, <1>6

LEMMA MarkLostReleases ==
    ASSUME TypeOK, NEW d \in Dispatchers, NEW r \in Receipts, MarkLost(d, r)
    PROVE  Promise!Release(d, Unsent(d), {})
<1>1. /\ row' = Disowned(row, d) /\ disp' = [disp EXCEPT ![d] = Idle]
      /\ accepted' = [s \in Receipts |-> IF s \in {} THEN accepted[s] + 1 ELSE accepted[s]]
  BY DEF MarkLost, TypeOK
<1>2. disp'[d] = Idle /\ \A e \in Dispatchers \ {d} : disp'[e] = disp[e]
  BY <1>1, CallStep, IdleCall
<1>3. Unsent(d)' = Unsent(d) \ Unsent(d)
  BY <1>2, IdleCall DEF Unsent
<1>4. QED
  BY <1>1, <1>2, <1>3, DisownedRows, LeavingReleases

LEMMA CrashReleases ==
    ASSUME TypeOK, NEW d \in Dispatchers, Crash(d)
    PROVE  \E through \in SUBSET Unsent(d) : Promise!Release(d, Unsent(d), through)
<1>1. row' = Disowned(row, d) /\ disp' = [disp EXCEPT ![d] = Idle]
  BY DEF Crash
<1>2. PICK through \in {{}} \cup {{r} : r \in {r \in disp[d].batch : At(d, r) /\ disp[d].outcome = None /\ accepted[r] < MaxAccepted}} :
        accepted' = [r \in Receipts |-> IF r \in through THEN accepted[r] + 1 ELSE accepted[r]]
  BY DEF Crash
<1>3. through \in SUBSET Unsent(d) /\ \A r, s \in through : r = s
  BY DEF Unsent
<1>4. disp'[d] = Idle /\ \A e \in Dispatchers \ {d} : disp'[e] = disp[e]
  BY <1>1, CallStep, IdleCall
<1>5. Unsent(d)' = Unsent(d) \ Unsent(d)
  BY <1>4, IdleCall DEF Unsent
<1>6. Promise!Release(d, Unsent(d), through)
  BY <1>1, <1>2, <1>3, <1>4, <1>5, DisownedRows, LeavingReleases
<1>7. QED
  BY <1>3, <1>6

(* Reading the claim releases nothing: the row in hand is sent already.     *)
LEMMA MarkReadStutters ==
    ASSUME TypeOK, NEW d \in Dispatchers, NEW r \in Receipts, MarkRead(d, r)
    PROVE  Stutters
<1>1. /\ row' = row /\ accepted' = accepted
      /\ \A e \in Dispatchers : disp'[e].batch = disp[e].batch /\ disp'[e].outcome = disp[e].outcome
  BY DEF MarkRead, TypeOK, Call
<1>2. \A s \in Receipts : Charged(s)' = Charged(s)
  BY <1>1 DEF Charged, Unsent, At
<1>3. QED
  BY <1>1, <1>2, Quiet

(* An outcome is written for a row that is sent no more by this call: it    *)
(* settles the receipt, which was accepted, or leaves it owed.              *)
LEMMA MarkSettles ==
    ASSUME TypeOK, Acknowledged, Noted, NEW d \in Dispatchers, NEW r \in Receipts, Mark(d, r)
    PROVE  Promise!Settle(r) \/ Stutters
<1>1. At(d, r) /\ accepted' = accepted /\ disp' = [disp EXCEPT ![d] = Rest(d, r)] /\ disp[d].outcome # None
  BY DEF Mark, Noted
<1>2. /\ disp'[d].batch = disp[d].batch \ {r} /\ disp'[d].outcome = None
      /\ \A e \in Dispatchers \ {d} : disp'[e] = disp[e]
  <2>1. /\ Rest(d, r) \in Call /\ Rest(d, r).batch = disp[d].batch \ {r}
        /\ Rest(d, r).outcome = None
    BY RestCall
  <2>2. disp'[d] = Rest(d, r) /\ \A e \in Dispatchers \ {d} : disp'[e] = disp[e]
    BY <1>1, <2>1, CallStep
  <2>3. QED
    BY <2>1, <2>2
<1>3. Unsent(d)' = Unsent(d)
  <2>1. Unsent(d)' = disp[d].batch \ {r}
    BY <1>2 DEF Unsent
  <2>2. \A s \in disp[d].batch : At(d, s) <=> s = r
    BY <1>1, OldestIsOne DEF TypeOK, Call
  <2>3. QED
    BY <1>1, <2>1, <2>2 DEF Unsent
<1>4. \A s \in Receipts : Charged(s)' = Charged(s)
  <2>1. \A s \in Receipts : s \in Unsent(d)' <=> s \in Unsent(d)
    BY <1>3
  <2>2. \A e \in Dispatchers \ {d} : disp'[e] = disp[e]
    BY <1>2
  <2> HIDE DEF Unsent, Charged
  <2>3. QED
    BY <2>1, <2>2, OneCall
<1>5. CASE ~ Holds(d, r)
  <2>1. row' = row
    BY <1>5 DEF Mark
  <2>2. QED
    BY <1>1, <1>4, <2>1, Quiet
<1>6. CASE Holds(d, r)
  <2>1. /\ row' \in [Receipts -> Row] /\ row[r].status = "sending"
        /\ disp[d].outcome \in {"sent", "failed"} /\ row'[r].status = disp[d].outcome
        /\ \A s \in Receipts \ {r} : row'[s] = row[s]
    BY <1>6, MarkWrites
  <2>2. CASE disp[d].outcome = "sent"
    <3>1. accepted[r] > 0
      BY <1>1, <2>2 DEF Acknowledged
    <3>2. QED
      BY <1>1, <1>4, <2>1, <2>2, <3>1 DEF Promise!Settle, Delivery
  <2>3. CASE disp[d].outcome = "failed"
    <3>1. \A s \in Receipts : Delivery(row'[s]) = Delivery(row[s])
      BY <2>1, <2>3 DEF Delivery
    <3>2. QED
      BY <1>1, <1>4, <3>1, Quiet
  <2>4. QED
    BY <2>1, <2>2, <2>3
<1>7. QED
  BY <1>5, <1>6

LEMMA TickStutters == ASSUME TypeOK, Tick PROVE Stutters
<1>1. \A r \in Receipts : Delivery(row'[r]) = Delivery(row[r])
  BY AgedRow DEF Tick, TypeOK, Delivery
<1>2. \A r \in Receipts : Charged(r)' = Charged(r)
  BY DEF Tick, Charged, Unsent, At
<1>3. QED
  BY <1>1, <1>2, Quiet DEF Tick

LEMMA EveryStep == IInv /\ [Next]_vars => Promise!Next \/ Stutters
<1> SUFFICES ASSUME IInv, [Next]_vars, ~ Stutters
             PROVE  Promise!Next
  OBVIOUS
<1>0. TypeOK /\ Acknowledged /\ Noted
  BY DEF IInv
<1>1. ASSUME NEW r \in Receipts, Enqueue(r)
      PROVE  Promise!Next
  BY <1>0, <1>1, EnqueueQueues DEF Promise!Next
<1>2. ASSUME NEW d \in Dispatchers, NEW batch \in SUBSET Receipts, NEW through \in SUBSET batch,
             Promise!Charge(d, batch) \/ Promise!Release(d, batch, through)
      PROVE  Promise!Next
  BY <1>2 DEF Promise!Next
<1>3. ASSUME NEW d \in Dispatchers, SendOf(d)
      PROVE  Promise!Next
  <2>1. PICK r \in Receipts : \E success, reached \in BOOLEAN : Send(d, r, success, reached)
    BY <1>3 DEF SendOf
  <2>2. PICK through \in SUBSET {r} : Promise!Release(d, {r}, through)
    BY <1>0, <2>1, SendReleases
  <2>3. {r} \in SUBSET Receipts
    OBVIOUS
  <2>4. QED
    BY <1>2, <2>2, <2>3
<1>4. \A d \in Dispatchers : Unsent(d) \in SUBSET Receipts
  BY <1>0 DEF Unsent, TypeOK, Call
<1>5. ASSUME NEW d \in Dispatchers, Settle(d)
      PROVE  Promise!Next
  <2>1. PICK r \in Receipts : MarkRead(d, r) \/ Mark(d, r) \/ MarkLost(d, r)
    BY <1>5 DEF Settle
  <2>2. CASE Mark(d, r)
    BY <1>0, <2>2, MarkSettles DEF Promise!Next
  <2>3. CASE MarkLost(d, r)
    <3>1. Promise!Release(d, Unsent(d), {}) /\ {} \in SUBSET Unsent(d)
      BY <1>0, <2>3, MarkLostReleases
    <3>2. QED
      BY <1>2, <1>4, <3>1
  <2>4. CASE MarkRead(d, r)
    BY <1>0, <2>4, MarkReadStutters
  <2>5. QED
    BY <2>1, <2>2, <2>3, <2>4
<1>6. ASSUME NEW d \in Dispatchers, Crash(d)
      PROVE  Promise!Next
  BY <1>0, <1>2, <1>4, <1>6, CrashReleases
<1>7. ASSUME NEW d \in Drainers, Drain(d)
      PROVE  Promise!Next
  <2>1. d \in Dispatchers
    BY DEF Dispatchers
  <2>2. QED
    BY <1>0, <1>2, <1>7, <2>1, DrainCharges
<1>8. ASSUME NEW d \in Runners, NEW r \in Receipts, Dispatch(d, r)
      PROVE  Promise!Next
  <2>1. d \in Dispatchers /\ {r} \in SUBSET Receipts
    BY DEF Dispatchers
  <2>2. QED
    BY <1>0, <1>2, <1>8, <2>1, DispatchCharges
<1>9. CASE Tick
  BY <1>0, <1>9, TickStutters
<1>10. CASE UNCHANGED vars
  BY <1>10, Quiet DEF vars, Charged, Unsent, At
<1>11. QED
  BY <1>1, <1>3, <1>5, <1>6, <1>7, <1>8, <1>9, <1>10 DEF Next

LEMMA InitDelivery == Init => Promise!Init
<1> SUFFICES ASSUME Init
             PROVE  Promise!Init
  OBVIOUS
<1>1. \A r \in Receipts : Delivery(row[r]) = "none" /\ Charged(r) = {}
  BY IdleCall DEF Init, Delivery, Charged, Unsent
<1>2. QED
  BY <1>1 DEF Promise!Init, Init

(* The outbox implements what ReceiptDelivery promises without an operator, *)
(* for any number of runs, drains and receipts: a lease that runs out under *)
(* a slow call may send a receipt twice, but never settles one that the     *)
(* channel has not accepted, and no call takes up a settled one.            *)
THEOREM Implements == Spec => Delivers
<1>1. IInv /\ [Next]_vars => [Promise!Next]_Promise!vars
  BY EveryStep DEF Stutters, Promise!vars
<1>2. QED
  BY <1>1, InitDelivery, Inductive, PTL DEF Spec, Delivers, Promise!Spec
=============================================================================

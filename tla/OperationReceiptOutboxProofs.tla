-------------------- MODULE OperationReceiptOutboxProofs --------------------
(***************************************************************************)
(* Safety of the operation receipt outbox for any number of receipts,      *)
(* dispatchers, retries and crashes.  The argument: a claim id belongs to  *)
(* one dispatcher (Ownership), and every transmission that may have        *)
(* reached the channel is paid for by the receipt's first send or by a     *)
(* "retry" of the operator (Paid).                                         *)
(***************************************************************************)
EXTENDS OperationReceiptOutbox, FiniteSetTheorems, TLAPS

Ownership ==
    /\ \A d \in Dispatchers : disp[d].stage = "idle" <=> disp[d].claim = None
    /\ \A d, e \in Dispatchers :
         d # e /\ disp[d].claim # None => disp[d].claim # disp[e].claim
    /\ \A r \in Receipts : row[r].status \in {"claimed", "sending"} => row[r].claim # None
    /\ \A d \in Dispatchers, r \in Receipts :
         Holds(d, r, "sending") => disp[d].stage \in {"send", "mark"} /\ disp[d].at = r

(* A row that may be sent again: it is queued, or its claimant is about to  *)
(* record a definite failure.                                               *)
Reopens(d, r) == Holds(d, r, "sending") /\ disp[d].stage = "mark" /\ disp[d].outcome = "failed"

Open(r) ==
    \/ row[r].status \in {"absent", "pending", "failed", "claimed"}
    \/ \E d \in Dispatchers : Reopens(d, r)

Paid ==
    \A r \in Receipts :
        accepted[r] + Cardinality(InFlight(r)) <= retries[r] + (IF Open(r) THEN 0 ELSE 1)

IInv == TypeOK /\ Ownership /\ Paid

-----------------------------------------------------------------------------
USE FiniteAssumption, NoneAssumption, TimeAssumption

LEMMA ExpireType ==
    ASSUME NEW x \in Row
    PROVE  /\ Expire(x) \in Row
           /\ Expire(x).status \in {x.status, "failed", "unknown"}
           /\ x.status # "claimed" => Expire(x).status # "failed" \/ x.status = "failed"
           /\ x.status # "sending" => Expire(x).status # "unknown" \/ x.status = "unknown"
           /\ Expire(x).status \in {"claimed", "sending"} => Expire(x) = x
BY DEF Expire, ReturnLost, MakeUnknown, Row, Status

LEMMA MarkRowType ==
    ASSUME NEW x \in Row, NEW outcome \in Outcome
    PROVE  /\ MarkRow(x, outcome) \in Row
           /\ MarkRow(x, outcome).status = outcome
BY DEF MarkRow, NextAttempt, Row, Status, Outcome, Steps

LEMMA AgedType ==
    ASSUME NEW x \in Row
    PROVE  /\ Aged(x) \in Row
           /\ Aged(x).status = x.status
           /\ Aged(x).claim = x.claim
<1> DEFINE age == IF x.status \in {"claimed", "sending"} /\ x.age < Lease THEN x.age + 1 ELSE x.age
           due == IF x.status \in {"pending", "failed"} /\ x.due > 0 THEN x.due - 1 ELSE x.due
<1>1. age \in 0 .. Lease /\ due \in Nat
  BY DEF Row
<1>2. Aged(x) = [x EXCEPT !.age = age, !.due = due]
  BY DEF Aged
<1> HIDE DEF age, due
<1>3. QED
  BY <1>1, <1>2 DEF Row

(* The record updates of the actions stay in the types of their records.    *)
LEMMA RowUpdates ==
    ASSUME NEW x \in Row
    PROVE  /\ \A c \in ClaimIds :
                [x EXCEPT !.status = "claimed", !.claim = c, !.age = 0] \in Row
           /\ [x EXCEPT !.status = "sending", !.age = 0] \in Row
           /\ [x EXCEPT !.status = "failed", !.due = 0] \in Row
           /\ [x EXCEPT !.status = "sent", !.due = 0] \in Row
<1>1. 0 \in 0 .. Lease
  OBVIOUS
<1>2. QED
  BY <1>1 DEF Row, Status

LEMMA DispatcherUpdates ==
    ASSUME NEW x \in Dispatcher
    PROVE  /\ \A r \in Receipts : [x EXCEPT !.stage = "send", !.at = r] \in Dispatcher
           /\ \A outcome \in Outcome :
                [x EXCEPT !.stage = "mark", !.outcome = outcome] \in Dispatcher
           /\ \A r \in Receipts : [x EXCEPT !.batch = @ \ {r}] \in Dispatcher
BY DEF Dispatcher

LEMMA ResumeType ==
    ASSUME NEW x \in Dispatcher
    PROVE  /\ Resume(x) \in Dispatcher
           /\ Resume(x).stage \in {"idle", "batch"}
           /\ Resume(x).stage = "idle" => Resume(x).claim = None
           /\ Resume(x).stage = "batch" => Resume(x).claim = x.claim
BY DEF Resume, Idle, Dispatcher, Outcome

(* What a claim does to the table, in one place: every row keeps its shape, *)
(* only rows that were queued or lost their claim are claimed, and a row    *)
(* that is sending afterwards was sending before, under the same claim.     *)
LEMMA ClaimRows ==
    ASSUME TypeOK, NEW d \in Dispatchers, NEW c \in ClaimIds,
           NEW keys \in SUBSET Receipts, Claim(d, c, keys), NEW r \in Receipts
    PROVE  /\ row'[r] \in Row
           /\ row'[r].status = "sending" => row'[r] = row[r]
           /\ row'[r].status = "claimed" => row'[r] = row[r] \/ row'[r].claim = c
           /\ row'[r].status \in {"absent", "pending", "failed", "claimed"}
                => row[r].status \in {"absent", "pending", "failed", "claimed"}
           /\ row'[r].status = "sent" => row[r].status = "sent"
           /\ row[r].status = "sending" => row'[r].status \in {"sending", "unknown"}
<1>1. row[r] \in Row
  BY DEF TypeOK
<1> DEFINE swept == [s \in Receipts |-> Expire(row[s])]
           due   == {s \in keys : IsDue(swept[s])}
<1>2. PICK batch \in SUBSET due :
        row' = [s \in Receipts |->
                  IF s \in batch
                  THEN [swept[s] EXCEPT !.status = "claimed", !.claim = c, !.age = 0]
                  ELSE swept[s]]
  BY Zenon DEF Claim
<1>3. CASE r \in batch
  <2>1. Expire(row[r]).status \in {"pending", "failed"}
    BY <1>3 DEF IsDue
  <2>2. row'[r] = [Expire(row[r]) EXCEPT !.status = "claimed", !.claim = c, !.age = 0]
    BY <1>2, <1>3
  <2>3. Expire(row[r]) \in Row
    BY <1>1, ExpireType
  <2>4. row'[r] \in Row /\ row'[r].status = "claimed" /\ row'[r].claim = c
    BY <2>2, <2>3, RowUpdates DEF Row
  <2>5. row[r].status \in {"pending", "failed", "claimed"}
    BY <1>1, <2>1, ExpireType DEF Row, Status
  <2>6. QED
    BY <2>4, <2>5
<1>4. CASE r \notin batch
  <2>1. row'[r] = Expire(row[r])
    BY <1>2, <1>4
  <2>2. QED
    BY <1>1, <2>1, ExpireType DEF Row, Status
<1>5. QED
  BY <1>3, <1>4

(* How a claim moves the statuses: rows that are due are claimed, rows      *)
(* whose lease is over leave "claimed" and "sending".                       *)
LEMMA ClaimStatus ==
    ASSUME TypeOK, NEW d \in Dispatchers, NEW c \in ClaimIds,
           NEW keys \in SUBSET Receipts, Claim(d, c, keys), NEW r \in Receipts
    PROVE  \/ row'[r].status = row[r].status
           \/ row[r].status \in {"pending", "failed", "claimed"} /\ row'[r].status \in {"failed", "claimed"}
           \/ row[r].status = "sending" /\ row'[r].status = "unknown"
<1>1. row[r] \in Row
  BY DEF TypeOK
<1> DEFINE swept == [s \in Receipts |-> Expire(row[s])]
           due   == {s \in keys : IsDue(swept[s])}
<1>2. PICK batch \in SUBSET due :
        row' = [s \in Receipts |->
                  IF s \in batch
                  THEN [swept[s] EXCEPT !.status = "claimed", !.claim = c, !.age = 0]
                  ELSE swept[s]]
  BY Zenon DEF Claim
<1>3. \/ Expire(row[r]).status = row[r].status
      \/ row[r].status = "claimed" /\ Expire(row[r]).status = "failed"
      \/ row[r].status = "sending" /\ Expire(row[r]).status = "unknown"
  BY <1>1 DEF Expire, ReturnLost, MakeUnknown, Row
<1>4. CASE r \in batch
  <2>1. Expire(row[r]).status \in {"pending", "failed"}
    BY <1>4 DEF IsDue
  <2>2. row'[r] = [Expire(row[r]) EXCEPT !.status = "claimed", !.claim = c, !.age = 0]
    BY <1>2, <1>4
  <2>3. Expire(row[r]) \in Row
    BY <1>1, ExpireType
  <2>4. row'[r].status = "claimed"
    BY <2>2, <2>3 DEF Row
  <2>5. QED
    BY <1>3, <2>1, <2>4
<1>5. CASE r \notin batch
  BY <1>2, <1>3, <1>5
<1>6. QED
  BY <1>4, <1>5

LEMMA ClaimDisp ==
    ASSUME TypeOK, NEW d \in Dispatchers, NEW c \in ClaimIds,
           NEW keys \in SUBSET Receipts, Claim(d, c, keys)
    PROVE  /\ disp' \in [Dispatchers -> Dispatcher]
           /\ disp'[d].stage \in {"idle", "batch"}
           /\ disp'[d].stage = "idle" => disp'[d].claim = None
           /\ disp'[d].stage = "batch" => disp'[d].claim = c
           /\ \A e \in Dispatchers \ {d} : disp'[e] = disp[e]
<1>1. PICK batch \in SUBSET Receipts :
        disp' = [disp EXCEPT ![d] = Resume([Idle EXCEPT !.claim = c, !.batch = batch])]
  BY DEF Claim
<1> DEFINE x == [Idle EXCEPT !.claim = c, !.batch = batch]
<1>2. x \in Dispatcher /\ x.claim = c
  BY DEF Idle, Dispatcher
<1> HIDE DEF x
<1>3. disp' = [disp EXCEPT ![d] = Resume(x)] /\ disp \in [Dispatchers -> Dispatcher]
  BY <1>1 DEF x, TypeOK
<1>4. QED
  BY <1>2, <1>3, ResumeType
-----------------------------------------------------------------------------
LEMMA InitTypeOK == Init => TypeOK
BY DEF Init, TypeOK, Row, Status, Idle, Dispatcher

LEMMA NextTypeOK == TypeOK /\ [Next]_vars => TypeOK'
<1> SUFFICES ASSUME TypeOK, [Next]_vars
             PROVE  TypeOK'
  OBVIOUS
<1>1. ASSUME NEW r \in Receipts, Enqueue(r)
      PROVE  TypeOK'
  <2> DEFINE n == Cardinality({s \in Receipts : row[s].status # "absent"})
  <2>1. n \in Nat
    BY FS_Subset, FS_CardinalityType
  <2>2. row' = [row EXCEPT ![r] = [row[r] EXCEPT !.status = "pending", !.created = n]]
    BY <1>1 DEF Enqueue, TypeOK
  <2> HIDE DEF n
  <2>3. row' \in [Receipts -> Row]
    <3> DEFINE new == [row[r] EXCEPT !.status = "pending", !.created = n]
    <3>1. row \in [Receipts -> Row] /\ row[r] \in Row
      BY DEF TypeOK
    <3>2. new \in Row
      BY <2>1, <3>1 DEF Row, Status
    <3> HIDE DEF new
    <3>3. QED
      BY <2>2, <3>1, <3>2 DEF new
  <2>4. QED
    BY <1>1, <2>3 DEF Enqueue, TypeOK
<1>2. ASSUME NEW r \in Receipts, ResolveRetry(r)
      PROVE  TypeOK'
  <2>1. row' = [row EXCEPT ![r] = [row[r] EXCEPT !.status = "failed", !.due = 0]]
    BY <1>2 DEF ResolveRetry, TypeOK
  <2>2. row' \in [Receipts -> Row]
    BY <2>1, RowUpdates DEF TypeOK
  <2>3. QED
    BY <1>2, <2>2 DEF ResolveRetry, TypeOK
<1>3. ASSUME NEW r \in Receipts, ResolveMarkSent(r)
      PROVE  TypeOK'
  <2>1. row' = [row EXCEPT ![r] = [row[r] EXCEPT !.status = "sent", !.due = 0]]
    BY <1>3 DEF ResolveMarkSent, TypeOK
  <2>2. row' \in [Receipts -> Row]
    BY <2>1, RowUpdates DEF TypeOK
  <2>3. QED
    BY <1>3, <2>2 DEF ResolveMarkSent, TypeOK
<1>4. ASSUME NEW d \in Dispatchers, ClaimAny(d)
      PROVE  TypeOK'
  <2>1. PICK c \in ClaimIds, keys \in SUBSET Receipts : Claim(d, c, keys)
    BY <1>4 DEF ClaimAny
  <2>2. row' \in [Receipts -> Row]
    <3>1. row' = [r \in Receipts |-> row'[r]]
      BY <2>1 DEF Claim
    <3>2. \A r \in Receipts : row'[r] \in Row
      BY <2>1, ClaimRows
    <3>3. QED
      BY <3>1, <3>2
  <2>3. /\ disp' \in [Dispatchers -> Dispatcher]
        /\ disp'[d].stage \in {"idle", "batch"}
        /\ \A e \in Dispatchers \ {d} : disp'[e] = disp[e]
    BY <2>1, ClaimDisp
  <2>4. QED
    BY <2>1, <2>2, <2>3 DEF Claim, TypeOK
<1>5. ASSUME NEW d \in Dispatchers, NEW r \in Receipts, StartSend(d, r)
      PROVE  TypeOK'
  <2>1. row' \in [Receipts -> Row]
    <3>1. row' = [row EXCEPT ![r] = [row[r] EXCEPT !.status = "sending", !.age = 0]]
      BY <1>5 DEF StartSend, TypeOK
    <3>2. [row[r] EXCEPT !.status = "sending", !.age = 0] \in Row
      BY RowUpdates DEF TypeOK
    <3>3. QED
      BY <3>1, <3>2 DEF TypeOK
  <2>2. disp' = [disp EXCEPT ![d] = [disp[d] EXCEPT !.stage = "send", !.at = r]]
    BY <1>5 DEF StartSend, TypeOK
  <2>3. disp' \in [Dispatchers -> Dispatcher]
    BY <2>2, DispatcherUpdates DEF TypeOK
  <2>4. QED
    BY <1>5, <2>1, <2>2, <2>3 DEF StartSend, TypeOK, Dispatcher
<1>6. ASSUME NEW d \in Dispatchers, NEW r \in Receipts, StartSendLost(d, r)
      PROVE  TypeOK'
  BY <1>6 DEF StartSendLost, TypeOK, Idle, Dispatcher
<1>7. ASSUME NEW d \in Dispatchers, NEW outcome \in Outcome, NEW reached \in BOOLEAN,
             Deliver(d, outcome, reached)
      PROVE  TypeOK'
  <2>1. accepted' \in [Receipts -> Nat]
    BY <1>7 DEF Deliver, TypeOK
  <2>2. disp' = [disp EXCEPT ![d] = [disp[d] EXCEPT !.stage = "mark", !.outcome = outcome]]
    BY <1>7 DEF Deliver, TypeOK
  <2>3. disp' \in [Dispatchers -> Dispatcher]
    BY <2>2, DispatcherUpdates DEF TypeOK
  <2>4. QED
    BY <1>7, <2>1, <2>2, <2>3 DEF Deliver, TypeOK, Dispatcher
<1>8. ASSUME NEW d \in Dispatchers, Mark(d)
      PROVE  TypeOK'
  <2> DEFINE r == disp[d].at
             x == [disp[d] EXCEPT !.batch = @ \ {r}]
  <2>1. r \in Receipts /\ disp[d].outcome \in Outcome
    BY <1>8 DEF Mark, TypeOK
  <2>2. row' = [row EXCEPT ![r] = MarkRow(row[r], disp[d].outcome)]
    BY <1>8 DEF Mark, TypeOK
  <2>3. row' \in [Receipts -> Row]
    BY <2>1, <2>2, MarkRowType DEF TypeOK
  <2>4. x \in Dispatcher
    BY <2>1, DispatcherUpdates DEF TypeOK
  <2>5. disp' = [disp EXCEPT ![d] = Resume(x)]
    BY <1>8 DEF Mark, TypeOK
  <2> HIDE DEF x
  <2>6. /\ disp' \in [Dispatchers -> Dispatcher]
        /\ disp'[d].stage \in {"idle", "batch"}
        /\ \A e \in Dispatchers \ {d} : disp'[e] = disp[e]
    BY <2>4, <2>5, ResumeType DEF TypeOK
  <2>7. QED
    BY <1>8, <2>3, <2>6 DEF Mark, TypeOK
<1>9. ASSUME NEW d \in Dispatchers, MarkLost(d)
      PROVE  TypeOK'
  BY <1>9 DEF MarkLost, TypeOK, Idle, Dispatcher
<1>10. ASSUME NEW d \in Dispatchers, Crash(d)
       PROVE  TypeOK'
  <2>1. accepted' \in [Receipts -> Nat]
    BY <1>10 DEF Crash, TypeOK
  <2>2. QED
    BY <1>10, <2>1 DEF Crash, TypeOK, Idle, Dispatcher
<1>11. CASE Tick
  <2>1. row' \in [Receipts -> Row]
    BY <1>11, AgedType DEF Tick, TypeOK
  <2>2. QED
    BY <1>11, <2>1 DEF Tick, TypeOK
<1>12. CASE UNCHANGED vars
  BY <1>12 DEF vars, TypeOK
<1>13. QED
  BY <1>1, <1>2, <1>3, <1>4, <1>5, <1>6, <1>7, <1>8, <1>9, <1>10, <1>11, <1>12
  DEF Next, DispatchStep

(* Rows and dispatchers keep their shape, for every value of the constants. *)
THEOREM TypeCorrect == Spec => []TypeOK
<1>1. QED
  BY InitTypeOK, NextTypeOK, PTL DEF Spec

-----------------------------------------------------------------------------
LEMMA InitOwnership == Init => Ownership
BY DEF Init, Ownership, Idle, Holds

(* A dispatcher that ends its call gives its claim id up and nobody gains   *)
(* one, whatever becomes of the table's rows that are not being sent.       *)
LEMMA EndCallOwnership ==
    ASSUME TypeOK, Ownership, NEW d \in Dispatchers,
           disp' = [disp EXCEPT ![d] = Idle], UNCHANGED row
    PROVE  Ownership'
<1>1. disp'[d].claim = None /\ disp'[d].stage = "idle"
  BY DEF TypeOK, Idle
<1>2. \A e \in Dispatchers \ {d} : disp'[e] = disp[e]
  BY DEF TypeOK
<1>3. QED
  BY <1>1, <1>2 DEF Ownership, Holds, Idle

LEMMA NextOwnership == TypeOK /\ Ownership /\ [Next]_vars => Ownership'
<1> SUFFICES ASSUME TypeOK, Ownership, [Next]_vars
             PROVE  Ownership'
  OBVIOUS
<1>1. ASSUME NEW r \in Receipts, Enqueue(r)
      PROVE  Ownership'
  BY <1>1 DEF Enqueue, Ownership, Holds, TypeOK, Row
<1>2. ASSUME NEW r \in Receipts, ResolveRetry(r)
      PROVE  Ownership'
  BY <1>2 DEF ResolveRetry, Ownership, Holds, TypeOK, Row
<1>3. ASSUME NEW r \in Receipts, ResolveMarkSent(r)
      PROVE  Ownership'
  BY <1>3 DEF ResolveMarkSent, Ownership, Holds, TypeOK, Row
<1>4. ASSUME NEW d \in Dispatchers, ClaimAny(d)
      PROVE  Ownership'
  <2>1. PICK c \in ClaimIds, keys \in SUBSET Receipts : Claim(d, c, keys)
    BY <1>4 DEF ClaimAny
  <2>2. /\ disp[d].stage = "idle"
        /\ \A r \in Receipts : row[r].claim # c
        /\ \A e \in Dispatchers : disp[e].claim # c
    BY <2>1 DEF Claim, FreshClaim, Unused
  <2>3. /\ disp'[d].stage \in {"idle", "batch"}
        /\ disp'[d].stage = "idle" => disp'[d].claim = None
        /\ disp'[d].stage = "batch" => disp'[d].claim = c
        /\ \A e \in Dispatchers \ {d} : disp'[e] = disp[e]
    BY <2>1, ClaimDisp
  <2>4. \A r \in Receipts :
          /\ row'[r].status = "sending" => row'[r] = row[r]
          /\ row'[r].status = "claimed" => row'[r] = row[r] \/ row'[r].claim = c
    BY <2>1, ClaimRows
  <2>5. c # None
    OBVIOUS
  <2>6. \A e \in Dispatchers : disp'[e].stage = "idle" <=> disp'[e].claim = None
    BY <2>3, <2>5 DEF Ownership
  <2>7. \A e, f \in Dispatchers :
          e # f /\ disp'[e].claim # None => disp'[e].claim # disp'[f].claim
    BY <2>2, <2>3, <2>5 DEF Ownership
  <2>8. \A r \in Receipts :
          row'[r].status \in {"claimed", "sending"} => row'[r].claim # None
    BY <2>4, <2>5 DEF Ownership
  <2>9. ASSUME NEW e \in Dispatchers, NEW r \in Receipts, Holds(e, r, "sending")'
        PROVE  disp'[e].stage \in {"send", "mark"} /\ disp'[e].at = r
    <3>1. row'[r] = row[r] /\ row[r].status = "sending" /\ row[r].claim # None
      BY <2>4, <2>9 DEF Holds, Ownership
    <3>2. e # d
      BY <2>2, <2>3, <2>9, <3>1 DEF Holds
    <3>3. QED
      BY <2>3, <2>9, <3>1, <3>2 DEF Holds, Ownership
  <2>10. QED
    BY <2>6, <2>7, <2>8, <2>9 DEF Ownership
<1>5. ASSUME NEW d \in Dispatchers, NEW r \in Receipts, StartSend(d, r)
      PROVE  Ownership'
  <2>1. /\ disp'[d].stage = "send" /\ disp'[d].at = r /\ disp'[d].claim = disp[d].claim
        /\ \A e \in Dispatchers \ {d} : disp'[e] = disp[e]
    BY <1>5 DEF StartSend, TypeOK, Dispatcher
  <2>2. /\ row'[r].status = "sending" /\ row'[r].claim = disp[d].claim
        /\ \A s \in Receipts \ {r} : row'[s] = row[s]
    BY <1>5 DEF StartSend, Holds, TypeOK, Row
  <2>3. disp[d].stage = "batch"
    BY <1>5 DEF StartSend
  <2>4. QED
    BY <2>1, <2>2, <2>3 DEF Ownership, Holds
<1>6. ASSUME NEW d \in Dispatchers, NEW r \in Receipts, StartSendLost(d, r)
      PROVE  Ownership'
  BY <1>6, EndCallOwnership DEF StartSendLost
<1>7. ASSUME NEW d \in Dispatchers, NEW outcome \in Outcome, NEW reached \in BOOLEAN,
             Deliver(d, outcome, reached)
      PROVE  Ownership'
  <2>1. /\ disp'[d].stage = "mark" /\ disp'[d].at = disp[d].at
        /\ disp'[d].claim = disp[d].claim /\ disp[d].stage = "send"
        /\ \A e \in Dispatchers \ {d} : disp'[e] = disp[e]
    BY <1>7 DEF Deliver, TypeOK, Dispatcher
  <2>2. row' = row
    BY <1>7 DEF Deliver
  <2>3. QED
    BY <2>1, <2>2 DEF Ownership, Holds
<1>8. ASSUME NEW d \in Dispatchers, Mark(d)
      PROVE  Ownership'
  <2> DEFINE r == disp[d].at
  <2>1. /\ disp[d].stage = "mark" /\ r \in Receipts /\ disp[d].outcome \in Outcome
        /\ Holds(d, r, "sending")
    BY <1>8 DEF Mark, TypeOK
  <2>2. row'[r].status = disp[d].outcome /\ \A s \in Receipts \ {r} : row'[s] = row[s]
    BY <1>8, <2>1, MarkRowType DEF Mark, TypeOK
  <2>3. /\ disp'[d].stage \in {"idle", "batch"}
        /\ disp'[d].stage = "idle" => disp'[d].claim = None
        /\ disp'[d].stage = "batch" => disp'[d].claim = disp[d].claim
        /\ \A e \in Dispatchers \ {d} : disp'[e] = disp[e]
    <3> DEFINE x == [disp[d] EXCEPT !.batch = @ \ {r}]
    <3>1. x.claim = disp[d].claim
      BY DEF TypeOK, Dispatcher
    <3>2. x \in Dispatcher
      BY <2>1, DispatcherUpdates DEF TypeOK
    <3>3. disp' = [disp EXCEPT ![d] = Resume(x)]
      BY <1>8 DEF Mark
    <3> HIDE DEF x
    <3>4. QED
      BY <3>1, <3>2, <3>3, ResumeType DEF TypeOK
  <2>4. \A e \in Dispatchers : disp'[e].stage = "idle" <=> disp'[e].claim = None
    BY <2>1, <2>3 DEF Ownership
  <2>5. \A e, f \in Dispatchers :
          e # f /\ disp'[e].claim # None => disp'[e].claim # disp'[f].claim
    BY <2>3 DEF Ownership
  <2>6. \A s \in Receipts :
          row'[s].status \in {"claimed", "sending"} => row'[s].claim # None
    BY <2>1, <2>2 DEF Ownership, Outcome
  <2>7. ASSUME NEW e \in Dispatchers, NEW s \in Receipts, Holds(e, s, "sending")'
        PROVE  disp'[e].stage \in {"send", "mark"} /\ disp'[e].at = s
    <3>1. s # r /\ row'[s] = row[s]
      BY <2>1, <2>2, <2>7 DEF Holds, Outcome
    <3>2. e # d
      BY <2>1, <2>3, <2>7, <3>1 DEF Holds, Ownership
    <3>3. QED
      BY <2>3, <2>7, <3>1, <3>2 DEF Holds, Ownership
  <2>8. QED
    BY <2>4, <2>5, <2>6, <2>7 DEF Ownership
<1>9. ASSUME NEW d \in Dispatchers, MarkLost(d)
      PROVE  Ownership'
  BY <1>9, EndCallOwnership DEF MarkLost
<1>10. ASSUME NEW d \in Dispatchers, Crash(d)
       PROVE  Ownership'
  BY <1>10, EndCallOwnership DEF Crash
<1>11. CASE Tick
  <2>1. \A r \in Receipts : row'[r].status = row[r].status /\ row'[r].claim = row[r].claim
    BY <1>11, AgedType DEF Tick, TypeOK
  <2>2. disp' = disp
    BY <1>11 DEF Tick
  <2>3. QED
    BY <2>1, <2>2 DEF Ownership, Holds
<1>12. CASE UNCHANGED vars
  BY <1>12 DEF vars, Ownership, Holds
<1>13. QED
  BY <1>1, <1>2, <1>3, <1>4, <1>5, <1>6, <1>7, <1>8, <1>9, <1>10, <1>11, <1>12
  DEF Next, DispatchStep
-----------------------------------------------------------------------------
LEMMA InFlightFinite ==
    ASSUME NEW r \in Receipts
    PROVE  /\ IsFiniteSet(InFlight(r)) /\ Cardinality(InFlight(r)) \in Nat
           /\ IsFiniteSet(InFlight(r)') /\ Cardinality(InFlight(r)') \in Nat
<1>1. InFlight(r) \subseteq Dispatchers /\ InFlight(r)' \subseteq Dispatchers
  BY DEF InFlight
<1>2. QED
  BY <1>1, FS_Subset, FS_CardinalityType

(* A step that starts no transmission, and opens no row, keeps every        *)
(* receipt paid.                                                            *)
LEMMA QuietStep ==
    ASSUME TypeOK, Paid, NEW r \in Receipts,
           accepted'[r] = accepted[r], retries'[r] = retries[r],
           InFlight(r)' \subseteq InFlight(r), Open(r)' => Open(r)
    PROVE  accepted'[r] + Cardinality(InFlight(r)')
             <= retries'[r] + (IF Open(r)' THEN 0 ELSE 1)
<1>1. Cardinality(InFlight(r)') <= Cardinality(InFlight(r))
  BY InFlightFinite, FS_Subset
<1>2. accepted[r] \in Nat /\ retries[r] \in Nat
  BY DEF TypeOK
<1>3. accepted[r] + Cardinality(InFlight(r)) <= retries[r] + (IF Open(r) THEN 0 ELSE 1)
  BY DEF Paid
<1>4. QED
  BY <1>1, <1>2, <1>3, InFlightFinite

LEMMA InitPaid == Init => Paid
<1> SUFFICES ASSUME Init, NEW r \in Receipts
             PROVE  accepted[r] + Cardinality(InFlight(r))
                      <= retries[r] + (IF Open(r) THEN 0 ELSE 1)
  BY DEF Paid
<1>1. InFlight(r) = {}
  BY DEF Init, InFlight, Idle
<1>2. Cardinality(InFlight(r)) = 0
  BY <1>1, FS_EmptySet
<1>3. accepted[r] = 0 /\ retries[r] = 0
  BY DEF Init
<1>4. QED
  BY <1>2, <1>3

(* A dispatcher that ends its call opens no row.                            *)
LEMMA EndCallPaid ==
    ASSUME TypeOK, Ownership, Paid, NEW d \in Dispatchers,
           disp' = [disp EXCEPT ![d] = Idle],
           UNCHANGED <<row, accepted, retries>>
    PROVE  Paid'
<1> SUFFICES ASSUME NEW r \in Receipts
             PROVE  accepted'[r] + Cardinality(InFlight(r)')
                      <= retries'[r] + (IF Open(r)' THEN 0 ELSE 1)
  BY DEF Paid
<1>1. disp'[d].stage = "idle" /\ \A e \in Dispatchers \ {d} : disp'[e] = disp[e]
  BY DEF TypeOK, Idle
<1>2. InFlight(r)' \subseteq InFlight(r)
  BY <1>1 DEF InFlight
<1>3. Open(r)' => Open(r)
  BY <1>1 DEF Open, Reopens, Holds
<1>4. QED
  BY <1>2, <1>3, QuietStep

LEMMA NextPaid == TypeOK /\ Ownership /\ Paid /\ [Next]_vars => Paid'
<1> SUFFICES ASSUME TypeOK, Ownership, Paid, [Next]_vars
             PROVE  Paid'
  OBVIOUS
<1> DEFINE Debt(r) == accepted[r] + Cardinality(InFlight(r))
<1>0. \A r \in Receipts :
        /\ accepted[r] \in Nat /\ retries[r] \in Nat
        /\ Cardinality(InFlight(r)) \in Nat
        /\ Debt(r) <= retries[r] + (IF Open(r) THEN 0 ELSE 1)
  BY InFlightFinite DEF TypeOK, Paid
<1>1. ASSUME NEW r \in Receipts, Enqueue(r)
      PROVE  Paid'
  <2>1. \A s \in Receipts : /\ row'[s].status # row[s].status => Open(s)
                            /\ row'[s].claim = row[s].claim
    BY <1>1 DEF Enqueue, TypeOK, Row, Open
  <2>2. \A s \in Receipts : (Open(s)' => Open(s)) /\ InFlight(s)' \subseteq InFlight(s)
    <3>1. disp' = disp
      BY <1>1 DEF Enqueue
    <3>2. ASSUME NEW s \in Receipts
          PROVE  Open(s)' => Open(s)
      BY <2>1, <3>1 DEF Open, Reopens, Holds
    <3>3. ASSUME NEW s \in Receipts
          PROVE  InFlight(s)' \subseteq InFlight(s)
      BY <3>1 DEF InFlight
    <3>4. QED
      BY <3>2, <3>3
  <2>3. QED
    BY <1>1, <2>2, QuietStep DEF Enqueue, Paid
<1>2. ASSUME NEW r \in Receipts, ResolveRetry(r)
      PROVE  Paid'
  <2>1. \A s \in Receipts : InFlight(s)' = InFlight(s)
    BY <1>2 DEF ResolveRetry, InFlight
  <2>2. ~ Open(r) /\ retries'[r] = retries[r] + 1
    BY <1>2 DEF ResolveRetry, Open, Reopens, Holds, TypeOK
  <2>3. \A s \in Receipts \ {r} : row'[s] = row[s] /\ retries'[s] = retries[s]
    BY <1>2 DEF ResolveRetry, TypeOK
  <2>4. \A s \in Receipts \ {r} : Open(s)' => Open(s)
    BY <1>2, <2>3 DEF ResolveRetry, Open, Reopens, Holds
  <2>5. accepted' = accepted
    BY <1>2 DEF ResolveRetry
  <2>6. \A s \in Receipts : Debt(s)' <= retries'[s] + (IF Open(s)' THEN 0 ELSE 1)
    BY <1>0, <2>1, <2>2, <2>3, <2>4, <2>5
  <2>7. QED
    BY <2>6 DEF Paid
<1>3. ASSUME NEW r \in Receipts, ResolveMarkSent(r)
      PROVE  Paid'
  <2>1. \A s \in Receipts : row'[s] = row[s] \/ row'[s].status = "sent"
    BY <1>3 DEF ResolveMarkSent, TypeOK, Row
  <2>2. \A s \in Receipts : (Open(s)' => Open(s)) /\ InFlight(s)' \subseteq InFlight(s)
    BY <1>3, <2>1 DEF ResolveMarkSent, Open, Reopens, Holds, InFlight
  <2>3. QED
    BY <1>3, <2>2, QuietStep DEF ResolveMarkSent, Paid
<1>4. ASSUME NEW d \in Dispatchers, ClaimAny(d)
      PROVE  Paid'
  <2>1. PICK c \in ClaimIds, keys \in SUBSET Receipts : Claim(d, c, keys)
    BY <1>4 DEF ClaimAny
  <2>2. /\ disp'[d].stage \in {"idle", "batch"}
        /\ \A e \in Dispatchers \ {d} : disp'[e] = disp[e]
    BY <2>1, ClaimDisp
  <2>3. \A s \in Receipts :
          /\ row'[s].status = "sending" => row'[s] = row[s]
          /\ row'[s].status \in {"absent", "pending", "failed", "claimed"}
               => row[s].status \in {"absent", "pending", "failed", "claimed"}
    BY <2>1, ClaimRows
  <2>4. \A s \in Receipts : Open(s)' => Open(s)
    BY <2>2, <2>3 DEF Open, Reopens, Holds
  <2>5. \A s \in Receipts : InFlight(s)' \subseteq InFlight(s)
    BY <2>2 DEF InFlight
  <2>6. QED
    BY <2>1, <2>4, <2>5, QuietStep DEF Claim, Paid
<1>5. ASSUME NEW d \in Dispatchers, NEW r \in Receipts, StartSend(d, r)
      PROVE  Paid'
  <2>1. /\ disp'[d].stage = "send" /\ disp'[d].at = r /\ disp'[d].claim = disp[d].claim
        /\ \A e \in Dispatchers \ {d} : disp'[e] = disp[e]
    BY <1>5 DEF StartSend, TypeOK, Dispatcher
  <2>2. /\ row'[r].status = "sending" /\ row'[r].claim = disp[d].claim
        /\ \A s \in Receipts \ {r} : row'[s] = row[s]
    BY <1>5 DEF StartSend, Holds, TypeOK, Row
  <2>3. disp[d].stage = "batch" /\ row[r].status = "claimed"
    BY <1>5 DEF StartSend, Holds
  <2>4. Cardinality(InFlight(r)') = Cardinality(InFlight(r)) + 1
    <3>1. InFlight(r)' = InFlight(r) \cup {d} /\ d \notin InFlight(r)
      BY <2>1, <2>3 DEF InFlight
    <3>2. QED
      BY <3>1, InFlightFinite, FS_AddElement
  <2>5. Open(r) /\ ~ Open(r)'
    <3>1. \A e \in Dispatchers \ {d} : disp[e].claim # disp[d].claim
      BY <2>3 DEF Ownership
    <3>2. QED
      BY <2>1, <2>2, <2>3, <3>1 DEF Open, Reopens, Holds
  <2>6. \A s \in Receipts \ {r} : InFlight(s)' = InFlight(s) /\ (Open(s)' => Open(s))
    BY <2>1, <2>2, <2>3 DEF InFlight, Open, Reopens, Holds
  <2>7. accepted' = accepted /\ retries' = retries
    BY <1>5 DEF StartSend
  <2>8. \A s \in Receipts : Debt(s)' <= retries'[s] + (IF Open(s)' THEN 0 ELSE 1)
    BY <1>0, <2>4, <2>5, <2>6, <2>7
  <2>9. QED
    BY <2>8 DEF Paid
<1>6. ASSUME NEW d \in Dispatchers, NEW r \in Receipts, StartSendLost(d, r)
      PROVE  Paid'
  BY <1>6, EndCallPaid DEF StartSendLost
<1>7. ASSUME NEW d \in Dispatchers, NEW outcome \in Outcome, NEW reached \in BOOLEAN,
             Deliver(d, outcome, reached)
      PROVE  Paid'
  <2>1. PICK r \in Receipts : r = disp[d].at /\ disp[d].stage = "send"
    BY <1>7 DEF Deliver, TypeOK
  <2>2. /\ disp'[d].stage = "mark" /\ disp'[d].at = r /\ disp'[d].claim = disp[d].claim
        /\ disp'[d].outcome = outcome
        /\ \A e \in Dispatchers \ {d} : disp'[e] = disp[e]
    BY <1>7, <2>1 DEF Deliver, TypeOK, Dispatcher
  <2>3. /\ row' = row /\ retries' = retries
        /\ accepted'[r] = IF reached THEN accepted[r] + 1 ELSE accepted[r]
        /\ \A s \in Receipts \ {r} : accepted'[s] = accepted[s]
        /\ outcome = "failed" => ~ reached
    BY <1>7, <2>1 DEF Deliver, TypeOK
  <2>4. Cardinality(InFlight(r)') = Cardinality(InFlight(r)) - 1
    <3> DEFINE S == InFlight(r)
    <3>1. S' = S \ {d} /\ d \in S
      BY <2>1, <2>2 DEF InFlight
    <3>2. IsFiniteSet(S)
      BY <2>1, InFlightFinite
    <3> HIDE DEF S
    <3>3. Cardinality(S \ {d}) = Cardinality(S) - 1
      BY <3>1, <3>2, FS_RemoveElement
    <3>4. Cardinality(S') = Cardinality(S) - 1
      BY <3>1, <3>3
    <3>5. QED
      BY <3>4 DEF S
  <2>5. \A s \in Receipts \ {r} : InFlight(s)' = InFlight(s) /\ (Open(s)' => Open(s))
    <3>1. \A s \in Receipts \ {r} : ~ Holds(d, s, "sending")
      BY <2>1 DEF Ownership
    <3>2. QED
      BY <2>1, <2>2, <2>3, <3>1 DEF InFlight, Open, Reopens, Holds
  <2>6. reached => (Open(r)' => Open(r))
    BY <2>1, <2>2, <2>3 DEF Open, Reopens, Holds
  <2>7. \A s \in Receipts : Debt(s)' <= retries'[s] + (IF Open(s)' THEN 0 ELSE 1)
    BY <1>0, <2>1, <2>3, <2>4, <2>5, <2>6
  <2>8. QED
    BY <2>7 DEF Paid
<1>8. ASSUME NEW d \in Dispatchers, Mark(d)
      PROVE  Paid'
  <2> DEFINE r == disp[d].at
  <2>1. /\ disp[d].stage = "mark" /\ r \in Receipts /\ disp[d].outcome \in Outcome
        /\ Holds(d, r, "sending")
    BY <1>8 DEF Mark, TypeOK
  <2>2. row'[r].status = disp[d].outcome /\ \A s \in Receipts \ {r} : row'[s] = row[s]
    BY <1>8, <2>1, MarkRowType DEF Mark, TypeOK
  <2>3. disp'[d].stage \in {"idle", "batch"} /\ \A e \in Dispatchers \ {d} : disp'[e] = disp[e]
    <3> DEFINE x == [disp[d] EXCEPT !.batch = @ \ {r}]
    <3>1. x \in Dispatcher
      BY <2>1, DispatcherUpdates DEF TypeOK
    <3>2. disp' = [disp EXCEPT ![d] = Resume(x)]
      BY <1>8 DEF Mark
    <3> HIDE DEF x
    <3>3. QED
      BY <3>1, <3>2, ResumeType DEF TypeOK
  <2>4. \A s \in Receipts : InFlight(s)' \subseteq InFlight(s)
    BY <2>3 DEF InFlight
  <2>5. \A s \in Receipts : Open(s)' => Open(s)
    BY <2>1, <2>2, <2>3 DEF Open, Reopens, Holds, Outcome
  <2>6. QED
    BY <1>8, <2>4, <2>5, QuietStep DEF Mark, Paid
<1>9. ASSUME NEW d \in Dispatchers, MarkLost(d)
      PROVE  Paid'
  BY <1>9, EndCallPaid DEF MarkLost
<1>10. ASSUME NEW d \in Dispatchers, Crash(d)
       PROVE  Paid'
  <2>1. PICK reached \in BOOLEAN :
          /\ reached => disp[d].stage = "send"
          /\ accepted' = IF reached THEN [accepted EXCEPT ![disp[d].at] = @ + 1] ELSE accepted
    BY <1>10 DEF Crash
  <2>2. /\ row' = row /\ retries' = retries /\ disp' = [disp EXCEPT ![d] = Idle]
    BY <1>10 DEF Crash
  <2>3. CASE ~ reached
    BY <2>1, <2>2, <2>3, EndCallPaid
  <2>4. CASE reached
    <3>1. PICK r \in Receipts : r = disp[d].at /\ disp[d].stage = "send"
      BY <2>1, <2>4 DEF TypeOK
    <3>2. disp'[d].stage = "idle" /\ \A e \in Dispatchers \ {d} : disp'[e] = disp[e]
      BY <2>2 DEF TypeOK, Idle
    <3>3. Cardinality(InFlight(r)') = Cardinality(InFlight(r)) - 1
      <4> DEFINE S == InFlight(r)
      <4>1. S' = S \ {d} /\ d \in S
        BY <3>1, <3>2 DEF InFlight
      <4>2. IsFiniteSet(S)
        BY <3>1, InFlightFinite
      <4> HIDE DEF S
      <4>3. Cardinality(S \ {d}) = Cardinality(S) - 1
        BY <4>1, <4>2, FS_RemoveElement
      <4>4. Cardinality(S') = Cardinality(S) - 1
        BY <4>1, <4>3
      <4>5. QED
        BY <4>4 DEF S
    <3>4. \A s \in Receipts \ {r} : InFlight(s)' = InFlight(s)
      BY <3>1, <3>2 DEF InFlight
    <3>5. \A s \in Receipts : Open(s)' => Open(s)
      BY <2>2, <3>2 DEF Open, Reopens, Holds
    <3>6. accepted'[r] = accepted[r] + 1 /\ \A s \in Receipts \ {r} : accepted'[s] = accepted[s]
      BY <2>1, <2>4, <3>1 DEF TypeOK
    <3>7. \A s \in Receipts : Debt(s)' <= retries'[s] + (IF Open(s)' THEN 0 ELSE 1)
      BY <1>0, <2>2, <3>1, <3>3, <3>4, <3>5, <3>6
    <3>8. QED
      BY <3>7 DEF Paid
  <2>5. QED
    BY <2>3, <2>4
<1>11. CASE Tick
  <2>1. \A r \in Receipts : row'[r].status = row[r].status /\ row'[r].claim = row[r].claim
    BY <1>11, AgedType DEF Tick, TypeOK
  <2>2. \A s \in Receipts : (Open(s)' => Open(s)) /\ InFlight(s)' \subseteq InFlight(s)
    BY <1>11, <2>1 DEF Tick, Open, Reopens, Holds, InFlight
  <2>3. QED
    BY <1>11, <2>2, QuietStep DEF Tick, Paid
<1>12. CASE UNCHANGED vars
  <2>1. \A s \in Receipts : (Open(s)' => Open(s)) /\ InFlight(s)' \subseteq InFlight(s)
    BY <1>12 DEF vars, Open, Reopens, Holds, InFlight
  <2>2. QED
    BY <1>12, <2>1, QuietStep DEF vars, Paid
<1>13. QED
  BY <1>1, <1>2, <1>3, <1>4, <1>5, <1>6, <1>7, <1>8, <1>9, <1>10, <1>11, <1>12
  DEF Next, DispatchStep
-----------------------------------------------------------------------------
LEMMA Inductive == Spec => []IInv
<1>1. Init => IInv
  BY InitTypeOK, InitOwnership, InitPaid DEF IInv
<1>2. IInv /\ [Next]_vars => IInv'
  BY NextTypeOK, NextOwnership, NextPaid DEF IInv
<1>3. QED
  BY <1>1, <1>2, PTL DEF Spec

(* The runbook's promise, "ambiguous sending is never blindly retried":     *)
(* for any number of receipts, dispatchers, lease expiries, crashes and     *)
(* late answers, the channel accepts a receipt at most once more than an    *)
(* operator decided "retry".                                                *)
THEOREM AtMostOncePerPermit == Spec => []NoBlindResend
<1>1. IInv => NoBlindResend
  <2> SUFFICES ASSUME IInv, NEW r \in Receipts
               PROVE  accepted[r] <= 1 + retries[r]
    BY DEF NoBlindResend
  <2>1. accepted[r] \in Nat /\ retries[r] \in Nat
    BY DEF IInv, TypeOK
  <2>2. accepted[r] + Cardinality(InFlight(r)) <= retries[r] + (IF Open(r) THEN 0 ELSE 1)
    BY DEF IInv, Paid
  <2>3. QED
    BY <2>1, <2>2, InFlightFinite
<1>2. QED
  BY <1>1, Inductive, PTL

(* A receipt in the queue has no transmission outstanding that an operator  *)
(* did not ask for, so claiming it again is safe.                           *)
THEOREM QueueIsSafe == Spec => []QueuedIsNotInFlight
<1>1. IInv => QueuedIsNotInFlight
  <2> SUFFICES ASSUME IInv, NEW r \in Receipts,
                      row[r].status \in {"pending", "failed", "claimed"}
               PROVE  accepted[r] + Cardinality(InFlight(r)) <= retries[r]
    BY DEF QueuedIsNotInFlight
  <2>1. Open(r) /\ retries[r] \in Nat
    BY DEF Open, IInv, TypeOK
  <2>2. accepted[r] + Cardinality(InFlight(r)) <= retries[r] + (IF Open(r) THEN 0 ELSE 1)
    BY DEF IInv, Paid
  <2>3. QED
    BY <2>1, <2>2
<1>2. QED
  BY <1>1, Inductive, PTL

(* Only the claimant of a row records its outcome, and it is alone.         *)
THEOREM ClaimantMarks == Spec => MarkedByClaimant
<1> DEFINE Marked(r) == row[r].status = "sending" /\ row'[r].status \in {"sent", "failed"}
           By(r) == \E d \in Dispatchers : /\ disp[d].claim = row[r].claim
                                           /\ disp[d].at = r
                                           /\ disp[d].outcome = row'[r].status
                                           /\ \A e \in Dispatchers \ {d} :
                                                 disp[e].claim # row[r].claim
<1>1. ASSUME IInv, [Next]_vars, NEW r \in Receipts, Marked(r)
      PROVE  By(r)
  <2> USE DEF IInv
  <2>1. CASE \E d \in Dispatchers : Mark(d)
    <3>1. PICK d \in Dispatchers : Mark(d)
      BY <2>1
    <3>2. /\ row' = [row EXCEPT ![disp[d].at] = MarkRow(@, disp[d].outcome)]
          /\ Holds(d, disp[d].at, "sending") /\ disp[d].stage = "mark"
      BY <3>1 DEF Mark
    <3>3. disp[d].at = r
      BY <1>1, <3>2 DEF TypeOK
    <3>4. row'[r].status = disp[d].outcome
      <4>1. disp[d].outcome \in Outcome /\ row[r] \in Row
        BY <1>1, <3>2 DEF TypeOK
      <4>2. row'[r] = MarkRow(row[r], disp[d].outcome)
        BY <1>1, <3>2, <3>3 DEF TypeOK
      <4>3. QED
        BY <4>1, <4>2, MarkRowType
    <3>5. \A e \in Dispatchers \ {d} : disp[e].claim # row[r].claim
      <4>1. disp[d].claim # None /\ row[r].claim = disp[d].claim
        BY <1>1, <3>2, <3>3 DEF Holds, Ownership
      <4>2. QED
        BY <1>1, <4>1 DEF Ownership
    <3>6. QED
      BY <3>2, <3>3, <3>4, <3>5 DEF Holds
  <2>2. CASE \E s \in Receipts : Enqueue(s) \/ ResolveRetry(s) \/ ResolveMarkSent(s)
    BY <1>1, <2>2 DEF Enqueue, ResolveRetry, ResolveMarkSent, TypeOK
  <2>3. CASE \E d \in Dispatchers : ClaimAny(d)
    BY <1>1, <2>3, ClaimRows DEF ClaimAny
  <2>4. CASE \E d \in Dispatchers, s \in Receipts : StartSend(d, s)
    BY <1>1, <2>4 DEF StartSend, Holds, TypeOK
  <2>5. CASE row' = row
    BY <1>1, <2>5
  <2>6. CASE Tick
    BY <1>1, <2>6, AgedType DEF Tick, TypeOK
  <2>7. QED
    BY <1>1, <2>1, <2>2, <2>3, <2>4, <2>5, <2>6
    DEF Next, DispatchStep, StartSendLost, Deliver, MarkLost, Crash, vars
<1>2. IInv /\ [Next]_vars => \A r \in Receipts : Marked(r) => By(r)
  BY <1>1
<1>3. QED
  BY <1>2, Inductive, PTL DEF Spec, MarkedByClaimant

-----------------------------------------------------------------------------
(* The refinement of ReceiptDelivery.  A row is settled by a dispatcher     *)
(* only with the channel's acceptance in hand.                              *)
Acknowledged ==
    \A d \in Dispatchers :
        disp[d].stage = "mark" /\ disp[d].outcome = "sent" => accepted[disp[d].at] > 0

(* Nothing takes an acceptance back.                                        *)
LEMMA AcceptedGrows ==
    ASSUME TypeOK, [Next]_vars, NEW r \in Receipts
    PROVE  accepted[r] > 0 => accepted'[r] > 0
<1>1. accepted \in [Receipts -> Nat]
  BY DEF TypeOK
<1>2. ASSUME NEW d \in Dispatchers, NEW outcome \in Outcome, NEW reached \in BOOLEAN,
             Deliver(d, outcome, reached)
      PROVE  accepted[r] > 0 => accepted'[r] > 0
  BY <1>1, <1>2 DEF Deliver
<1>3. ASSUME NEW d \in Dispatchers, Crash(d)
      PROVE  accepted[r] > 0 => accepted'[r] > 0
  BY <1>1, <1>3 DEF Crash
<1>4. ASSUME NEW s \in Receipts, Enqueue(s) \/ ResolveRetry(s) \/ ResolveMarkSent(s)
      PROVE  accepted' = accepted
  BY <1>4 DEF Enqueue, ResolveRetry, ResolveMarkSent
<1>5. ASSUME NEW d \in Dispatchers, ClaimAny(d) \/ Mark(d) \/ MarkLost(d)
      PROVE  accepted' = accepted
  BY <1>5, Zenon DEF ClaimAny, Claim, Mark, MarkLost
<1>6. ASSUME NEW d \in Dispatchers, NEW s \in Receipts, StartSend(d, s) \/ StartSendLost(d, s)
      PROVE  accepted' = accepted
  BY <1>6 DEF StartSend, StartSendLost
<1>7. Tick \/ UNCHANGED vars => accepted' = accepted
  BY DEF Tick, vars
<1>8. QED
  BY <1>2, <1>3, <1>4, <1>5, <1>6, <1>7 DEF Next, DispatchStep

LEMMA NextAcknowledged == TypeOK /\ Acknowledged /\ [Next]_vars => Acknowledged'
<1> SUFFICES ASSUME TypeOK, Acknowledged, [Next]_vars, NEW d \in Dispatchers,
                    disp'[d].stage = "mark", disp'[d].outcome = "sent"
             PROVE  accepted'[disp'[d].at] > 0
  BY DEF Acknowledged
<1>1. CASE disp'[d] = disp[d]
  BY <1>1, AcceptedGrows DEF Acknowledged, TypeOK
<1>2. CASE \E outcome \in Outcome, reached \in BOOLEAN : Deliver(d, outcome, reached)
  <2>1. PICK outcome \in Outcome, reached \in BOOLEAN : Deliver(d, outcome, reached)
    BY <1>2
  <2>2. /\ disp[d].at \in Receipts /\ disp[d] \in Dispatcher
        /\ disp'[d] = [disp[d] EXCEPT !.stage = "mark", !.outcome = outcome]
    BY <2>1 DEF Deliver, TypeOK
  <2>3. outcome = "sent" /\ disp'[d].at = disp[d].at
    BY <2>2 DEF Dispatcher
  <2>4. QED
    BY <2>1, <2>2, <2>3 DEF Deliver, TypeOK
<1>3. CASE \E e \in Dispatchers, outcome \in Outcome, reached \in BOOLEAN : e # d /\ Deliver(e, outcome, reached)
  BY <1>1, <1>3 DEF Deliver, TypeOK
<1>4. CASE \E e \in Dispatchers : ClaimAny(e)
  BY <1>1, <1>4, ClaimDisp DEF ClaimAny
<1>5. CASE \E e \in Dispatchers, r \in Receipts : StartSend(e, r)
  <2>1. PICK e \in Dispatchers, r \in Receipts : StartSend(e, r)
    BY <1>5
  <2>2. disp' = [disp EXCEPT ![e] = [disp[e] EXCEPT !.stage = "send", !.at = r]]
    BY <2>1 DEF StartSend, TypeOK
  <2>3. e # d
    BY <2>2 DEF TypeOK, Dispatcher
  <2>4. QED
    BY <1>1, <2>2, <2>3 DEF TypeOK
<1>6. CASE \E e \in Dispatchers : Mark(e)
  <2>1. PICK e \in Dispatchers : Mark(e)
    BY <1>6
  <2> DEFINE r == disp[e].at
             x == [disp[e] EXCEPT !.batch = @ \ {r}]
  <2>2. r \in Receipts
    BY <2>1 DEF Mark, TypeOK
  <2>3. x \in Dispatcher
    BY <2>1, <2>2, DispatcherUpdates DEF TypeOK
  <2>4. disp' = [disp EXCEPT ![e] = Resume(x)]
    BY <2>1 DEF Mark
  <2> HIDE DEF x
  <2>5. QED
    BY <1>1, <2>3, <2>4, ResumeType DEF TypeOK
<1>7. CASE \E e \in Dispatchers : disp' = [disp EXCEPT ![e] = Idle]
  BY <1>1, <1>7 DEF Idle, TypeOK
<1>8. CASE disp' = disp
  BY <1>1, <1>8
<1>9. QED
  BY <1>2, <1>3, <1>4, <1>5, <1>6, <1>7, <1>8
  DEF Next, DispatchStep, Enqueue, ResolveRetry, ResolveMarkSent, StartSendLost, MarkLost, Crash, Tick, vars

-----------------------------------------------------------------------------
(* Each action takes the step of ReceiptDelivery it stands for, or none.    *)
Stutters == UNCHANGED <<[r \in Receipts |-> Delivery(row[r])], [r \in Receipts |-> InFlight(r)], accepted>>

LEMMA Quiet ==
    ASSUME \A r \in Receipts : Delivery(row'[r]) = Delivery(row[r]),
           \A r \in Receipts : InFlight(r)' = InFlight(r),
           accepted' = accepted
    PROVE  Stutters
BY DEF Stutters

LEMMA EnqueueQueues ==
    ASSUME TypeOK, NEW r \in Receipts, Enqueue(r)
    PROVE  Promise!Queue(r)
<1>1. /\ row[r].status = "absent" /\ row'[r].status = "pending"
      /\ \A s \in Receipts \ {r} : row'[s] = row[s]
  BY DEF Enqueue, TypeOK, Row
<1>2. \A s \in Receipts : InFlight(s)' = InFlight(s)
  BY DEF Enqueue, InFlight
<1>3. accepted' = accepted
  BY DEF Enqueue
<1>4. QED
  BY <1>1, <1>2, <1>3 DEF Promise!Queue, Delivery

LEMMA ResolvesSettleOrPutBack ==
    ASSUME TypeOK, NEW r \in Receipts, ResolveRetry(r) \/ ResolveMarkSent(r)
    PROVE  Promise!PutBack(r) \/ Promise!Settle(r)
<1>1. row[r].status = "unknown" /\ \A s \in Receipts \ {r} : row'[s] = row[s]
  BY DEF ResolveRetry, ResolveMarkSent, TypeOK
<1>2. \A s \in Receipts : InFlight(s)' = InFlight(s)
  BY DEF ResolveRetry, ResolveMarkSent, InFlight
<1>3. accepted' = accepted
  BY DEF ResolveRetry, ResolveMarkSent
<1>4. CASE ResolveRetry(r)
  <2>1. row'[r].status = "failed"
    BY <1>4 DEF ResolveRetry, TypeOK, Row
  <2>2. QED
    BY <1>1, <1>2, <1>3, <2>1 DEF Promise!PutBack, Delivery
<1>5. CASE ResolveMarkSent(r)
  <2>1. row'[r].status = "sent"
    BY <1>5 DEF ResolveMarkSent, TypeOK, Row
  <2>2. QED
    BY <1>1, <1>2, <1>3, <2>1 DEF Promise!Settle, Delivery
<1>6. QED
  BY <1>4, <1>5

(* A claim starts no transmission, but puts the rows whose transmission has *)
(* outlived its lease in doubt.                                             *)
LEMMA ClaimDoubts ==
    ASSUME TypeOK, NEW d \in Dispatchers, NEW c \in ClaimIds,
           NEW keys \in SUBSET Receipts, Claim(d, c, keys)
    PROVE  \E batch \in SUBSET Receipts : Promise!Doubt(batch)
<1> DEFINE batch == {r \in Receipts : row[r].status = "sending" /\ row'[r].status = "unknown"}
<1>1. /\ disp[d].stage = "idle" /\ disp'[d].stage \in {"idle", "batch"}
      /\ \A e \in Dispatchers \ {d} : disp'[e] = disp[e]
  BY ClaimDisp DEF Claim
<1>2. \A r \in Receipts : InFlight(r)' = InFlight(r)
  BY <1>1 DEF InFlight
<1>3. accepted' = accepted
  BY DEF Claim
<1>4. ASSUME NEW r \in Receipts
      PROVE  Delivery(row'[r]) = IF r \in batch THEN "doubted" ELSE Delivery(row[r])
  BY ClaimStatus DEF Delivery
<1>5. \A r \in batch : Delivery(row[r]) = "owed"
  BY DEF Delivery
<1>6. Promise!Doubt(batch)
  BY <1>2, <1>3, <1>4, <1>5 DEF Promise!Doubt
<1>7. QED
  BY <1>6

LEMMA StartSendCharges ==
    ASSUME TypeOK, NEW d \in Dispatchers, NEW r \in Receipts, StartSend(d, r)
    PROVE  Promise!Charge(d, {r})
<1>1. /\ disp[d].stage = "batch" /\ disp'[d].stage = "send" /\ disp'[d].at = r
      /\ \A e \in Dispatchers \ {d} : disp'[e] = disp[e]
  BY DEF StartSend, TypeOK, Dispatcher
<1>2. /\ row[r].status = "claimed" /\ row'[r].status = "sending"
      /\ \A s \in Receipts \ {r} : row'[s] = row[s]
  BY DEF StartSend, Holds, TypeOK, Row
<1>3. \A s \in Receipts : Delivery(row'[s]) = Delivery(row[s])
  BY <1>2 DEF Delivery
<1>4. /\ d \notin InFlight(r)
      /\ \A s \in Receipts : InFlight(s)' = IF s \in {r} THEN InFlight(s) \cup {d} ELSE InFlight(s)
  BY <1>1 DEF InFlight
<1>5. Delivery(row[r]) = "owed" /\ accepted' = accepted
  BY <1>2 DEF Delivery, StartSend
<1>6. QED
  BY <1>3, <1>4, <1>5 DEF Promise!Charge

(* A dispatcher that is done sending, or dies, is released.                 *)
LEMMA EndSendReleases ==
    ASSUME TypeOK, NEW d \in Dispatchers, NEW through \in SUBSET {disp[d].at},
           disp[d].stage = "send", disp'[d].stage # "send",
           \A e \in Dispatchers \ {d} : disp'[e] = disp[e],
           row' = row,
           accepted' = [r \in Receipts |-> IF r \in through THEN accepted[r] + 1 ELSE accepted[r]]
    PROVE  Promise!Release(d, {disp[d].at}, through)
<1>1. disp[d].at \in Receipts
  BY DEF TypeOK
<1>2. d \in InFlight(disp[d].at)
  BY DEF InFlight
<1>3. \A s \in Receipts :
        InFlight(s)' = IF s \in {disp[d].at} THEN InFlight(s) \ {d} ELSE InFlight(s)
  BY DEF InFlight
<1>4. QED
  BY <1>1, <1>2, <1>3 DEF Promise!Release

LEMMA DeliverReleases ==
    ASSUME TypeOK, NEW d \in Dispatchers, NEW outcome \in Outcome, NEW reached \in BOOLEAN,
           Deliver(d, outcome, reached)
    PROVE  \E through \in SUBSET {disp[d].at} : Promise!Release(d, {disp[d].at}, through)
<1> DEFINE through == IF reached THEN {disp[d].at} ELSE {}
<1>1. disp[d].stage = "send" /\ row' = row
  BY DEF Deliver
<1>2. disp'[d].stage = "mark" /\ \A e \in Dispatchers \ {d} : disp'[e] = disp[e]
  BY DEF Deliver, TypeOK, Dispatcher
<1>3. accepted' = [r \in Receipts |-> IF r \in through THEN accepted[r] + 1 ELSE accepted[r]]
  BY DEF Deliver, TypeOK
<1>4. through \in SUBSET {disp[d].at}
  OBVIOUS
<1> HIDE DEF through
<1>5. QED
  BY <1>1, <1>2, <1>3, <1>4, EndSendReleases

LEMMA CrashReleases ==
    ASSUME TypeOK, NEW d \in Dispatchers, Crash(d), ~ Stutters
    PROVE  \E through \in SUBSET {disp[d].at} : Promise!Release(d, {disp[d].at}, through)
<1>1. /\ disp' = [disp EXCEPT ![d] = Idle] /\ row' = row
      /\ disp'[d].stage = "idle" /\ \A e \in Dispatchers \ {d} : disp'[e] = disp[e]
  BY DEF Crash, TypeOK, Idle
<1>2. PICK reached \in BOOLEAN :
        /\ reached => disp[d].stage = "send"
        /\ accepted' = IF reached THEN [accepted EXCEPT ![disp[d].at] = @ + 1] ELSE accepted
  BY DEF Crash
<1> DEFINE through == IF reached THEN {disp[d].at} ELSE {}
<1>3. accepted' = [r \in Receipts |-> IF r \in through THEN accepted[r] + 1 ELSE accepted[r]]
  BY <1>2 DEF TypeOK
<1>4. CASE disp[d].stage = "send"
  <2>1. through \in SUBSET {disp[d].at}
    OBVIOUS
  <2> HIDE DEF through
  <2>2. QED
    BY <1>1, <1>3, <1>4, <2>1, EndSendReleases
<1>5. CASE disp[d].stage # "send"
  <2>1. accepted' = accepted
    BY <1>2, <1>5
  <2>2. \A r \in Receipts : InFlight(r)' = InFlight(r)
    BY <1>1, <1>5 DEF InFlight
  <2>3. QED
    BY <1>1, <2>1, <2>2, Quiet
<1>6. QED
  BY <1>4, <1>5

(* A dispatcher that ends its call before or after sending is not charged.  *)
LEMMA EndCallStutters ==
    ASSUME TypeOK, NEW d \in Dispatchers, disp[d].stage \in {"batch", "mark"},
           disp' = [disp EXCEPT ![d] = Idle], UNCHANGED <<row, accepted>>
    PROVE  Stutters
<1>1. disp'[d].stage = "idle" /\ \A e \in Dispatchers \ {d} : disp'[e] = disp[e]
  BY DEF TypeOK, Idle
<1>2. \A r \in Receipts : InFlight(r)' = InFlight(r)
  BY <1>1 DEF InFlight
<1>3. QED
  BY <1>2, Quiet

(* A definite failure is still owed, an unknown outcome is in doubt, and    *)
(* "sent" is settled with an acceptance.                                    *)
LEMMA MarkSettlesOrDoubts ==
    ASSUME TypeOK, Acknowledged, NEW d \in Dispatchers, Mark(d), ~ Stutters
    PROVE  \/ \E r \in Receipts : Promise!Settle(r)
           \/ \E batch \in SUBSET Receipts : Promise!Doubt(batch)
<1> DEFINE r == disp[d].at
<1>1. /\ disp[d].stage = "mark" /\ r \in Receipts /\ disp[d].outcome \in Outcome
      /\ row[r].status = "sending" /\ accepted' = accepted
  BY DEF Mark, Holds, TypeOK
<1>2. row'[r].status = disp[d].outcome /\ \A s \in Receipts \ {r} : row'[s] = row[s]
  BY <1>1, MarkRowType DEF Mark, TypeOK
<1>3. disp'[d].stage # "send" /\ \A e \in Dispatchers \ {d} : disp'[e] = disp[e]
  <2> DEFINE x == [disp[d] EXCEPT !.batch = @ \ {r}]
  <2>1. x \in Dispatcher
    BY <1>1, DispatcherUpdates DEF TypeOK
  <2>2. disp' = [disp EXCEPT ![d] = Resume(x)]
    BY DEF Mark
  <2> HIDE DEF x
  <2>3. QED
    BY <2>1, <2>2, ResumeType DEF TypeOK
<1>4. \A s \in Receipts : InFlight(s)' = InFlight(s)
  BY <1>1, <1>3 DEF InFlight
<1> HIDE DEF r
<1>5. CASE disp[d].outcome = "sent"
  <2>1. accepted[r] > 0
    BY <1>1, <1>5 DEF Acknowledged, r
  <2>2. QED
    BY <1>1, <1>2, <1>4, <1>5, <2>1 DEF Promise!Settle, Delivery
<1>6. CASE disp[d].outcome = "unknown"
  <2>1. \A s \in Receipts : Delivery(row'[s]) = IF s \in {r} THEN "doubted" ELSE Delivery(row[s])
    BY <1>2, <1>6 DEF Delivery
  <2>2. Delivery(row[r]) = "owed"
    BY <1>1 DEF Delivery
  <2>3. Promise!Doubt({r})
    BY <1>1, <1>4, <2>1, <2>2 DEF Promise!Doubt
  <2>4. QED
    BY <1>1, <2>3
<1>7. CASE disp[d].outcome = "failed"
  <2>1. \A s \in Receipts : Delivery(row'[s]) = Delivery(row[s])
    BY <1>1, <1>2, <1>7 DEF Delivery
  <2>2. QED
    BY <1>1, <1>4, <2>1, Quiet
<1>8. QED
  BY <1>1, <1>5, <1>6, <1>7 DEF Outcome

LEMMA TickStutters == ASSUME TypeOK, Tick PROVE Stutters
<1>1. \A r \in Receipts : row'[r].status = row[r].status
  BY AgedType DEF Tick, TypeOK
<1>2. \A r \in Receipts : InFlight(r)' = InFlight(r) /\ Delivery(row'[r]) = Delivery(row[r])
  BY <1>1 DEF Tick, InFlight, Delivery
<1>3. QED
  BY <1>2, Quiet DEF Tick

LEMMA EveryStep == TypeOK /\ Acknowledged /\ [Next]_vars => Promise!Next \/ Stutters
<1> SUFFICES ASSUME TypeOK, Acknowledged, [Next]_vars, ~ Stutters
             PROVE  Promise!Next
  OBVIOUS
<1>1. ASSUME NEW r \in Receipts, Enqueue(r) \/ ResolveRetry(r) \/ ResolveMarkSent(r)
      PROVE  Promise!Next
  BY <1>1, EnqueueQueues, ResolvesSettleOrPutBack DEF Promise!Next
<1>2. ASSUME NEW d \in Dispatchers, ClaimAny(d)
      PROVE  Promise!Next
  <2>1. PICK c \in ClaimIds, keys \in SUBSET Receipts : Claim(d, c, keys)
    BY <1>2 DEF ClaimAny
  <2>2. QED
    BY <2>1, ClaimDoubts DEF Promise!Next
<1>3. ASSUME NEW d \in Dispatchers, NEW r \in Receipts, StartSend(d, r)
      PROVE  Promise!Next
  <2>1. Promise!Charge(d, {r}) /\ {r} \in SUBSET Receipts
    BY <1>3, StartSendCharges
  <2>2. QED
    BY <2>1 DEF Promise!Next
<1>4. ASSUME NEW d \in Dispatchers, NEW r \in Receipts, StartSendLost(d, r)
      PROVE  Promise!Next
  BY <1>4, EndCallStutters DEF StartSendLost
<1>5. ASSUME NEW d \in Dispatchers,
             \E through \in SUBSET {disp[d].at} : Promise!Release(d, {disp[d].at}, through),
             disp[d].at \in Receipts
      PROVE  Promise!Next
  <2>1. {disp[d].at} \in SUBSET Receipts
    BY <1>5
  <2>2. QED
    BY <1>5, <2>1 DEF Promise!Next
<1>6. ASSUME NEW d \in Dispatchers, NEW outcome \in Outcome, NEW reached \in BOOLEAN,
             Deliver(d, outcome, reached)
      PROVE  Promise!Next
  BY <1>5, <1>6, DeliverReleases DEF Deliver, TypeOK
<1>7. ASSUME NEW d \in Dispatchers, Crash(d)
      PROVE  Promise!Next
  <2>1. CASE disp[d].stage = "send"
    BY <1>5, <1>7, <2>1, CrashReleases DEF TypeOK
  <2>2. CASE disp[d].stage # "send"
    <3>1. accepted' = accepted /\ row' = row /\ disp' = [disp EXCEPT ![d] = Idle]
      BY <1>7, <2>2 DEF Crash
    <3>2. disp'[d].stage = "idle" /\ \A e \in Dispatchers \ {d} : disp'[e] = disp[e]
      BY <3>1 DEF TypeOK, Idle
    <3>3. \A r \in Receipts : InFlight(r)' = InFlight(r)
      BY <2>2, <3>2 DEF InFlight
    <3>4. QED
      BY <3>1, <3>3, Quiet
  <2>3. QED
    BY <2>1, <2>2
<1>8. ASSUME NEW d \in Dispatchers, Mark(d)
      PROVE  Promise!Next
  BY <1>8, MarkSettlesOrDoubts DEF Promise!Next
<1>9. ASSUME NEW d \in Dispatchers, MarkLost(d)
      PROVE  Promise!Next
  BY <1>9, EndCallStutters DEF MarkLost
<1>10. CASE Tick
  BY <1>10, TickStutters
<1>11. CASE UNCHANGED vars
  BY <1>11, Quiet DEF vars, InFlight, Delivery
<1>12. QED
  BY <1>1, <1>2, <1>3, <1>4, <1>6, <1>7, <1>8, <1>9, <1>10, <1>11 DEF Next, DispatchStep

LEMMA InitDelivery == Init => Promise!Init /\ Acknowledged
<1> SUFFICES ASSUME Init
             PROVE  Promise!Init /\ Acknowledged
  OBVIOUS
<1>1. \A r \in Receipts : Delivery(row[r]) = "none" /\ InFlight(r) = {} /\ accepted = [s \in Receipts |-> 0]
  BY DEF Init, Delivery, InFlight, Idle
<1>2. QED
  BY <1>1 DEF Promise!Init, Init, Acknowledged, Idle

(* The outbox implements what ReceiptDelivery promises, for any number of   *)
(* receipts and dispatchers: a row is settled for good, and only by the     *)
(* channel's acceptance or by an operator who was asked.                    *)
THEOREM Implements == Spec => Delivers
<1>1. Init => Promise!Init /\ TypeOK /\ Acknowledged
  BY InitDelivery, InitTypeOK
<1>2. TypeOK /\ Acknowledged /\ [Next]_vars => TypeOK' /\ Acknowledged'
  BY NextTypeOK, NextAcknowledged
<1>3. TypeOK /\ Acknowledged /\ [Next]_vars => [Promise!Next]_Promise!vars
  BY EveryStep DEF Stutters, Promise!vars
<1>4. QED
  BY <1>1, <1>2, <1>3, PTL DEF Spec, Delivers, Promise!Spec
=============================================================================

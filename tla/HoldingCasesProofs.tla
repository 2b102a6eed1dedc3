--------------------------- MODULE HoldingCasesProofs ---------------------------
(***************************************************************************)
(* What is proved of the holding cases, for any workers, operators and     *)
(* events, and any number of attempts, commands and faults.                *)
(*                                                                         *)
(* A case is changed in two ways: by an observation of the sheet, at any   *)
(* time, by any process (Observed says what it may do to a case), or by    *)
(* the owner of the locks.  What the owner of the locks has in hand        *)
(* (Tried, Settling) survives every observation, and no other step.        *)
(***************************************************************************)
EXTENDS HoldingCases, WellFoundedInduction, TLAPS

USE DEF Procs

(* What an observation of the sheet may do to a case: leave it; open one    *)
(* that is closed, without an attempt; close one, keeping what it says of   *)
(* its attempt, but not an automatic write whose outcome is not known.      *)
Observed(c, d) ==
    \/ d = c
    \/ /\ c.state \in Reopenable \cup {"absent"}
       /\ d.state \in Waiting \cup {"superseded", "resolved_external"}
       /\ d.state # "failed_retryable" /\ d.attempt = None /\ ~ d.auto /\ ~ d.sent
    \/ /\ c.state \in Supersedeable /\ ~ (c.state \in Uncertain /\ c.auto)
       /\ d.state = "superseded" \/ (d.state = "resolved_external" /\ c.state \in Waiting)
       /\ d.attempt = c.attempt /\ d.sent = c.sent /\ ~ d.auto

Observes(cs, ds) == \A k \in Keys : Observed(cs[k], ds[k])

(* The tables between two steps: an attempt was handed out, what was called *)
(* had been marked, a case to retry was not called, and only a proposal for *)
(* an empty name is written automatically.                                  *)
Recorded(cs, n, ran) ==
    \A k \in Keys :
        /\ cs[k].attempt # None => cs[k].attempt \in 1 .. n
        /\ cs[k].attempt \in ran => cs[k].sent
        /\ cs[k].state = "failed_retryable" => cs[k].attempt \notin ran
        /\ cs[k].auto => Kind(k) = "missing_completable"

Seeing == {"plan", "replan", "name", "prepare", "mark", "compare", "send", "readback", "finalize",
           "complete", "materialize", "absent", "settle"}
Trying == {"mark", "compare", "send", "readback", "finalize"}

(* The process of an attempt is alone at it: the case is being applied or   *)
(* an observation has superseded it, and it is marked before the call.      *)
Tried(x, cs, n) ==
    /\ x.attempt \in 1 .. n
    /\ \A k \in Keys : cs[k].attempt = x.attempt =>
         /\ k = x.key
         /\ cs[k].state \in {"applying", "superseded"}
         /\ x.pc # "mark" => cs[k].sent

(* A recovery has decided, for an attempt that nobody calls meanwhile.      *)
Settling(x, cs, ran) ==
    /\ x.key \in Keys /\ x.attempt \in Attempts
    /\ x.got \in {"superseded", "resolved_accept", "apply_outcome_unknown", "failed_retryable"}
    /\ x.got = "failed_retryable" => x.attempt \notin ran
    /\ cs[x.key].attempt = x.attempt => cs[x.key].state # "resolved_keep"

(* What a process knows of the sheet and of its case, whatever others do.   *)
Knows(x) ==
    /\ x.pc \in Seeing \/ (x.pc = "lock" /\ x.op = "event") => x.seen \in Row
    /\ x.pc = "name" => Candidate(x.seen)
    /\ x.pc \in Trying \cup {"prepare", "settle"} => x.key \in Keys
    /\ x.op \in {"keep", "accept", "recover"} => x.key \in Keys
    /\ x.op = "keep" => Kind(x.key) = "conflict"
    /\ x.pc \in Trying \cup {"prepare"} /\ x.op = "event" => Kind(x.key) = "missing_completable"
    /\ x.pc = "settle" => x.op = "keep"
    /\ x.pc = "reread" => x.op \in {"event", "agent"}
    /\ x.pc \in {"event", "plan", "replan", "fresh", "name", "complete", "fail"} => x.op = "event"
    /\ x.op = "event" /\ x.pc # "idle" => x.batch # {}

Hand(x, cs, n, ran) ==
    /\ Knows(x)
    /\ x.pc \in Trying => Tried(x, cs, n)
    /\ x.pc = "recovered" => Settling(x, cs, ran)

Hands == \A p \in Procs : Hand(proc[p], cases, tries, called)

IInv == TypeOK /\ Recorded(cases, tries, called) /\ Hands

-----------------------------------------------------------------------------
LEMMA FoundKeys ==
    ASSUME NEW x \in Row, NEW quoted \in BOOLEAN
    PROVE  /\ Found(x, quoted) \subseteq Keys
           /\ Candidate(x) /\ quoted => \E k \in Found(x, quoted) : TRUE
           /\ Candidate(x) => \A k \in Found(x, TRUE) : Kind(k) = "missing_completable"
<1>1. Found(x, quoted) \subseteq Keys
  BY DEF Keys
<1>2. Candidate(x) => Found(x, TRUE) = {[ident |-> x.ident, current |-> x.value, proposed |-> "quote"]}
  BY DEF Candidate, Found
<1>3. Candidate(x) => \A k \in Found(x, TRUE) : k.current = "empty" /\ k.proposed = "quote"
  <2>1. SUFFICES ASSUME Candidate(x), NEW k \in Found(x, TRUE) PROVE k.current = "empty" /\ k.proposed = "quote"
    OBVIOUS
  <2>2. k = [ident |-> x.ident, current |-> x.value, proposed |-> "quote"]
    BY <1>2, <2>1
  <2>3. QED
    BY <2>1, <2>2 DEF Candidate
<1>4. QED
  BY <1>1, <1>2, <1>3 DEF Kind

LEMMA MaterializeObserves ==
    ASSUME NEW cs \in [Keys -> Case], NEW k \in Keys
    PROVE  Materialize(cs, k) \in [Keys -> Case] /\ Observes(cs, Materialize(cs, k))
<1> DEFINE old == {j \in Keys \ {k} : cs[j].state \in Supersedeable}
           opened == [Blank EXCEPT !.state = FirstState(k)]
           ds == [j \in Keys |->
                    CASE j \in old -> [cs[j] EXCEPT !.state = "superseded", !.auto = FALSE]
                      [] j = k /\ cs[k].state \in Reopenable \cup {"absent"} -> opened
                      [] OTHER -> cs[j]]
<1>1. Materialize(cs, k) = IF HeldByAutomatic(cs, old) THEN cs ELSE ds
  BY DEF Materialize
<1>2. /\ opened \in Case /\ opened.attempt = None /\ ~ opened.auto /\ ~ opened.sent
      /\ opened.state \in Waiting \ {"failed_retryable"}
  BY DEF Blank, FirstState, Case, Waiting, Supersedeable, Open
<1> HIDE DEF opened
<1>3. ASSUME NEW j \in Keys, ~ HeldByAutomatic(cs, old)
      PROVE  ds[j] \in Case /\ Observed(cs[j], ds[j])
  <2>1. CASE j \in old
    <3>1. ds[j] = [cs[j] EXCEPT !.state = "superseded", !.auto = FALSE]
      BY <2>1
    <3>2. cs[j] \in Case /\ cs[j].state \in Supersedeable /\ ~ (cs[j].state \in Uncertain /\ cs[j].auto)
      BY <1>3, <2>1 DEF HeldByAutomatic
    <3> HIDE DEF ds
    <3>3. ds[j] \in Case /\ ds[j].state = "superseded" /\ ds[j].attempt = cs[j].attempt
          /\ ds[j].sent = cs[j].sent /\ ~ ds[j].auto
      BY <3>1, <3>2 DEF Case, Reopenable
    <3>4. QED
      BY <3>2, <3>3 DEF Observed
  <2>2. CASE j = k /\ cs[k].state \in Reopenable \cup {"absent"}
    <3>1. ds[j] = opened
      BY <2>2
    <3>2. QED
      BY <1>2, <2>2, <3>1 DEF Observed
  <2>3. CASE j \notin old /\ ~ (j = k /\ cs[k].state \in Reopenable \cup {"absent"})
    <3>1. ds[j] = cs[j]
      BY <2>3
    <3>2. QED
      BY <3>1 DEF Observed
  <2>4. QED
    BY <2>1, <2>2, <2>3
<1>4. \A j \in Keys : Observed(cs[j], cs[j])
  BY DEF Observed
<1>5. CASE HeldByAutomatic(cs, old)
  BY <1>1, <1>4, <1>5 DEF Observes
<1>6. CASE ~ HeldByAutomatic(cs, old)
  <2>1. ds \in [Keys -> Case]
    BY <1>3, <1>6
  <2>2. Observes(cs, ds)
    BY <1>3, <1>6 DEF Observes
  <2>3. QED
    BY <1>1, <1>6, <2>1, <2>2
<1>7. QED
  BY <1>5, <1>6

LEMMA MaterializeFoundObserves ==
    ASSUME NEW cs \in [Keys -> Case], NEW found \in SUBSET Keys
    PROVE  MaterializeFound(cs, found) \in [Keys -> Case] /\ Observes(cs, MaterializeFound(cs, found))
<1>1. CASE found = {}
  BY <1>1 DEF MaterializeFound, Observes, Observed
<1>2. CASE found # {}
  <2> DEFINE k == CHOOSE k \in found : TRUE
  <2>1. k \in Keys
    BY <1>2
  <2>2. MaterializeFound(cs, found) = Materialize(cs, k)
    BY <1>2 DEF MaterializeFound
  <2> HIDE DEF k
  <2>3. QED
    BY <2>1, <2>2, MaterializeObserves
<1>3. QED
  BY <1>1, <1>2

(* To close what an observation leaves is part of the observation.          *)
LEMMA ResolveObserves ==
    ASSUME NEW cs \in [Keys -> Case], NEW ds \in [Keys -> Case], Observes(cs, ds),
           NEW active, NEW ident
    PROVE  ResolveAbsent(ds, active, ident) \in [Keys -> Case] /\ Observes(cs, ResolveAbsent(ds, active, ident))
<1> DEFINE es == ResolveAbsent(ds, active, ident)
<1>1. ASSUME NEW k \in Keys
      PROVE  es[k] \in Case /\ Observed(cs[k], es[k])
  <2>1. Observed(cs[k], ds[k]) /\ ds[k] \in Case /\ cs[k] \in Case
    BY DEF Observes
  <2>2. CASE ~ (ds[k].state \in Waiting /\ k \notin active)
    <3>1. es[k] = ds[k]
      BY <2>2 DEF ResolveAbsent
    <3>2. QED
      BY <2>1, <3>1
  <2>3. CASE ds[k].state \in Waiting /\ k \notin active
    <3> DEFINE state == IF k.ident = ident THEN "resolved_external" ELSE "superseded"
    <3>1. es[k] = [ds[k] EXCEPT !.state = state, !.auto = FALSE]
      BY <2>3 DEF ResolveAbsent
    <3>2. state \in {"resolved_external", "superseded"}
      OBVIOUS
    <3> HIDE DEF es, state
    <3>3. /\ es[k] \in Case /\ es[k].state = state /\ es[k].attempt = ds[k].attempt
          /\ es[k].sent = ds[k].sent /\ ~ es[k].auto
      BY <2>1, <3>1, <3>2 DEF Case, Reopenable
    <3>4. CASE ds[k] = cs[k]
      BY <2>3, <3>2, <3>3, <3>4 DEF Observed, Waiting, Uncertain, Supersedeable, Open
    <3>5. CASE ds[k] # cs[k]
      BY <2>1, <2>3, <3>2, <3>3, <3>5 DEF Observed, Waiting
    <3>6. QED
      BY <3>4, <3>5
  <2>4. QED
    BY <2>2, <2>3
<1>2. es = [k \in Keys |-> es[k]]
  BY DEF ResolveAbsent
<1> HIDE DEF es
<1>3. es \in [Keys -> Case] /\ Observes(cs, es)
  BY <1>1, <1>2 DEF Observes
<1>4. QED
  BY <1>3 DEF es

LEMMA RecordedOn ==
    ASSUME NEW cs \in [Keys -> Case], NEW ds \in [Keys -> Case], Observes(cs, ds),
           NEW n \in Nat, NEW ran \in SUBSET (1 .. n), Recorded(cs, n, ran)
    PROVE  Recorded(ds, n, ran)
<1>1. None \notin ran
  <2>1. \A i \in 1 .. n : i \in Nat
    OBVIOUS
  <2>2. QED
    BY <2>1, NoneAssumption
<1>2. SUFFICES ASSUME NEW k \in Keys
               PROVE  /\ ds[k].attempt # None => ds[k].attempt \in 1 .. n
                      /\ ds[k].attempt \in ran => ds[k].sent
                      /\ ds[k].state = "failed_retryable" => ds[k].attempt \notin ran
                      /\ ds[k].auto => Kind(k) = "missing_completable"
  BY DEF Recorded
<1>3. Observed(cs[k], ds[k])
  BY DEF Observes
<1>4. QED
  BY <1>1, <1>3 DEF Observed, Recorded

LEMMA HandOn ==
    ASSUME NEW cs \in [Keys -> Case], NEW ds \in [Keys -> Case], Observes(cs, ds),
           NEW n \in Nat, NEW ran, NEW x, Hand(x, cs, n, ran)
    PROVE  Hand(x, ds, n, ran)
<1>1. ASSUME x.pc \in Trying
      PROVE  Tried(x, ds, n)
  <2>1. Tried(x, cs, n) /\ x.attempt # None
    BY <1>1, NoneAssumption DEF Hand, Tried
  <2>2. SUFFICES ASSUME NEW k \in Keys, ds[k].attempt = x.attempt
                 PROVE  k = x.key /\ ds[k].state \in {"applying", "superseded"} /\ (x.pc # "mark" => ds[k].sent)
    BY <2>1 DEF Tried
  <2>3. Observed(cs[k], ds[k])
    BY DEF Observes
  <2>4. cs[k].attempt = x.attempt => k = x.key /\ cs[k].state \in {"applying", "superseded"} /\ (x.pc # "mark" => cs[k].sent)
    BY <2>1 DEF Tried
  <2>5. QED
    BY <2>1, <2>2, <2>3, <2>4 DEF Observed, Waiting
<1>2. ASSUME x.pc = "recovered"
      PROVE  Settling(x, ds, ran)
  <2>1. Settling(x, cs, ran) /\ x.attempt # None
    BY <1>2, NoneAssumption DEF Hand, Settling, Attempts
  <2>2. Observed(cs[x.key], ds[x.key])
    BY <2>1 DEF Observes, Settling
  <2>3. QED
    BY <2>1, <2>2 DEF Settling, Observed
<1>3. QED
  BY <1>1, <1>2 DEF Hand

-----------------------------------------------------------------------------
(* What a step owes to the others.                                          *)
Takes(p) == lock' = lock \/ (lock \in {None, p} /\ lock' \in {None, p})

LEMMA Moves ==
    ASSUME IInv, NEW p \in Procs, NEW x \in Process,
           proc' = [proc EXCEPT ![p] = x],
           sheet' \in Row, cases' \in [Keys -> Case], inbox' \in [Events -> Entry],
           \A e \in Events : (inbox'[e].claim # None) = (inbox'[e].state = "claimed"),
           tries' \in 0 .. MaxAttempts, wire' \subseteq called', called' \subseteq 1 .. tries',
           Takes(p), (lock' = p) = UnderLock(x),
           UnderLock(proc[p]) \/ (tries' = tries /\ called' = called /\ Observes(cases, cases')),
           Recorded(cases', tries', called'), Hand(x, cases', tries', called')
    PROVE  IInv'
<1>1. /\ proc' \in [Procs -> Process] /\ proc'[p] = x
      /\ \A q \in Procs \ {p} : proc'[q] = proc[q]
  BY DEF IInv, TypeOK, Shapes
<1>2. lock' \in Procs \cup {None} /\ \A q \in Procs \ {p} : (lock' = q) = (lock = q)
  BY NoneAssumption DEF Takes, IInv, TypeOK, Shapes
<1>3. Owners'
  BY <1>1, <1>2 DEF IInv, TypeOK, Owners
<1>4. TypeOK'
  BY <1>1, <1>2, <1>3 DEF TypeOK, Shapes
<1>5. ASSUME NEW q \in Procs, q # p
      PROVE  Hand(proc[q], cases', tries', called')
  <2>1. Hand(proc[q], cases, tries, called) /\ tries \in Nat /\ cases \in [Keys -> Case]
    BY BoundAssumption DEF IInv, Hands, TypeOK, Shapes
  <2>2. CASE UnderLock(proc[p])
    <3>1. ~ UnderLock(proc[q])
      BY <1>5, <2>2 DEF IInv, TypeOK, Owners
    <3>2. QED
      BY <2>1, <3>1 DEF Hand, UnderLock, Locked, Trying
  <2>3. CASE ~ UnderLock(proc[p])
    BY <2>1, <2>3, HandOn
  <2>4. QED
    BY <2>2, <2>3
<1>6. QED
  BY <1>1, <1>4, <1>5 DEF IInv, Hands

(* A step that changes neither the tables nor what was called.              *)
LEMMA Turns ==
    ASSUME IInv, NEW p \in Procs, NEW x \in Process,
           proc' = [proc EXCEPT ![p] = x],
           UNCHANGED <<sheet, cases, inbox, tries, called, wire>>,
           Takes(p), (lock' = p) = UnderLock(x),
           Hand(x, cases, tries, called)
    PROVE  IInv'
<1>1. /\ sheet' \in Row /\ cases' \in [Keys -> Case] /\ inbox' \in [Events -> Entry]
      /\ \A e \in Events : (inbox'[e].claim # None) = (inbox'[e].state = "claimed")
      /\ tries' \in 0 .. MaxAttempts /\ wire' \subseteq called' /\ called' \subseteq 1 .. tries'
      /\ Recorded(cases', tries', called')
      /\ Observes(cases, cases')
  BY DEF IInv, TypeOK, Shapes, Observes, Observed
<1>2. QED
  BY <1>1, Moves

LEMMA InProcess ==
    ASSUME IInv, NEW p \in Procs
    PROVE  /\ proc[p] \in Process /\ Hand(proc[p], cases, tries, called) /\ Knows(proc[p])
           /\ (lock = p) = UnderLock(proc[p])
           /\ sheet \in Row /\ cases \in [Keys -> Case] /\ inbox \in [Events -> Entry]
           /\ \A e \in Events : (inbox[e].claim # None) = (inbox[e].state = "claimed")
           /\ tries \in Nat /\ tries \in 0 .. MaxAttempts
           /\ wire \subseteq called /\ called \subseteq 1 .. tries
           /\ Recorded(cases, tries, called)
BY BoundAssumption DEF IInv, TypeOK, Shapes, Owners, Hands, Hand

LEMMA IdleHand ==
    ASSUME NEW cs, NEW n, NEW ran
    PROVE  Idle \in Process /\ Hand(Idle, cs, n, ran) /\ ~ UnderLock(Idle)
<1>1. Idle \in Process /\ Idle.pc = "idle" /\ Idle.op = "none"
  BY DEF Idle, Process, Steps, Locked
<1>2. QED
  BY <1>1 DEF Hand, Knows, UnderLock, Locked, Seeing, Trying

-----------------------------------------------------------------------------
(* The world and the inbox.                                                 *)

(* What happens outside the processes changes no case.                      *)
LEMMA OutsideKeeps ==
    ASSUME IInv,
           \/ \E x \in Row : Edit(x)
           \/ \E a \in Attempts : Land(a)
           \/ \E e \in Events : Accept(e) \/ RetryDue(e) \/ LeaseRunsOut(e)
    PROVE  IInv'
<1>1. UNCHANGED <<cases, proc, lock, tries, called>> /\ wire' \subseteq wire
  BY DEF Edit, Land, Accept, RetryDue, LeaseRunsOut
<1>2. sheet' \in Row
  BY DEF Edit, Land, Accept, RetryDue, LeaseRunsOut, IInv, TypeOK, Shapes, Row, Values
<1>3. /\ inbox' \in [Events -> Entry]
      /\ \A e \in Events : (inbox'[e].claim # None) = (inbox'[e].state = "claimed")
  <2>1. inbox \in [Events -> Entry] /\ \A e \in Events : (inbox[e].claim # None) = (inbox[e].state = "claimed")
    BY DEF IInv, TypeOK, Shapes
  <2>2. CASE inbox' = inbox
    BY <2>1, <2>2
  <2>3. CASE \E e \in Events : Accept(e) \/ RetryDue(e) \/ LeaseRunsOut(e)
    <3>1. PICK e \in Events : Accept(e) \/ RetryDue(e) \/ LeaseRunsOut(e)
      BY <2>3
    <3>2. PICK entry \in Entry : /\ inbox' = [inbox EXCEPT ![e] = entry]
                                 /\ (entry.claim # None) = (entry.state = "claimed")
      <4>1. CASE Accept(e)
        <5> DEFINE entry == [inbox[e] EXCEPT !.state = "pending"]
        <5>1. inbox' = [inbox EXCEPT ![e] = entry] /\ inbox[e].state = "absent"
          BY <4>1 DEF Accept
        <5>2. entry \in Entry /\ entry.claim = inbox[e].claim /\ entry.state = "pending"
          BY <2>1 DEF Entry
        <5> HIDE DEF entry
        <5>3. QED
          BY <2>1, <5>1, <5>2
      <4>2. CASE RetryDue(e)
        <5> DEFINE entry == [inbox[e] EXCEPT !.due = TRUE]
        <5>1. inbox' = [inbox EXCEPT ![e] = entry]
          BY <4>2 DEF RetryDue
        <5>2. entry \in Entry /\ entry.claim = inbox[e].claim /\ entry.state = inbox[e].state
          BY <2>1 DEF Entry
        <5> HIDE DEF entry
        <5>3. QED
          BY <2>1, <5>1, <5>2
      <4>3. CASE LeaseRunsOut(e)
        <5> DEFINE entry == [inbox[e] EXCEPT !.late = TRUE]
        <5>1. inbox' = [inbox EXCEPT ![e] = entry]
          BY <4>3 DEF LeaseRunsOut
        <5>2. entry \in Entry /\ entry.claim = inbox[e].claim /\ entry.state = inbox[e].state
          BY <2>1 DEF Entry
        <5> HIDE DEF entry
        <5>3. QED
          BY <2>1, <5>1, <5>2
      <4>4. QED
        BY <3>1, <4>1, <4>2, <4>3
    <3>3. QED
      BY <2>1, <3>2
  <2>4. QED
    BY <2>2, <2>3 DEF Edit, Land
<1>4. TypeOK'
  BY <1>1, <1>2, <1>3 DEF IInv, TypeOK, Shapes, Owners
<1>5. QED
  BY <1>1, <1>4 DEF IInv, Hands

(* The events of a batch, and those still in hand when one is settled.      *)
LEMMA RestHand ==
    ASSUME NEW batch \in SUBSET Events, NEW cs, NEW n, NEW ran
    PROVE  LET x == Rest([batch |-> batch])
           IN  x \in Process /\ Hand(x, cs, n, ran) /\ ~ UnderLock(x) /\ x.pc \in {"idle", "event"}
<1> DEFINE pc == IF batch = {} THEN "idle" ELSE "event"
           x == [Idle EXCEPT !.op = "event", !.batch = batch, !.pc = pc]
<1>1. Rest([batch |-> batch]) = x
  BY DEF Rest
<1>2. pc \in {"idle", "event"} /\ (pc = "event" => batch # {})
  OBVIOUS
<1> HIDE DEF pc
<1>3. x \in Process /\ x.pc = pc /\ x.op = "event" /\ x.batch = batch
  BY <1>2 DEF Idle, Process, Steps, Ops, Locked
<1> HIDE DEF x
<1>4. Hand(x, cs, n, ran) /\ ~ UnderLock(x)
  BY <1>2, <1>3 DEF Hand, Knows, UnderLock, Locked, Seeing, Trying
<1>5. QED
  BY <1>1, <1>2, <1>3, <1>4

(* A step of the worker on the inbox.                                       *)
LEMMA InboxMoves ==
    ASSUME IInv, NEW p \in Procs, NEW x \in Process,
           proc' = [proc EXCEPT ![p] = x],
           UNCHANGED <<sheet, cases, lock, tries, called, wire>>,
           ~ UnderLock(proc[p]), ~ UnderLock(x),
           inbox' \in [Events -> Entry],
           \A e \in Events : (inbox'[e].claim # None) = (inbox'[e].state = "claimed"),
           Hand(x, cases, tries, called)
    PROVE  IInv'
<1>1. /\ sheet' \in Row /\ cases' \in [Keys -> Case]
      /\ tries' \in 0 .. MaxAttempts /\ wire' \subseteq called' /\ called' \subseteq 1 .. tries'
      /\ Recorded(cases', tries', called')
  BY DEF IInv, TypeOK, Shapes
<1>2. Observes(cases, cases')
  BY DEF Observes, Observed
<1>3. Takes(p) /\ (lock' = p) = UnderLock(x)
  BY InProcess DEF Takes, UnderLock
<1>4. QED
  BY <1>1, <1>2, <1>3, Moves

LEMMA ClaimEventsKeeps == ASSUME IInv, NEW p \in Workers, ClaimEvents(p) PROVE IInv'
<1> DEFINE swept == [e \in Events |-> Swept(inbox[e])]
           due == {e \in Events : swept[e].state \in {"pending", "failed_retryable"} /\ swept[e].due}
           x == Rest([batch |-> due])
<1>1. inbox \in [Events -> Entry] /\ \A e \in Events : (inbox[e].claim # None) = (inbox[e].state = "claimed")
  BY InProcess
<1>2. ASSUME NEW e \in Events
      PROVE  swept[e] \in Entry /\ (swept[e].claim # None) = (swept[e].state = "claimed")
  BY <1>1 DEF Swept, Entry
<1>3. /\ inbox' = [e \in Events |-> IF e \in due THEN [swept[e] EXCEPT !.state = "claimed", !.claim = p] ELSE swept[e]]
      /\ proc' = [proc EXCEPT ![p] = x] /\ proc[p].pc = "idle"
      /\ UNCHANGED <<sheet, cases, lock, tries, called, wire>>
  BY DEF ClaimEvents, Go
<1>4. x \in Process /\ Hand(x, cases, tries, called) /\ ~ UnderLock(x)
  BY RestHand
<1> HIDE DEF swept, due, x
<1>5. ASSUME NEW e \in Events
      PROVE  inbox'[e] \in Entry /\ (inbox'[e].claim # None) = (inbox'[e].state = "claimed")
  <2>1. CASE e \in due
    <3> DEFINE entry == [swept[e] EXCEPT !.state = "claimed", !.claim = p]
    <3>1. inbox'[e] = entry
      BY <1>3, <2>1
    <3>2. entry \in Entry /\ entry.state = "claimed" /\ entry.claim = p /\ p # None
      BY <1>2, NoneAssumption DEF Entry
    <3> HIDE DEF entry
    <3>3. QED
      BY <3>1, <3>2
  <2>2. CASE e \notin due
    BY <1>2, <1>3, <2>2
  <2>3. QED
    BY <2>1, <2>2
<1>6. inbox' \in [Events -> Entry]
  BY <1>3, <1>5
<1>7. ~ UnderLock(proc[p])
  BY <1>3 DEF UnderLock, Locked
<1>8. QED
  BY <1>3, <1>4, <1>5, <1>6, <1>7, InboxMoves

LEMMA EventReadKeeps == ASSUME IInv, NEW p \in Procs, EventRead(p) PROVE IInv'
<1> DEFINE x == [proc[p] EXCEPT !.pc = "plan", !.seen = sheet]
<1>1. proc[p] \in Process /\ Knows(proc[p]) /\ sheet \in Row /\ proc[p].pc = "event" /\ proc[p].op = "event"
  BY InProcess DEF EventRead, Knows
<1>2. x \in Process /\ x.pc = "plan" /\ x.op = "event" /\ x.batch = proc[p].batch /\ x.seen = sheet
  BY <1>1 DEF Process, Steps
<1>3. proc' = [proc EXCEPT ![p] = x] /\ UNCHANGED <<sheet, cases, inbox, lock, tries, called, wire>>
  BY DEF EventRead, Go
<1> HIDE DEF x
<1>4. Hand(x, cases, tries, called) /\ ~ UnderLock(x) /\ ~ UnderLock(proc[p])
  BY <1>1, <1>2 DEF Hand, Knows, UnderLock, Locked, Seeing, Trying
<1>5. (lock' = p) = UnderLock(x)
  BY <1>3, <1>4, InProcess DEF UnderLock
<1>6. QED
  BY <1>2, <1>3, <1>4, <1>5, Turns DEF Takes

LEMMA EventPlanKeeps == ASSUME IInv, NEW p \in Procs, EventPlan(p) PROVE IInv'
<1>1. /\ proc[p] \in Process /\ Knows(proc[p]) /\ proc[p].pc \in {"plan", "replan"} /\ proc[p].op = "event"
      /\ UNCHANGED <<sheet, cases, inbox, lock, tries, called, wire>>
  BY InProcess DEF EventPlan, Knows
<1>2. PICK x \in Process : /\ proc' = [proc EXCEPT ![p] = x]
                           /\ x.pc \in {"lock", "complete"} /\ x.op = "event"
                           /\ x.batch = proc[p].batch /\ x.seen = proc[p].seen
  <2>1. CASE Go(p, [proc[p] EXCEPT !.pc = "lock"])
    <3> DEFINE z == [proc[p] EXCEPT !.pc = "lock"]
    <3>1. z \in Process /\ z.pc = "lock" /\ z.op = "event" /\ z.batch = proc[p].batch /\ z.seen = proc[p].seen
      BY <1>1 DEF Process, Steps, Locked
    <3>2. proc' = [proc EXCEPT ![p] = z]
      BY <1>1, <2>1 DEF Go
    <3> HIDE DEF z
    <3>3. QED
      BY <1>1, <3>1, <3>2, <2>1
  <2>2. CASE Go(p, [proc[p] EXCEPT !.pc = "complete", !.uncertain = UncertainKeys])
    <3> DEFINE z == [proc[p] EXCEPT !.pc = "complete", !.uncertain = UncertainKeys]
    <3>1. z \in Process /\ z.pc = "complete" /\ z.op = "event" /\ z.batch = proc[p].batch /\ z.seen = proc[p].seen
      BY <1>1 DEF Process, Steps, Locked, UncertainKeys
    <3>2. proc' = [proc EXCEPT ![p] = z]
      BY <1>1, <2>2 DEF Go
    <3> HIDE DEF z
    <3>3. QED
      BY <1>1, <3>1, <3>2, <2>2
  <2>3. QED
    BY <2>1, <2>2 DEF EventPlan
<1>3. Hand(x, cases, tries, called) /\ ~ UnderLock(x) /\ ~ UnderLock(proc[p])
  BY <1>1, <1>2 DEF Hand, Knows, UnderLock, Locked, Seeing, Trying
<1>4. (lock' = p) = UnderLock(x)
  BY <1>1, <1>3, InProcess DEF UnderLock
<1>5. QED
  BY <1>1, <1>2, <1>3, <1>4, Turns DEF Takes

LEMMA RecheckKeeps == ASSUME IInv, NEW p \in Procs, Recheck(p) PROVE IInv'
<1>1. /\ proc[p] \in Process /\ Knows(proc[p]) /\ proc[p].pc = "lock" /\ proc[p].op = "event" /\ lock = None
      /\ UNCHANGED <<sheet, cases, inbox, tries, called, wire>>
  BY InProcess DEF Recheck, Enter
<1>2. PICK x \in Process : /\ proc' = [proc EXCEPT ![p] = x]
                           /\ x.pc \in {"replan", "fresh"} /\ x.op = "event"
                           /\ x.batch = proc[p].batch /\ x.seen = proc[p].seen
                           /\ lock' = IF x.pc = "fresh" THEN p ELSE None
  <2>1. CASE Unlock(p) /\ Go(p, [proc[p] EXCEPT !.pc = "replan"])
    <3> DEFINE z == [proc[p] EXCEPT !.pc = "replan"]
    <3>1. z \in Process /\ z.pc = "replan" /\ z.op = "event" /\ z.batch = proc[p].batch /\ z.seen = proc[p].seen
      BY <1>1 DEF Process, Steps, Locked
    <3>2. proc' = [proc EXCEPT ![p] = z] /\ lock' = None
      BY <1>1, <2>1 DEF Go, Unlock
    <3> HIDE DEF z
    <3>3. QED
      BY <1>1, <3>1, <3>2, <2>1
  <2>2. CASE lock' = p /\ Go(p, [proc[p] EXCEPT !.pc = "fresh"])
    <3> DEFINE z == [proc[p] EXCEPT !.pc = "fresh"]
    <3>1. z \in Process /\ z.pc = "fresh" /\ z.op = "event" /\ z.batch = proc[p].batch /\ z.seen = proc[p].seen
      BY <1>1 DEF Process, Steps, Locked
    <3>2. proc' = [proc EXCEPT ![p] = z]
      BY <1>1, <2>2 DEF Go
    <3> HIDE DEF z
    <3>3. QED
      BY <1>1, <3>1, <3>2, <2>2
  <2>3. QED
    BY <2>1, <2>2 DEF Recheck
<1>3. Hand(x, cases, tries, called) /\ UnderLock(x) = (x.pc = "fresh")
  BY <1>1, <1>2 DEF Hand, Knows, UnderLock, Locked, Seeing, Trying
<1>4. QED
  BY <1>1, <1>2, <1>3, Turns, NoneAssumption DEF Takes

LEMMA FreshReadKeeps == ASSUME IInv, NEW p \in Procs, FreshRead(p) PROVE IInv'
<1>1. /\ proc[p] \in Process /\ Knows(proc[p]) /\ proc[p].pc = "fresh" /\ proc[p].op = "event" /\ lock = p
      /\ UNCHANGED <<sheet, cases, inbox, tries, called, wire>> /\ sheet \in Row
  BY InProcess DEF FreshRead, Knows, UnderLock, Locked
<1>2. PICK x \in Process : /\ proc' = [proc EXCEPT ![p] = x]
                           /\ x.pc \in {"replan", "name"} /\ x.op = "event"
                           /\ x.batch = proc[p].batch /\ x.seen = sheet
                           /\ x.pc = "name" => Candidate(sheet)
                           /\ lock' = IF x.pc = "name" THEN p ELSE None
  <2> DEFINE y == [proc[p] EXCEPT !.seen = sheet]
  <2>1. CASE Candidate(sheet) /\ lock' = lock /\ Go(p, [y EXCEPT !.pc = "name", !.quoted = TRUE])
    <3> DEFINE z == [y EXCEPT !.pc = "name", !.quoted = TRUE]
    <3>1. z \in Process /\ z.pc = "name" /\ z.op = "event" /\ z.batch = proc[p].batch /\ z.seen = sheet
      BY <1>1 DEF Process, Steps, Locked
    <3>2. proc' = [proc EXCEPT ![p] = z]
      BY <1>1, <2>1 DEF Go
    <3> HIDE DEF z
    <3>3. QED
      BY <1>1, <3>1, <3>2, <2>1
  <2>2. CASE Unlock(p) /\ Go(p, [y EXCEPT !.pc = "replan"])
    <3> DEFINE z == [y EXCEPT !.pc = "replan"]
    <3>1. z \in Process /\ z.pc = "replan" /\ z.op = "event" /\ z.batch = proc[p].batch /\ z.seen = sheet
      BY <1>1 DEF Process, Steps, Locked
    <3>2. proc' = [proc EXCEPT ![p] = z] /\ lock' = None
      BY <1>1, <2>2 DEF Go, Unlock
    <3> HIDE DEF z
    <3>3. QED
      BY <1>1, <3>1, <3>2, <2>2
  <2>3. QED
    BY <2>1, <2>2 DEF FreshRead
<1>3. Hand(x, cases, tries, called) /\ UnderLock(x) = (x.pc = "name")
  BY <1>1, <1>2 DEF Hand, Knows, UnderLock, Locked, Seeing, Trying
<1>4. QED
  BY <1>1, <1>2, <1>3, Turns, NoneAssumption DEF Takes

-----------------------------------------------------------------------------
(* Observations of the sheet.                                               *)

LEMMA LeastExists ==
    ASSUME NEW S \in SUBSET Nat, S # {}
    PROVE  \E m \in S : \A n \in S : m <= n
<1> DEFINE R == OpToRel(<, Nat)
<1>1. IsWellFoundedOn(R, Nat)
  BY NatLessThanWellFounded
<1> HIDE DEF R
<1>2. PICK m \in S : \A n \in S : ~ (<<n, m>> \in R)
  BY <1>1, WFMin, Zenon
<1>3. \A a, b \in Nat : a < b => <<a, b>> \in R
  BY DEF R, OpToRel
<1>4. m \in Nat /\ S \subseteq Nat
  OBVIOUS
<1>5. ASSUME NEW n \in S
      PROVE  m <= n
  <2>1. ~ (n < m)
    BY <1>2, <1>3, <1>4, <1>5, Zenon
  <2>2. QED
    BY <1>4, <2>1
<1>6. QED
  BY <1>5

LEMMA InHandIsOfBatch ==
    ASSUME NEW x, x.batch \in SUBSET Events, x.batch # {}
    PROVE  InHand(x) \in x.batch
<1>1. x.batch \in SUBSET Nat
  BY EventsAssumption
<1>2. \E e \in x.batch : \A f \in x.batch : e <= f
  BY <1>1, LeastExists
<1>3. QED
  BY <1>2 DEF InHand

LEMMA Observing ==
    ASSUME IInv, NEW p \in Procs, NEW x \in Process,
           proc' = [proc EXCEPT ![p] = x],
           UNCHANGED <<sheet, tries, called, wire>>,
           cases' \in [Keys -> Case], Observes(cases, cases'),
           inbox' \in [Events -> Entry],
           \A e \in Events : (inbox'[e].claim # None) = (inbox'[e].state = "claimed"),
           Takes(p), (lock' = p) = UnderLock(x),
           Knows(x), x.pc \notin Trying \cup {"recovered"}
    PROVE  IInv'
<1>1. /\ sheet' \in Row /\ tries' \in Nat /\ tries' \in 0 .. MaxAttempts
      /\ wire' \subseteq called' /\ called' \subseteq 1 .. tries'
  BY InProcess
<1>2. Recorded(cases', tries', called')
  <2>1. Recorded(cases, tries, called) /\ tries \in Nat /\ called \in SUBSET (1 .. tries) /\ cases \in [Keys -> Case]
    BY InProcess
  <2>2. QED
    BY <2>1, RecordedOn
<1>3. Hand(x, cases', tries', called')
  BY DEF Hand
<1>4. QED
  BY <1>1, <1>2, <1>3, Moves

(* The steps that observe: each uses a row it has read under validation, or *)
(* the cases it found uncertain.                                            *)
LEMMA Observations ==
    ASSUME IInv, NEW p \in Procs,
           MaterializeName(p) \/ Complete(p) \/ MaterializeSeen(p) \/ ResolveExternal(p)
    PROVE  cases' \in [Keys -> Case] /\ Observes(cases, cases')
<1>1. /\ proc[p] \in Process /\ Knows(proc[p]) /\ cases \in [Keys -> Case] /\ proc[p].quoted \in BOOLEAN
      /\ proc[p].pc \in {"name", "complete", "materialize", "absent"} /\ proc[p].seen \in Row
  BY InProcess DEF MaterializeName, Complete, MaterializeSeen, ResolveExternal, Knows, Seeing, Process
<1>2. Observes(cases, cases)
  BY DEF Observes, Observed
<1>3. CASE MaterializeName(p)
  <2> DEFINE k == CHOOSE k \in Found(proc[p].seen, TRUE) : TRUE
  <2>1. k \in Keys
    BY <1>1, <1>3, FoundKeys DEF MaterializeName, Knows
  <2>2. cases' = Materialize(cases, k)
    BY <1>3 DEF MaterializeName
  <2> HIDE DEF k
  <2>3. QED
    BY <1>1, <2>1, <2>2, MaterializeObserves
<1>4. CASE Complete(p)
  <2> DEFINE found == IF proc[p].uncertain # {} THEN {} ELSE Found(proc[p].seen, proc[p].quoted)
             active == found \cup proc[p].uncertain
  <2>1. \/ cases' = ResolveAbsent(MaterializeFound(cases, found), active, proc[p].seen.ident)
        \/ cases' = cases
    BY <1>4 DEF Complete
  <2>2. found \in SUBSET Keys
    BY <1>1, FoundKeys
  <2> HIDE DEF found, active
  <2>3. MaterializeFound(cases, found) \in [Keys -> Case] /\ Observes(cases, MaterializeFound(cases, found))
    BY <1>1, <2>2, MaterializeFoundObserves
  <2>4. QED
    BY <1>1, <1>2, <2>1, <2>3, ResolveObserves
<1>5. CASE MaterializeSeen(p)
  <2>1. Found(proc[p].seen, FALSE) \in SUBSET Keys
    BY <1>1, FoundKeys
  <2>2. QED
    BY <1>1, <1>5, <2>1, MaterializeFoundObserves DEF MaterializeSeen
<1>6. CASE ResolveExternal(p)
  BY <1>1, <1>2, <1>6, ResolveObserves DEF ResolveExternal
<1>7. QED
  BY <1>3, <1>4, <1>5, <1>6

LEMMA MaterializeNameKeeps == ASSUME IInv, NEW p \in Procs, MaterializeName(p) PROVE IInv'
<1> DEFINE k == CHOOSE k \in Found(proc[p].seen, TRUE) : TRUE
           x == [proc[p] EXCEPT !.pc = "prepare", !.key = k]
<1>1. /\ proc[p] \in Process /\ Knows(proc[p]) /\ proc[p].pc = "name" /\ proc[p].op = "event"
      /\ proc[p].seen \in Row /\ Candidate(proc[p].seen) /\ lock = p /\ proc[p].batch # {}
      /\ cases \in [Keys -> Case]
      /\ inbox \in [Events -> Entry] /\ \A e \in Events : (inbox[e].claim # None) = (inbox[e].state = "claimed")
  BY InProcess DEF MaterializeName, Knows, Seeing, UnderLock, Locked
<1>2. k \in Keys /\ Kind(k) = "missing_completable"
  <2>1. k \in Found(proc[p].seen, TRUE)
    BY <1>1, FoundKeys
  <2>2. QED
    BY <1>1, <2>1, FoundKeys
<1>3. /\ proc' = [proc EXCEPT ![p] = x]
      /\ UNCHANGED <<sheet, inbox, lock, tries, called, wire>>
  BY DEF MaterializeName, Go
<1> HIDE DEF k
<1>4. /\ x \in Process /\ x.pc = "prepare" /\ x.op = "event" /\ x.batch = proc[p].batch
      /\ x.key = k /\ x.seen = proc[p].seen
  BY <1>1, <1>2 DEF Process, Steps, Locked
<1> HIDE DEF x
<1>5. Knows(x) /\ UnderLock(x)
  BY <1>1, <1>2, <1>4 DEF Knows, UnderLock, Locked, Seeing, Trying
<1>6. cases' \in [Keys -> Case] /\ Observes(cases, cases')
  BY Observations
<1>7. QED
  BY <1>1, <1>3, <1>4, <1>5, <1>6, Observing DEF Takes, Trying

LEMMA CompleteKeeps == ASSUME IInv, NEW p \in Procs, Complete(p) PROVE IInv'
<1> DEFINE e == InHand(proc[p])
<1>1. /\ proc[p] \in Process /\ Knows(proc[p]) /\ proc[p].pc = "complete" /\ proc[p].op = "event"
      /\ proc[p].seen \in Row /\ lock # p /\ proc[p].batch # {} /\ proc[p].batch \subseteq Events
      /\ cases \in [Keys -> Case]
      /\ inbox \in [Events -> Entry] /\ \A f \in Events : (inbox[f].claim # None) = (inbox[f].state = "claimed")
      /\ proc[p].quoted \in BOOLEAN /\ UNCHANGED <<sheet, lock, tries, called, wire>>
  BY InProcess DEF Complete, Knows, Seeing, UnderLock, Locked, Process
<1>2. e \in Events
  BY <1>1, InHandIsOfBatch
<1>3. CASE HoldsClaim(p, e)
  <2> DEFINE entry == [inbox[e] EXCEPT !.state = "processed", !.claim = None, !.late = FALSE]
             batch == proc[p].batch \ {e}
             x == Rest([batch |-> batch])
  <2>1. inbox' = [inbox EXCEPT ![e] = entry] /\ proc' = [proc EXCEPT ![p] = x]
    BY <1>3 DEF Complete, Go
  <2>2. entry \in Entry /\ entry.claim = None /\ entry.state = "processed"
    BY <1>1, <1>2 DEF Entry
  <2>3. x \in Process /\ Knows(x) /\ ~ UnderLock(x) /\ x.pc \in {"idle", "event"}
    BY <1>1, RestHand DEF Hand
  <2> HIDE DEF entry, x
  <2>4. inbox' \in [Events -> Entry] /\ \A f \in Events : (inbox'[f].claim # None) = (inbox'[f].state = "claimed")
    BY <1>1, <1>2, <2>1, <2>2
  <2>5. (lock' = p) = UnderLock(x)
    BY <1>1, <2>3 DEF UnderLock
  <2>6. cases' \in [Keys -> Case] /\ Observes(cases, cases')
    BY Observations
  <2>7. QED
    BY <1>1, <2>1, <2>3, <2>4, <2>5, <2>6, Observing DEF Takes, Trying
<1>4. CASE ~ HoldsClaim(p, e)
  <2> DEFINE x == [proc[p] EXCEPT !.pc = "fail"]
  <2>1. proc' = [proc EXCEPT ![p] = x] /\ UNCHANGED <<cases, inbox>>
    BY <1>4 DEF Complete, Go
  <2>2. x \in Process /\ x.pc = "fail" /\ x.op = "event" /\ x.batch = proc[p].batch
    BY <1>1 DEF Process, Steps
  <2> HIDE DEF x
  <2>3. Hand(x, cases, tries, called) /\ ~ UnderLock(x)
    BY <1>1, <2>2 DEF Hand, Knows, UnderLock, Locked, Seeing, Trying
  <2>4. (lock' = p) = UnderLock(x)
    BY <1>1, <2>3 DEF UnderLock
  <2>5. QED
    BY <1>1, <2>1, <2>2, <2>3, <2>4, Turns DEF Takes
<1>5. QED
  BY <1>3, <1>4

LEMMA EventFailedKeeps == ASSUME IInv, NEW p \in Procs, EventFailed(p) PROVE IInv'
<1> DEFINE e == InHand(proc[p])
<1>1. /\ proc[p] \in Process /\ Knows(proc[p]) /\ proc[p].pc = "fail" /\ proc[p].op = "event"
      /\ lock # p /\ proc[p].batch # {} /\ proc[p].batch \subseteq Events
      /\ inbox \in [Events -> Entry] /\ \A f \in Events : (inbox[f].claim # None) = (inbox[f].state = "claimed")
      /\ UNCHANGED <<sheet, cases, lock, tries, called, wire>>
  BY InProcess DEF EventFailed, Knows, UnderLock, Locked, Process
<1>2. ~ UnderLock(proc[p])
  BY <1>1 DEF UnderLock, Locked
<1>3. CASE HoldsClaim(p, e)
  <2> DEFINE entry == [state |-> "failed_retryable", claim |-> None, due |-> FALSE, late |-> FALSE]
             batch == proc[p].batch \ {e}
             x == Rest([batch |-> batch])
  <2>1. inbox' = [inbox EXCEPT ![e] = entry] /\ proc' = [proc EXCEPT ![p] = x]
    BY <1>3 DEF EventFailed, Go
  <2>2. entry \in Entry /\ entry.claim = None /\ entry.state = "failed_retryable"
    BY DEF Entry
  <2>3. x \in Process /\ Hand(x, cases, tries, called) /\ ~ UnderLock(x)
    BY <1>1, RestHand
  <2> HIDE DEF entry, x
  <2>4. inbox' \in [Events -> Entry] /\ \A f \in Events : (inbox'[f].claim # None) = (inbox'[f].state = "claimed")
    BY <1>1, <2>1, <2>2
  <2>5. QED
    BY <1>1, <1>2, <2>1, <2>3, <2>4, InboxMoves
<1>4. CASE ~ HoldsClaim(p, e)
  <2>1. proc' = [proc EXCEPT ![p] = Idle] /\ inbox' = inbox
    BY <1>4 DEF EventFailed, Go
  <2>2. QED
    BY <1>1, <1>2, <2>1, IdleHand, InboxMoves
<1>5. QED
  BY <1>3, <1>4

-----------------------------------------------------------------------------
(* The end of a command, and an exception.                                  *)

LEMMA Unlocks ==
    ASSUME IInv, NEW p \in Procs, Unlock(p)
    PROVE  Takes(p) /\ lock' # p
BY NoneAssumption DEF Unlock, Takes

LEMMA Finishing ==
    ASSUME IInv, NEW p \in Procs, Done(p),
           UNCHANGED <<sheet, inbox, tries, called, wire>>,
           cases' \in [Keys -> Case],
           UnderLock(proc[p]) \/ Observes(cases, cases'),
           Recorded(cases', tries', called')
    PROVE  IInv'
<1>1. /\ sheet' \in Row /\ tries' \in 0 .. MaxAttempts /\ wire' \subseteq called' /\ called' \subseteq 1 .. tries'
      /\ inbox' \in [Events -> Entry] /\ \A e \in Events : (inbox'[e].claim # None) = (inbox'[e].state = "claimed")
  BY InProcess
<1>2. Idle \in Process /\ Hand(Idle, cases', tries', called') /\ ~ UnderLock(Idle)
  BY IdleHand
<1>3. Takes(p) /\ (lock' = p) = UnderLock(Idle)
  BY <1>2, Unlocks DEF Done, UnderLock
<1>4. proc' = [proc EXCEPT ![p] = Idle]
  BY DEF Done, Go
<1>5. QED
  BY <1>1, <1>2, <1>3, <1>4, Moves

LEMMA DoneKeeps ==
    ASSUME IInv, NEW p \in Procs, Done(p),
           UNCHANGED <<sheet, cases, inbox, tries, called, wire>>
    PROVE  IInv'
<1>1. cases' \in [Keys -> Case] /\ Recorded(cases', tries', called')
  BY InProcess
<1>2. Observes(cases, cases')
  BY DEF Observes, Observed
<1>3. QED
  BY <1>1, <1>2, Finishing

LEMMA RaiseKeeps ==
    ASSUME IInv, NEW p \in Procs, Raise(p), proc[p].pc # "idle",
           UNCHANGED <<sheet, cases, inbox, tries, called, wire>>
    PROVE  IInv'
<1>1. CASE proc[p].op # "event"
  BY <1>1, DoneKeeps DEF Raise, Done
<1>2. CASE proc[p].op = "event"
  <2> DEFINE x == [proc[p] EXCEPT !.pc = "fail"]
  <2>1. proc[p] \in Process /\ Knows(proc[p])
    BY InProcess
  <2>2. x \in Process /\ x.pc = "fail" /\ x.op = "event" /\ x.batch = proc[p].batch
    BY <1>2, <2>1 DEF Process, Steps
  <2>3. proc' = [proc EXCEPT ![p] = x]
    BY <1>2 DEF Raise, Go
  <2> HIDE DEF x
  <2>4. Hand(x, cases, tries, called) /\ ~ UnderLock(x)
    BY <1>2, <2>1, <2>2 DEF Hand, Knows, UnderLock, Locked, Seeing, Trying
  <2>5. Takes(p) /\ (lock' = p) = UnderLock(x)
    BY <2>4, Unlocks DEF Raise, UnderLock
  <2>6. QED
    BY <2>2, <2>3, <2>4, <2>5, Turns
<1>3. QED
  BY <1>1, <1>2

LEMMA FaultsKeep == ASSUME IInv, NEW p \in Procs, ReadFails(p) \/ Crash(p) PROVE IInv'
BY RaiseKeeps, DoneKeeps DEF ReadFails, Crash

-----------------------------------------------------------------------------
(* The commands.                                                            *)

LEMMA StartKeeps ==
    ASSUME IInv, NEW p \in Procs, NEW x \in Process,
           proc[p].pc = "idle", proc' = [proc EXCEPT ![p] = x],
           UNCHANGED <<sheet, cases, inbox, lock, tries, called, wire>>,
           x.pc = "lock" \/ (x.pc = "materialize" /\ x.op = "notify"),
           Knows(x)
    PROVE  IInv'
<1>1. lock # p
  BY InProcess DEF UnderLock, Locked
<1>2. Hand(x, cases, tries, called) /\ ~ UnderLock(x)
  BY DEF Hand, UnderLock, Locked, Trying
<1>3. Takes(p) /\ (lock' = p) = UnderLock(x)
  BY <1>1, <1>2 DEF Takes, UnderLock
<1>4. QED
  BY <1>2, <1>3, Turns

LEMMA CommandsKeep == ASSUME IInv, NEW p \in Operators, AnyCommand(p) PROVE IInv'
<1>1. /\ sheet \in Row /\ cases \in [Keys -> Case] /\ proc[p].pc = "idle"
      /\ UNCHANGED <<sheet, cases, inbox, lock, tries, called, wire>>
  BY InProcess DEF AnyCommand, Command, StartNotify, StartWrite, StartResolve, StartRecover
<1>2. CASE StartNotify(p)
  <2> DEFINE x == [Idle EXCEPT !.op = "notify", !.pc = "materialize", !.seen = sheet]
  <2>1. x \in Process /\ x.op = "notify" /\ x.pc = "materialize" /\ x.seen = sheet
    BY <1>1 DEF Idle, Process, Steps, Ops
  <2>2. proc' = [proc EXCEPT ![p] = x]
    BY <1>2 DEF StartNotify, Go
  <2> HIDE DEF x
  <2>3. Knows(x)
    BY <1>1, <2>1 DEF Knows, Seeing, Trying
  <2>4. QED
    BY <1>1, <2>1, <2>2, <2>3, StartKeeps
<1>3. ASSUME NEW op \in Ops, StartWrite(p, op)
      PROVE  IInv'
  <2> DEFINE x == [Idle EXCEPT !.op = op, !.pc = "lock"]
  <2>1. x \in Process /\ x.op \in {"apply", "agent"} /\ x.pc = "lock"
    BY <1>3 DEF StartWrite, Idle, Process, Steps, Ops
  <2>2. proc' = [proc EXCEPT ![p] = x]
    BY <1>3 DEF StartWrite, Go
  <2> HIDE DEF x
  <2>3. Knows(x)
    BY <2>1 DEF Knows, Seeing, Trying
  <2>4. QED
    BY <1>1, <2>1, <2>2, <2>3, StartKeeps
<1>4. ASSUME NEW op \in Ops, NEW k \in Keys, StartResolve(p, op, k)
      PROVE  IInv'
  <2> DEFINE was == cases[k].state
             x == [Idle EXCEPT !.op = op, !.pc = "lock", !.key = k, !.was = was]
  <2>1. was \in States
    BY <1>1 DEF Case, States
  <2>2. proc' = [proc EXCEPT ![p] = x]
    BY <1>4 DEF StartResolve, Go
  <2> HIDE DEF was
  <2>3. x \in Process /\ x.op \in {"keep", "accept"} /\ x.pc = "lock" /\ x.key = k /\ Kind(k) = "conflict"
    BY <1>4, <2>1 DEF StartResolve, Idle, Process, Steps, Ops
  <2> HIDE DEF x
  <2>4. Knows(x)
    BY <2>3 DEF Knows, Seeing, Trying
  <2>5. QED
    BY <1>1, <2>2, <2>3, <2>4, StartKeeps
<1>5. ASSUME NEW k \in Keys, StartRecover(p, k)
      PROVE  IInv'
  <2> DEFINE attempt == cases[k].attempt
             x == [Idle EXCEPT !.op = "recover", !.pc = "lock", !.key = k, !.attempt = attempt]
  <2>1. attempt \in Attempts \cup {None}
    BY <1>1 DEF Case
  <2>2. proc' = [proc EXCEPT ![p] = x]
    BY <1>5 DEF StartRecover, Go
  <2> HIDE DEF attempt
  <2>3. x \in Process /\ x.op = "recover" /\ x.pc = "lock" /\ x.key = k
    BY <2>1 DEF Idle, Process, Steps, Ops
  <2> HIDE DEF x
  <2>4. Knows(x)
    BY <2>3 DEF Knows, Seeing, Trying
  <2>5. QED
    BY <1>1, <2>2, <2>3, <2>4, StartKeeps
<1>6. QED
  BY <1>2, <1>3, <1>4, <1>5 DEF AnyCommand

(* A command that has the locks goes on under them.                         *)
LEMMA EntersKeep ==
    ASSUME IInv, NEW p \in Procs, NEW x \in Process,
           lock = None, lock' = p, proc' = [proc EXCEPT ![p] = x],
           UNCHANGED <<sheet, cases, inbox, tries, called, wire>>,
           x.pc \in {"prepare", "materialize"}, x.op \in {"apply", "agent", "keep", "accept"},
           Knows(x)
    PROVE  IInv'
<1>1. Hand(x, cases, tries, called) /\ UnderLock(x)
  BY DEF Hand, UnderLock, Locked, Trying
<1>2. Takes(p) /\ (lock' = p) = UnderLock(x)
  BY <1>1 DEF Takes, UnderLock
<1>3. QED
  BY <1>1, <1>2, Turns

LEMMA LockedReadKeeps == ASSUME IInv, NEW p \in Procs, LockedRead(p) PROVE IInv'
<1> DEFINE quoted == proc[p].op = "agent"
           x == [proc[p] EXCEPT !.seen = sheet, !.quoted = quoted, !.was = None]
           found == Found(sheet, quoted)
<1>1. /\ proc[p] \in Process /\ Knows(proc[p]) /\ proc[p].pc = "lock" /\ lock = None /\ sheet \in Row
      /\ UNCHANGED <<sheet, cases, inbox, tries, called, wire>>
  BY InProcess DEF LockedRead, Enter
<1>2. x \in Process /\ x.op = proc[p].op /\ x.pc = "lock" /\ x.seen = sheet /\ x.key = proc[p].key /\ x.quoted = quoted
  BY <1>1 DEF Process
<1>3. found \subseteq Keys
  BY <1>1, FoundKeys
<1>4. CASE Done(p)
  BY <1>1, <1>4, DoneKeeps
<1>5. CASE x.op = "apply" /\ Keep(p) /\ ~ Done(p)
  <2>1. \/ Go(p, [x EXCEPT !.pc = "prepare", !.key = CHOOSE k \in found : TRUE]) /\ found # {}
        \/ Go(p, [x EXCEPT !.pc = "materialize"])
    BY <1>2, <1>5 DEF LockedRead
  <2>2. CASE Go(p, [x EXCEPT !.pc = "prepare", !.key = CHOOSE k \in found : TRUE]) /\ found # {}
    <3> DEFINE k == CHOOSE k \in found : TRUE
               y == [x EXCEPT !.pc = "prepare", !.key = k]
    <3>1. k \in Keys
      BY <1>3, <2>2
    <3>2. proc' = [proc EXCEPT ![p] = y]
      BY <2>2 DEF Go
    <3> HIDE DEF x, k
    <3>3. y \in Process /\ y.op = "apply" /\ y.pc = "prepare" /\ y.seen = sheet /\ y.key = k
      BY <1>2, <1>5, <3>1 DEF Process, Steps, Locked
    <3> HIDE DEF y
    <3>4. Knows(y)
      BY <1>1, <3>1, <3>3 DEF Knows, Seeing, Trying
    <3>5. QED
      BY <1>1, <1>5, <3>2, <3>3, <3>4, EntersKeep DEF Keep
  <2>3. CASE Go(p, [x EXCEPT !.pc = "materialize"])
    <3> DEFINE y == [x EXCEPT !.pc = "materialize"]
    <3>1. proc' = [proc EXCEPT ![p] = y]
      BY <2>3 DEF Go
    <3> HIDE DEF x
    <3>2. y \in Process /\ y.op = "apply" /\ y.pc = "materialize" /\ y.seen = sheet
      BY <1>2, <1>5 DEF Process, Steps
    <3> HIDE DEF y
    <3>3. Knows(y)
      BY <1>1, <3>2 DEF Knows, Seeing, Trying
    <3>4. QED
      BY <1>1, <1>5, <3>1, <3>2, <3>3, EntersKeep DEF Keep
  <2>4. QED
    BY <2>1, <2>2, <2>3
<1>6. CASE x.op = "agent" /\ ~ Done(p)
  <2> DEFINE k == CHOOSE k \in found : TRUE
             y == [x EXCEPT !.pc = "prepare", !.key = k]
  <2>1. Candidate(sheet) /\ Keep(p) /\ proc' = [proc EXCEPT ![p] = y]
    BY <1>2, <1>6 DEF LockedRead, Go
  <2>2. k \in Keys
    BY <1>1, <1>2, <1>3, <1>6, <2>1, FoundKeys
  <2> HIDE DEF x, k
  <2>3. y \in Process /\ y.op = "agent" /\ y.pc = "prepare" /\ y.seen = sheet /\ y.key = k
    BY <1>2, <1>6, <2>2 DEF Process, Steps, Locked
  <2> HIDE DEF y
  <2>4. Knows(y)
    BY <1>1, <2>2, <2>3 DEF Knows, Seeing, Trying
  <2>5. QED
    BY <1>1, <2>1, <2>3, <2>4, EntersKeep DEF Keep
<1>7. CASE x.op \in {"keep", "accept"} /\ ~ Done(p)
  <2> DEFINE pc == IF x.op = "keep" THEN "materialize" ELSE "prepare"
             y == [x EXCEPT !.pc = pc]
  <2>1. Keep(p) /\ proc' = [proc EXCEPT ![p] = y]
    BY <1>2, <1>7 DEF LockedRead, Go
  <2>2. pc \in {"materialize", "prepare"}
    OBVIOUS
  <2> HIDE DEF x, pc
  <2>3. y \in Process /\ y.op = x.op /\ y.pc = pc /\ y.seen = sheet /\ y.key = proc[p].key
    BY <1>2, <2>2 DEF Process, Steps, Locked
  <2> HIDE DEF y
  <2>4. Knows(y)
    BY <1>1, <1>2, <1>7, <2>2, <2>3 DEF Knows, Seeing, Trying
  <2>5. QED
    BY <1>1, <1>7, <2>1, <2>2, <2>3, <2>4, EntersKeep DEF Keep
<1>8. QED
  BY <1>2, <1>4, <1>5, <1>6, <1>7 DEF LockedRead

LEMMA MaterializeSeenKeeps == ASSUME IInv, NEW p \in Procs, MaterializeSeen(p) PROVE IInv'
<1> DEFINE x == [proc[p] EXCEPT !.pc = "absent"]
<1>1. /\ proc[p] \in Process /\ Knows(proc[p]) /\ proc[p].pc = "materialize" /\ proc[p].seen \in Row
      /\ (lock = p) = UnderLock(proc[p]) /\ cases \in [Keys -> Case]
      /\ inbox \in [Events -> Entry] /\ \A e \in Events : (inbox[e].claim # None) = (inbox[e].state = "claimed")
  BY InProcess DEF MaterializeSeen, Knows, Seeing
<1>2. /\ proc' = [proc EXCEPT ![p] = x]
      /\ UNCHANGED <<sheet, inbox, lock, tries, called, wire>>
  BY DEF MaterializeSeen, Go
<1>3. cases' \in [Keys -> Case] /\ Observes(cases, cases')
  BY Observations
<1>4. /\ x \in Process /\ x.pc = "absent" /\ x.op = proc[p].op /\ x.batch = proc[p].batch
      /\ x.key = proc[p].key /\ x.seen = proc[p].seen
  BY <1>1 DEF Process, Steps
<1> HIDE DEF x
<1>5. Knows(x)
  BY <1>1, <1>4 DEF Knows, Seeing, Trying
<1>6. (lock' = p) = UnderLock(x)
  BY <1>1, <1>2, <1>4 DEF UnderLock, Locked
<1>7. QED
  BY <1>1, <1>2, <1>3, <1>4, <1>5, <1>6, Observing DEF Takes, Trying

LEMMA ResolveExternalKeeps == ASSUME IInv, NEW p \in Procs, ResolveExternal(p) PROVE IInv'
<1>1. /\ proc[p] \in Process /\ Knows(proc[p]) /\ proc[p].pc = "absent" /\ proc[p].seen \in Row
      /\ (lock = p) = UnderLock(proc[p]) /\ cases \in [Keys -> Case]
      /\ inbox \in [Events -> Entry] /\ \A e \in Events : (inbox[e].claim # None) = (inbox[e].state = "claimed")
      /\ UNCHANGED <<sheet, inbox, tries, called, wire>>
  BY InProcess DEF ResolveExternal, Knows, Seeing
<1>2. cases' \in [Keys -> Case] /\ Observes(cases, cases')
  BY Observations
<1>3. CASE proc[p].op = "keep"
  <2> DEFINE x == [proc[p] EXCEPT !.pc = "settle"]
  <2>1. proc' = [proc EXCEPT ![p] = x] /\ lock' = lock
    BY <1>3 DEF ResolveExternal, Go
  <2>2. /\ x \in Process /\ x.pc = "settle" /\ x.op = "keep" /\ x.key = proc[p].key /\ x.seen = proc[p].seen
    BY <1>1, <1>3 DEF Process, Steps, Locked
  <2> HIDE DEF x
  <2>3. Knows(x)
    BY <1>1, <1>3, <2>2 DEF Knows, Seeing, Trying
  <2>4. (lock' = p) = UnderLock(x)
    BY <1>1, <1>3, <2>1, <2>2 DEF UnderLock, Locked
  <2>5. QED
    BY <1>1, <1>2, <2>1, <2>2, <2>3, <2>4, Observing DEF Takes, Trying
<1>4. CASE proc[p].op # "keep"
  <2>1. Recorded(cases', tries', called')
    <3>1. Recorded(cases, tries, called) /\ tries \in Nat /\ called \in SUBSET (1 .. tries)
      BY InProcess
    <3>2. QED
      BY <1>1, <1>2, <3>1, RecordedOn
  <2>2. QED
    BY <1>1, <1>2, <1>4, <2>1, Finishing DEF ResolveExternal
<1>5. QED
  BY <1>3, <1>4

LEMMA FinalizeKeepKeeps == ASSUME IInv, NEW p \in Procs, FinalizeKeep(p) PROVE IInv'
<1> DEFINE k == proc[p].key
           c == [cases[k] EXCEPT !.state = "resolved_keep", !.auto = FALSE]
<1>1. /\ Knows(proc[p]) /\ proc[p].pc = "settle" /\ k \in Keys /\ UnderLock(proc[p])
      /\ cases \in [Keys -> Case] /\ Recorded(cases, tries, called)
      /\ UNCHANGED <<sheet, inbox, tries, called, wire>> /\ Done(p)
  BY InProcess DEF FinalizeKeep, Knows, UnderLock, Locked
<1>2. cases' = [cases EXCEPT ![k] = c]
  BY DEF FinalizeKeep
<1>3. /\ c \in Case /\ c.state = "resolved_keep" /\ ~ c.auto /\ c.attempt = cases[k].attempt
      /\ c.sent = cases[k].sent
  <2>1. cases[k] \in Case
    BY <1>1
  <2>2. QED
    BY <2>1 DEF Case, Supersedeable
<1> HIDE DEF c, k
<1>4. cases' \in [Keys -> Case] /\ Recorded(cases', tries', called')
  BY <1>1, <1>2, <1>3 DEF Recorded
<1>5. QED
  BY <1>1, <1>4, Finishing

-----------------------------------------------------------------------------
(* The write.                                                               *)

LEMMA Attempting ==
    ASSUME IInv, NEW p \in Procs, NEW x \in Process,
           proc' = [proc EXCEPT ![p] = x], UnderLock(proc[p]),
           UNCHANGED <<inbox, lock>>, sheet' \in Row, cases' \in [Keys -> Case],
           tries' \in 0 .. MaxAttempts, wire' \subseteq called', called' \subseteq 1 .. tries',
           Recorded(cases', tries', called'),
           x.pc \in Locked, Hand(x, cases', tries', called')
    PROVE  IInv'
<1>1. UnderLock(x) /\ lock = p
  BY InProcess DEF UnderLock
<1>2. Takes(p) /\ (lock' = p) = UnderLock(x)
  BY <1>1 DEF Takes, UnderLock
<1>3. inbox' \in [Events -> Entry] /\ \A e \in Events : (inbox'[e].claim # None) = (inbox'[e].state = "claimed")
  BY InProcess
<1>4. QED
  BY <1>2, <1>3, Moves

(* What a write finds when it is prepared: the case as it is after one more *)
(* observation, and open for it.                                            *)
LEMMA Prepares ==
    ASSUME IInv, NEW p \in Procs, PrepareApply(p)
    PROVE  LET seen == Found(proc[p].seen, proc[p].quoted)
               cs   == ResolveAbsent(MaterializeFound(cases, seen), seen, proc[p].seen.ident)
           IN  cs \in [Keys -> Case] /\ Observes(cases, cs)
<1> DEFINE seen == Found(proc[p].seen, proc[p].quoted)
<1>1. proc[p].seen \in Row /\ proc[p].quoted \in BOOLEAN /\ cases \in [Keys -> Case]
  BY InProcess DEF PrepareApply, Knows, Seeing, Process
<1>2. seen \in SUBSET Keys
  BY <1>1, FoundKeys
<1>3. MaterializeFound(cases, seen) \in [Keys -> Case] /\ Observes(cases, MaterializeFound(cases, seen))
  BY <1>1, <1>2, MaterializeFoundObserves
<1>4. QED
  BY <1>1, <1>3, ResolveObserves

LEMMA PrepareApplyKeeps == ASSUME IInv, NEW p \in Procs, PrepareApply(p) PROVE IInv'
<1> DEFINE seen == Found(proc[p].seen, proc[p].quoted)
           cs == ResolveAbsent(MaterializeFound(cases, seen), seen, proc[p].seen.ident)
           n == tries + 1
           k == proc[p].key
<1>1. /\ proc[p] \in Process /\ Knows(proc[p]) /\ proc[p].pc = "prepare" /\ proc[p].seen \in Row
      /\ proc[p].quoted \in BOOLEAN /\ k \in Keys /\ UnderLock(proc[p])
      /\ cases \in [Keys -> Case] /\ Recorded(cases, tries, called) /\ tries < MaxAttempts
      /\ tries \in Nat /\ called \in SUBSET (1 .. tries) /\ wire \subseteq called /\ sheet \in Row
      /\ UNCHANGED <<sheet, inbox, called, wire>>
  BY InProcess DEF PrepareApply, Knows, Seeing, UnderLock, Locked, Process
<1>2. CASE Raise(p) /\ UNCHANGED <<cases, tries>>
  BY <1>1, <1>2, RaiseKeeps
<1>3. CASE ~ (Raise(p) /\ UNCHANGED <<cases, tries>>)
  <2> DEFINE auto == proc[p].op = "event"
             c == [state |-> "applying", auto |-> auto, attempt |-> n, sent |-> FALSE]
             x == [proc[p] EXCEPT !.pc = "mark", !.attempt = n]
  <2>1. cases' = [cs EXCEPT ![k] = c] /\ tries' = n /\ lock' = lock /\ proc' = [proc EXCEPT ![p] = x]
    BY <1>3 DEF PrepareApply, Applying, Go
  <2>2. n \in Nat /\ n \in Attempts /\ n \in 0 .. MaxAttempts /\ n \in 1 .. n /\ n \notin 1 .. tries
        /\ \A i \in 1 .. tries : i \in 1 .. n
    BY <1>1, BoundAssumption DEF Attempts
  <2>3. cs \in [Keys -> Case] /\ Observes(cases, cs)
    BY Prepares
  <2>4. Recorded(cs, tries, called)
    BY <1>1, <2>3, RecordedOn
  <2>5. c \in Case /\ c.state = "applying" /\ c.auto = auto /\ c.attempt = n /\ ~ c.sent
    BY <2>2 DEF Case, Supersedeable, Open, Uncertain
  <2>6. /\ x \in Process /\ x.pc = "mark" /\ x.op = proc[p].op /\ x.batch = proc[p].batch
        /\ x.key = k /\ x.seen = proc[p].seen /\ x.attempt = n
    BY <1>1, <2>2 DEF Process, Steps, Locked
  <2> HIDE DEF cs, c, x, n, k
  <2>7. cases' \in [Keys -> Case] /\ cases'[k] = c /\ \A j \in Keys \ {k} : cases'[j] = cs[j]
    BY <1>1, <2>1, <2>3, <2>5
  <2>8. Recorded(cases', tries', called')
    <3>1. SUFFICES ASSUME NEW j \in Keys
                   PROVE  /\ cases'[j].attempt # None => cases'[j].attempt \in 1 .. n
                          /\ cases'[j].attempt \in called => cases'[j].sent
                          /\ cases'[j].state = "failed_retryable" => cases'[j].attempt \notin called
                          /\ cases'[j].auto => Kind(j) = "missing_completable"
      BY <1>1, <2>1 DEF Recorded
    <3>2. CASE j = k
      <4>1. auto => Kind(k) = "missing_completable"
        BY <1>1 DEF Knows, k
      <4>2. n \notin called
        BY <1>1, <2>2
      <4>3. QED
        BY <2>2, <2>5, <2>7, <3>2, <4>1, <4>2
    <3>3. CASE j # k
      BY <2>2, <2>4, <2>7, <3>3 DEF Recorded
    <3>4. QED
      BY <3>2, <3>3
  <2>9. Tried(x, cases', tries')
    <3>1. \A j \in Keys \ {k} : cs[j].attempt # n
      BY <2>2, <2>4, NoneAssumption DEF Recorded
    <3>2. QED
      BY <2>1, <2>2, <2>5, <2>6, <2>7, <3>1 DEF Tried
  <2>10. Knows(x)
    BY <1>1, <2>6 DEF Knows, Seeing, Trying, k
  <2>11. Hand(x, cases', tries', called')
    BY <2>6, <2>9, <2>10 DEF Hand
  <2>12. called' \subseteq 1 .. tries'
    BY <1>1, <2>1, <2>2
  <2>13. tries' \in 0 .. MaxAttempts
    BY <2>1, <2>2
  <2>14. x.pc \in Locked
    BY <2>6 DEF Locked
  <2>15. QED
    BY <1>1, <2>1, <2>6, <2>7, <2>8, <2>11, <2>12, <2>13, <2>14, Attempting
<1>4. QED
  BY <1>2, <1>3

(* What the owner of the locks has in hand while it is at an attempt.       *)
LEMMA InAttempt ==
    ASSUME IInv, NEW p \in Procs, proc[p].pc \in Trying
    PROVE  /\ proc[p] \in Process /\ Knows(proc[p]) /\ proc[p].key \in Keys /\ proc[p].seen \in Row
           /\ UnderLock(proc[p]) /\ Tried(proc[p], cases, tries)
           /\ sheet \in Row /\ cases \in [Keys -> Case] /\ Recorded(cases, tries, called)
           /\ tries \in 0 .. MaxAttempts /\ wire \subseteq called /\ called \subseteq 1 .. tries
BY InProcess DEF Hand, Knows, Trying, Seeing, UnderLock, Locked

LEMMA MarkKeeps == ASSUME IInv, NEW p \in Procs, MarkRemoteAttempt(p) PROVE IInv'
<1> DEFINE k == proc[p].key
           c == [cases[k] EXCEPT !.sent = TRUE]
           x == [proc[p] EXCEPT !.pc = "compare"]
<1>1. /\ proc[p] \in Process /\ Knows(proc[p]) /\ k \in Keys /\ proc[p].seen \in Row /\ proc[p].pc = "mark"
      /\ UnderLock(proc[p]) /\ Tried(proc[p], cases, tries)
      /\ sheet \in Row /\ cases \in [Keys -> Case] /\ Recorded(cases, tries, called)
      /\ tries \in 0 .. MaxAttempts /\ wire \subseteq called /\ called \subseteq 1 .. tries
      /\ UNCHANGED <<sheet, inbox, tries, called, wire>>
  BY InAttempt DEF MarkRemoteAttempt, Trying
<1>2. CASE Raise(p) /\ UNCHANGED cases
  BY <1>1, <1>2, RaiseKeeps
<1>3. CASE ~ (Raise(p) /\ UNCHANGED cases)
  <2>1. /\ cases' = [cases EXCEPT ![k] = c] /\ lock' = lock /\ proc' = [proc EXCEPT ![p] = x]
        /\ cases[k].attempt = proc[p].attempt
    BY <1>3 DEF MarkRemoteAttempt, Go
  <2>2. c \in Case /\ c.state = cases[k].state /\ c.auto = cases[k].auto /\ c.attempt = cases[k].attempt /\ c.sent
    <3>1. cases[k] \in Case
      BY <1>1
    <3>2. QED
      BY <3>1 DEF Case
  <2>3. /\ x \in Process /\ x.pc = "compare" /\ x.op = proc[p].op /\ x.batch = proc[p].batch
        /\ x.key = k /\ x.seen = proc[p].seen /\ x.attempt = proc[p].attempt
    BY <1>1 DEF Process, Steps, Locked
  <2> HIDE DEF c, x, k
  <2>4. cases' \in [Keys -> Case] /\ cases'[k] = c /\ \A j \in Keys \ {k} : cases'[j] = cases[j]
    BY <1>1, <2>1, <2>2
  <2>5. Recorded(cases', tries', called')
    BY <1>1, <2>2, <2>4 DEF Recorded
  <2>6. Tried(x, cases', tries')
    BY <1>1, <2>1, <2>2, <2>3, <2>4 DEF Tried, k
  <2>7. Knows(x)
    BY <1>1, <2>3 DEF Knows, Seeing, Trying, k
  <2>8. Hand(x, cases', tries', called') /\ x.pc \in Locked
    BY <2>3, <2>6, <2>7 DEF Hand, Locked
  <2>9. QED
    BY <1>1, <2>1, <2>3, <2>4, <2>5, <2>8, Attempting
<1>4. QED
  BY <1>2, <1>3

(* From one call of the write to the next: the attempt stays in hand.       *)
LEMMA CallsKeep ==
    ASSUME IInv, NEW p \in Procs, ComparePatch(p) \/ SendPatch(p) \/ Readback(p)
    PROVE  IInv'
<1>1. /\ proc[p] \in Process /\ Knows(proc[p]) /\ proc[p].key \in Keys /\ proc[p].seen \in Row
      /\ proc[p].pc \in {"compare", "send", "readback"}
      /\ UnderLock(proc[p]) /\ Tried(proc[p], cases, tries)
      /\ sheet \in Row /\ cases \in [Keys -> Case] /\ Recorded(cases, tries, called)
      /\ tries \in 0 .. MaxAttempts /\ wire \subseteq called /\ called \subseteq 1 .. tries
      /\ UNCHANGED <<cases, inbox, lock, tries>>
  BY InAttempt DEF ComparePatch, SendPatch, Readback, Trying
<1>2. PICK x \in Process : /\ proc' = [proc EXCEPT ![p] = x]
                           /\ x.pc \in {"send", "readback", "finalize"} /\ x.op = proc[p].op
                           /\ x.batch = proc[p].batch /\ x.key = proc[p].key /\ x.seen = proc[p].seen
                           /\ x.attempt = proc[p].attempt
  <2>1. ASSUME NEW pc \in {"send", "readback"}, Go(p, [proc[p] EXCEPT !.pc = pc])
        PROVE  \E x \in Process : /\ proc' = [proc EXCEPT ![p] = x]
                                  /\ x.pc \in {"send", "readback", "finalize"} /\ x.op = proc[p].op
                                  /\ x.batch = proc[p].batch /\ x.key = proc[p].key /\ x.seen = proc[p].seen
                                  /\ x.attempt = proc[p].attempt
    <3> DEFINE x == [proc[p] EXCEPT !.pc = pc]
    <3>1. /\ x \in Process /\ x.pc = pc /\ x.op = proc[p].op /\ x.batch = proc[p].batch
          /\ x.key = proc[p].key /\ x.seen = proc[p].seen /\ x.attempt = proc[p].attempt
      BY <1>1 DEF Process, Steps, Locked
    <3>2. proc' = [proc EXCEPT ![p] = x]
      BY <2>1 DEF Go
    <3> HIDE DEF x
    <3>3. QED
      BY <3>1, <3>2
  <2>2. ASSUME NEW got \in Values \cup {None}, Go(p, [proc[p] EXCEPT !.pc = "finalize", !.got = got])
        PROVE  \E x \in Process : /\ proc' = [proc EXCEPT ![p] = x]
                                  /\ x.pc \in {"send", "readback", "finalize"} /\ x.op = proc[p].op
                                  /\ x.batch = proc[p].batch /\ x.key = proc[p].key /\ x.seen = proc[p].seen
                                  /\ x.attempt = proc[p].attempt
    <3> DEFINE x == [proc[p] EXCEPT !.pc = "finalize", !.got = got]
    <3>1. /\ x \in Process /\ x.pc = "finalize" /\ x.op = proc[p].op /\ x.batch = proc[p].batch
          /\ x.key = proc[p].key /\ x.seen = proc[p].seen /\ x.attempt = proc[p].attempt
      BY <1>1 DEF Process, Steps, Locked
    <3>2. proc' = [proc EXCEPT ![p] = x]
      BY <2>2 DEF Go
    <3> HIDE DEF x
    <3>3. QED
      BY <3>1, <3>2
  <2>3. sheet.value \in Values
    BY <1>1 DEF Row
  <2>4. CASE ComparePatch(p)
    BY <2>1, <2>4 DEF ComparePatch
  <2>5. CASE SendPatch(p)
    BY <2>1, <2>5 DEF SendPatch
  <2>6. CASE Readback(p)
    BY <2>2, <2>3, <2>6 DEF Readback
  <2>7. QED
    BY <2>4, <2>5, <2>6
<1>3. /\ sheet' \in Row
      /\ called' = called \/ (proc[p].pc = "send" /\ called' = called \cup {proc[p].attempt})
      /\ wire' \subseteq wire \cup {proc[p].attempt} /\ (called' = called => wire' \subseteq called)
  BY <1>1 DEF ComparePatch, SendPatch, Readback, Row, Values
<1>4. wire' \subseteq called' /\ called' \subseteq 1 .. tries'
  BY <1>1, <1>3 DEF Tried
<1>5. Recorded(cases', tries', called')
  <2>1. CASE called' = called
    BY <1>1, <2>1
  <2>2. CASE proc[p].pc = "send" /\ called' = called \cup {proc[p].attempt}
    BY <1>1, <2>2 DEF Recorded, Tried
  <2>3. QED
    BY <1>3, <2>1, <2>2
<1>6. Tried(x, cases', tries')
  BY <1>1, <1>2 DEF Tried
<1>7. Knows(x)
  BY <1>1, <1>2 DEF Knows, Seeing, Trying
<1>8. Hand(x, cases', tries', called') /\ x.pc \in Locked
  BY <1>2, <1>6, <1>7 DEF Hand, Locked
<1>9. QED
  BY <1>1, <1>2, <1>3, <1>4, <1>5, <1>8, Attempting

LEMMA FinalizeApplyKeeps == ASSUME IInv, NEW p \in Procs, FinalizeApply(p) PROVE IInv'
<1> DEFINE k == proc[p].key
           state == Classified(k, proc[p].got)
           auto == proc[p].op = "event"
           c == [cases[k] EXCEPT !.state = state, !.auto = auto]
           x == [proc[p] EXCEPT !.pc = "reread"]
<1>1. /\ proc[p] \in Process /\ Knows(proc[p]) /\ k \in Keys /\ proc[p].seen \in Row /\ proc[p].pc = "finalize"
      /\ UnderLock(proc[p]) /\ Tried(proc[p], cases, tries)
      /\ sheet \in Row /\ cases \in [Keys -> Case] /\ Recorded(cases, tries, called)
      /\ tries \in 0 .. MaxAttempts /\ wire \subseteq called /\ called \subseteq 1 .. tries
      /\ UNCHANGED <<sheet, inbox, tries, called, wire>>
  BY InAttempt DEF FinalizeApply, Trying
<1>2. CASE Raise(p) /\ UNCHANGED cases
  BY <1>1, <1>2, RaiseKeeps
<1>3. CASE ~ (Raise(p) /\ UNCHANGED cases)
  <2>1. /\ cases' = [cases EXCEPT ![k] = c]
        /\ \/ proc[p].op \in {"event", "agent"} /\ lock' = lock /\ proc' = [proc EXCEPT ![p] = x]
           \/ Done(p)
    BY <1>3 DEF FinalizeApply, Go
  <2>2. state \in {"resolved_accept", "apply_outcome_unknown", "superseded"}
    BY DEF Classified
  <2> HIDE DEF state
  <2>3. c \in Case /\ c.state = state /\ c.auto = auto /\ c.attempt = cases[k].attempt /\ c.sent = cases[k].sent
    <3>1. cases[k] \in Case
      BY <1>1
    <3>2. QED
      BY <2>2, <3>1 DEF Case, Supersedeable, Open, Uncertain, Reopenable
  <2>4. auto => Kind(k) = "missing_completable"
    BY <1>1 DEF Knows, Trying
  <2>5. x \in Process /\ x.pc = "reread" /\ x.op = proc[p].op /\ x.batch = proc[p].batch /\ x.key = proc[p].key
    BY <1>1 DEF Process, Steps, Locked
  <2> HIDE DEF c, x, k
  <2>6. cases' \in [Keys -> Case] /\ cases'[k] = c /\ \A j \in Keys \ {k} : cases'[j] = cases[j]
    BY <1>1, <2>1, <2>3
  <2>7. Recorded(cases', tries', called')
    BY <1>1, <2>2, <2>3, <2>4, <2>6 DEF Recorded
  <2>8. CASE Done(p)
    BY <1>1, <2>6, <2>7, <2>8, Finishing
  <2>9. CASE proc[p].op \in {"event", "agent"} /\ lock' = lock /\ proc' = [proc EXCEPT ![p] = x]
    <3>1. Knows(x)
      BY <1>1, <2>5, <2>9 DEF Knows, Seeing, Trying
    <3>2. Hand(x, cases', tries', called') /\ x.pc \in Locked
      BY <2>5, <3>1 DEF Hand, Locked, Trying
    <3>3. QED
      BY <1>1, <2>5, <2>6, <2>7, <2>9, <3>2, Attempting
  <2>10. QED
    BY <2>1, <2>8, <2>9
<1>4. QED
  BY <1>2, <1>3

LEMMA RereadKeeps == ASSUME IInv, NEW p \in Procs, Reread(p) PROVE IInv'
<1> DEFINE x == [proc[p] EXCEPT !.seen = sheet, !.quoted = FALSE, !.key = None, !.attempt = None, !.got = None]
<1>1. /\ proc[p] \in Process /\ Knows(proc[p]) /\ proc[p].pc = "reread" /\ proc[p].op \in {"event", "agent"}
      /\ lock = p /\ sheet \in Row /\ UNCHANGED <<sheet, cases, inbox, tries, called, wire>>
  BY InProcess DEF Reread, Knows, UnderLock, Locked
<1>2. x \in Process /\ x.op = proc[p].op /\ x.seen = sheet /\ x.batch = proc[p].batch
  BY <1>1 DEF Process
<1>3. CASE Done(p)
  BY <1>1, <1>3, DoneKeeps
<1>4. CASE proc[p].op = "event" /\ ~ Done(p)
  <2> DEFINE y == [x EXCEPT !.pc = "replan"]
  <2>1. Unlock(p) /\ proc' = [proc EXCEPT ![p] = y]
    BY <1>2, <1>4 DEF Reread, Go
  <2> HIDE DEF x
  <2>2. y \in Process /\ y.pc = "replan" /\ y.op = "event" /\ y.seen = sheet /\ y.batch = proc[p].batch
    BY <1>2, <1>4 DEF Process, Steps
  <2> HIDE DEF y
  <2>3. Hand(y, cases, tries, called) /\ ~ UnderLock(y)
    BY <1>1, <1>4, <2>2 DEF Hand, Knows, UnderLock, Locked, Seeing, Trying
  <2>4. Takes(p) /\ (lock' = p) = UnderLock(y)
    BY <2>1, <2>3, Unlocks DEF UnderLock
  <2>5. QED
    BY <1>1, <2>1, <2>2, <2>3, <2>4, Turns
<1>5. CASE proc[p].op = "agent" /\ ~ Done(p)
  <2> DEFINE y == [x EXCEPT !.pc = "materialize"]
  <2>1. lock' = lock /\ proc' = [proc EXCEPT ![p] = y]
    BY <1>2, <1>5 DEF Reread, Go
  <2> HIDE DEF x
  <2>2. y \in Process /\ y.pc = "materialize" /\ y.op = "agent" /\ y.seen = sheet
    BY <1>2, <1>5 DEF Process, Steps
  <2> HIDE DEF y
  <2>3. Hand(y, cases, tries, called) /\ UnderLock(y)
    BY <1>1, <2>2 DEF Hand, Knows, UnderLock, Locked, Seeing, Trying
  <2>4. Takes(p) /\ (lock' = p) = UnderLock(y)
    BY <1>1, <2>1, <2>3 DEF Takes, UnderLock
  <2>5. QED
    BY <1>1, <2>1, <2>2, <2>3, <2>4, Turns
<1>6. QED
  BY <1>1, <1>3, <1>4, <1>5

-----------------------------------------------------------------------------
(* The recovery.                                                            *)

LEMMA RecoverReadKeeps == ASSUME IInv, NEW p \in Procs, RecoverRead(p) PROVE IInv'
<1> DEFINE k == proc[p].key
<1>1. /\ proc[p] \in Process /\ Knows(proc[p]) /\ proc[p].pc = "lock" /\ proc[p].op = "recover" /\ lock = None
      /\ k \in Keys /\ cases \in [Keys -> Case] /\ Recorded(cases, tries, called)
      /\ UNCHANGED <<sheet, cases, inbox, tries, called, wire>>
  BY InProcess DEF RecoverRead, Enter, Knows
<1>2. CASE Raise(p)
  BY <1>1, <1>2, RaiseKeeps
<1>3. CASE ~ Raise(p)
  <2>1. StillRecoverable(p, k) /\ lock' = p
    BY <1>3 DEF RecoverRead, Keep
  <2>2. PICK row : Go(p, [proc[p] EXCEPT !.pc = "recovered", !.got = RecoveredState(cases[k], k, row)])
    BY <1>3 DEF RecoverRead
  <2> DEFINE got == RecoveredState(cases[k], k, row)
             x == [proc[p] EXCEPT !.pc = "recovered", !.got = got]
  <2>3. /\ got \in {"superseded", "resolved_accept", "apply_outcome_unknown", "failed_retryable"}
        /\ got = "failed_retryable" => ~ cases[k].sent
    BY DEF RecoveredState
  <2>4. proc' = [proc EXCEPT ![p] = x]
    BY <2>2 DEF Go
  <2> HIDE DEF got
  <2>5. /\ x \in Process /\ x.pc = "recovered" /\ x.op = "recover" /\ x.key = k /\ x.got = got
        /\ x.attempt = proc[p].attempt
    <3>1. got \in States
      BY <2>3 DEF States, Supersedeable, Open, Waiting, Uncertain, Reopenable
    <3>2. QED
      BY <1>1, <3>1 DEF Process, Steps, Locked
  <2> HIDE DEF x
  <2>6. /\ cases[k].attempt = x.attempt /\ x.attempt # None /\ cases[k].state # "resolved_keep"
        /\ x.attempt \in Attempts
    BY <1>1, <2>1, <2>5 DEF StillRecoverable, Recoverable, Uncertain, Case
  <2>7. Settling(x, cases, called)
    BY <1>1, <2>3, <2>5, <2>6 DEF Settling, Recorded
  <2>8. Knows(x)
    BY <1>1, <2>5 DEF Knows, Seeing, Trying
  <2>9. Hand(x, cases, tries, called) /\ UnderLock(x)
    BY <2>5, <2>7, <2>8 DEF Hand, UnderLock, Locked, Trying
  <2>10. Takes(p) /\ (lock' = p) = UnderLock(x)
    BY <1>1, <2>1, <2>9 DEF Takes, UnderLock
  <2>11. QED
    BY <1>1, <2>4, <2>5, <2>9, <2>10, Turns
<1>4. QED
  BY <1>2, <1>3

LEMMA FinalizeRecoverKeeps == ASSUME IInv, NEW p \in Procs, FinalizeRecover(p) PROVE IInv'
<1> DEFINE k == proc[p].key
           got == proc[p].got
           c == [cases[k] EXCEPT !.state = got]
<1>1. /\ proc[p].pc = "recovered" /\ Settling(proc[p], cases, called) /\ UnderLock(proc[p])
      /\ cases \in [Keys -> Case] /\ Recorded(cases, tries, called)
      /\ UNCHANGED <<sheet, inbox, tries, called, wire>> /\ Done(p)
  BY InProcess DEF FinalizeRecover, Hand, UnderLock, Locked
<1>2. CASE cases[k].attempt # proc[p].attempt
  BY <1>1, <1>2, DoneKeeps DEF FinalizeRecover
<1>3. CASE cases[k].attempt = proc[p].attempt
  <2>1. cases' = [cases EXCEPT ![k] = c]
    BY <1>3 DEF FinalizeRecover
  <2>2. /\ k \in Keys /\ got \in {"superseded", "resolved_accept", "apply_outcome_unknown", "failed_retryable"}
        /\ got = "failed_retryable" => cases[k].attempt \notin called
    BY <1>1, <1>3 DEF Settling
  <2>3. c \in Case /\ c.state = got /\ c.auto = cases[k].auto /\ c.attempt = cases[k].attempt /\ c.sent = cases[k].sent
    <3>1. cases[k] \in Case
      BY <1>1, <2>2
    <3> HIDE DEF got
    <3>2. QED
      BY <2>2, <3>1 DEF Case, Supersedeable, Open, Waiting, Uncertain, Reopenable
  <2> HIDE DEF c, k, got
  <2>4. cases' \in [Keys -> Case] /\ Recorded(cases', tries', called')
    BY <1>1, <2>1, <2>2, <2>3 DEF Recorded
  <2>5. QED
    BY <1>1, <2>4, Finishing
<1>4. QED
  BY <1>2, <1>3

-----------------------------------------------------------------------------
LEMMA InitIInv == ASSUME Init PROVE IInv
<1>1. /\ sheet \in Row /\ tries = 0 /\ called = {} /\ wire = {} /\ lock = None
      /\ tries \in 0 .. MaxAttempts
  BY BoundAssumption DEF Init
<1>2. Blank \in Case /\ Blank.attempt = None /\ ~ Blank.auto /\ ~ Blank.sent /\ Blank.state = "absent"
  BY DEF Blank, Case
<1>3. cases \in [Keys -> Case] /\ \A k \in Keys : cases[k] = Blank
  BY <1>2 DEF Init
<1>4. inbox \in [Events -> Entry] /\ \A e \in Events : inbox[e].claim = None /\ inbox[e].state = "absent"
  BY DEF Init, Entry
<1>5. /\ proc \in [Procs -> Process]
      /\ \A p \in Procs : Hand(proc[p], cases, tries, called) /\ ~ UnderLock(proc[p])
  BY IdleHand DEF Init
<1>6. Owners
  BY <1>1, <1>5, NoneAssumption DEF Owners, UnderLock
<1>7. TypeOK
  BY <1>1, <1>3, <1>4, <1>5, <1>6 DEF TypeOK, Shapes
<1>8. Recorded(cases, tries, called)
  BY <1>1, <1>2, <1>3 DEF Recorded
<1>9. QED
  BY <1>5, <1>7, <1>8 DEF IInv, Hands

LEMMA NextIInv == IInv /\ [Next]_vars => IInv'
<1>1. SUFFICES ASSUME IInv, [Next]_vars PROVE IInv'
  OBVIOUS
<1>2. CASE UNCHANGED vars
  BY <1>1, <1>2 DEF vars, IInv, TypeOK, Shapes, Owners, Hands
<1>3. CASE \/ \E x \in Row : Edit(x)
           \/ \E a \in Attempts : Land(a)
           \/ \E e \in Events : Accept(e) \/ RetryDue(e) \/ LeaseRunsOut(e)
  BY <1>1, <1>3, OutsideKeeps
<1>4. CASE (\E p \in Workers : ClaimEvents(p)) \/ (\E p \in Operators : AnyCommand(p))
  BY <1>1, <1>4, ClaimEventsKeeps, CommandsKeep
<1>5. ASSUME NEW p \in Procs, Work(p)
      PROVE  IInv'
  <2>1. CASE EventRead(p) \/ EventPlan(p) \/ Recheck(p) \/ FreshRead(p) \/ EventFailed(p)
    BY <1>1, <2>1, EventReadKeeps, EventPlanKeeps, RecheckKeeps, FreshReadKeeps, EventFailedKeeps
  <2>2. CASE MaterializeName(p) \/ Complete(p) \/ MaterializeSeen(p) \/ ResolveExternal(p)
    BY <1>1, <2>2, MaterializeNameKeeps, CompleteKeeps, MaterializeSeenKeeps, ResolveExternalKeeps
  <2>3. CASE LockedRead(p) \/ FinalizeKeep(p) \/ RecoverRead(p) \/ FinalizeRecover(p) \/ Reread(p)
    BY <1>1, <2>3, LockedReadKeeps, FinalizeKeepKeeps, RecoverReadKeeps, FinalizeRecoverKeeps, RereadKeeps
  <2>4. CASE PrepareApply(p) \/ MarkRemoteAttempt(p) \/ FinalizeApply(p)
    BY <1>1, <2>4, PrepareApplyKeeps, MarkKeeps, FinalizeApplyKeeps
  <2>5. CASE ComparePatch(p) \/ SendPatch(p) \/ Readback(p)
    BY <1>1, <2>5, CallsKeep
  <2>6. QED
    BY <1>5, <2>1, <2>2, <2>3, <2>4, <2>5 DEF Work
<1>6. ASSUME NEW p \in Procs, ReadFails(p) \/ Crash(p)
      PROVE  IInv'
  BY <1>1, <1>6, FaultsKeep
<1>7. QED
  BY <1>1, <1>2, <1>3, <1>4, <1>5, <1>6 DEF Next

LEMMA Invariant == Spec => []IInv
<1>1. Init => IInv
  BY InitIInv
<1>2. QED
  BY <1>1, NextIInv, PTL DEF Spec

(* Every way a step may change a case.                                      *)
Writes(k, p) ==
    /\ proc[p].key = k
    /\ \/ /\ proc[p].pc = "prepare"
          /\ \E c : Observed(cases[k], c) /\ c.state \in {"pending_apply", "pending_confirmation", "failed_retryable"}
       \/ proc[p].pc = "mark" /\ cases'[k].state = cases[k].state
       \/ proc[p].pc \in {"finalize", "recovered"} /\ cases[k].attempt = proc[p].attempt
       \/ proc[p].pc = "settle" /\ cases'[k].state = "resolved_keep"

LEMMA CaseSteps ==
    ASSUME IInv, [Next]_vars, NEW k \in Keys
    PROVE  Observed(cases[k], cases'[k]) \/ \E p \in Procs : Writes(k, p)
<1>1. CASE cases' = cases
  BY <1>1 DEF Observed
<1>2. CASE \E p \in Procs : MaterializeName(p) \/ Complete(p) \/ MaterializeSeen(p) \/ ResolveExternal(p)
  BY <1>2, Observations DEF Observes
<1>3. ASSUME NEW p \in Procs, PrepareApply(p), cases' # cases
      PROVE  Observed(cases[k], cases'[k]) \/ Writes(k, p)
  <2> DEFINE seen == Found(proc[p].seen, proc[p].quoted)
             cs == ResolveAbsent(MaterializeFound(cases, seen), seen, proc[p].seen.ident)
  <2>1. cs \in [Keys -> Case] /\ Observes(cases, cs)
    BY <1>3, Prepares
  <2>2. /\ cases' = Applying(cs, proc[p].key, tries + 1, proc[p].op = "event")
        /\ cs[proc[p].key].state \in {"pending_apply", "pending_confirmation", "failed_retryable"}
        /\ proc[p].pc = "prepare"
    BY <1>3 DEF PrepareApply, Allowed
  <2> HIDE DEF cs
  <2>3. CASE k = proc[p].key
    BY <2>1, <2>2, <2>3 DEF Writes, Observes
  <2>4. CASE k # proc[p].key
    BY <2>1, <2>2, <2>4 DEF Applying, Observes
  <2>5. QED
    BY <2>3, <2>4
<1>4. ASSUME NEW p \in Procs,
             MarkRemoteAttempt(p) \/ FinalizeKeep(p) \/ FinalizeApply(p) \/ FinalizeRecover(p), cases' # cases
      PROVE  Observed(cases[k], cases'[k]) \/ Writes(k, p)
  <2>1. cases \in [Keys -> Case]
    BY InProcess
  <2>2. CASE k = proc[p].key
    BY <1>4, <2>1, <2>2 DEF MarkRemoteAttempt, FinalizeKeep, FinalizeApply, FinalizeRecover, Writes, Case
  <2>3. CASE k # proc[p].key
    <3>1. cases'[k] = cases[k]
      BY <1>4, <2>1, <2>3 DEF MarkRemoteAttempt, FinalizeKeep, FinalizeApply, FinalizeRecover
    <3>2. QED
      BY <3>1 DEF Observed
  <2>4. QED
    BY <2>2, <2>3
<1>5. ASSUME NEW p \in Procs, Work(p), cases' # cases
      PROVE  Observed(cases[k], cases'[k]) \/ \E q \in Procs : Writes(k, q)
  <2>1. /\ ~ (EventRead(p) \/ EventPlan(p) \/ Recheck(p) \/ FreshRead(p) \/ EventFailed(p))
        /\ ~ (LockedRead(p) \/ RecoverRead(p) \/ Reread(p))
        /\ ~ (ComparePatch(p) \/ SendPatch(p) \/ Readback(p))
    BY <1>5 DEF EventRead, EventPlan, Recheck, FreshRead, EventFailed, LockedRead, RecoverRead, Reread,
                ComparePatch, SendPatch, Readback
  <2>2. QED
    BY <1>2, <1>3, <1>4, <1>5, <2>1 DEF Work
<1>6. CASE \/ \E x \in Row : Edit(x)
           \/ \E a \in Attempts : Land(a)
           \/ \E e \in Events : Accept(e) \/ RetryDue(e) \/ LeaseRunsOut(e)
           \/ \E p \in Workers : ClaimEvents(p)
           \/ \E p \in Operators : AnyCommand(p)
           \/ \E p \in Procs : ReadFails(p) \/ Crash(p)
           \/ UNCHANGED vars
  <2>1. cases' = cases
    BY <1>6 DEF Edit, Land, Accept, RetryDue, LeaseRunsOut, ClaimEvents, AnyCommand, StartNotify, StartWrite,
                StartResolve, StartRecover, ReadFails, Crash, vars
  <2>2. QED
    BY <1>1, <2>1
<1>7. QED
  BY <1>1, <1>5, <1>6 DEF Next

-----------------------------------------------------------------------------
(* The tables and the processes keep their shape, and a process owns the    *)
(* locks exactly at the steps it takes under them.                          *)
THEOREM TypeCorrect == Spec => []TypeOK
<1>1. IInv => TypeOK
  BY DEF IInv
<1>2. QED
  BY <1>1, Invariant, PTL

(* A case is offered for an ordinary retry only if nobody ever called the   *)
(* remote side for its attempt.                                             *)
THEOREM RetriesAreSafe == Spec => []RetryableNeverSent
<1>1. IInv => RetryableNeverSent
  BY DEF IInv, Recorded, RetryableNeverSent
<1>2. QED
  BY <1>1, Invariant, PTL

(* Scans, edits, leases, crashes and other commands leave an automatic      *)
(* write that may have been sent to its read-back or to a recovery.         *)
THEOREM AutomaticHolds == Spec => AutomaticWriteHolds
<1> DEFINE Holds ==
             \A k \in Keys :
               cases[k].state \in Uncertain /\ cases[k].auto /\ cases[k].sent /\ cases'[k].state \notin Uncertain
                 => \E p \in Procs : proc[p].pc \in {"finalize", "recovered"} /\ proc[p].key = k
<1>1. IInv /\ [Next]_vars => [Holds]_vars
  <2>1. SUFFICES ASSUME IInv, [Next]_vars, NEW k \in Keys,
                        cases[k].state \in Uncertain, cases[k].auto, cases'[k].state \notin Uncertain
                 PROVE  \E p \in Procs : proc[p].pc \in {"finalize", "recovered"} /\ proc[p].key = k
    OBVIOUS
  <2>2. ~ Observed(cases[k], cases'[k])
    BY <2>1 DEF Observed, Uncertain, Reopenable
  <2>3. PICK p \in Procs : Writes(k, p)
    BY <2>1, <2>2, CaseSteps
  <2>4. proc[p].pc # "settle"
    <3>1. proc[p].pc = "settle" => Kind(k) = "conflict"
      BY <2>1, <2>3, InProcess DEF Writes, Knows
    <3>2. Kind(k) = "missing_completable"
      BY <2>1 DEF IInv, Recorded
    <3>3. QED
      BY <3>1, <3>2
  <2>5. proc[p].pc # "prepare"
    BY <2>1, <2>3 DEF Writes, Observed, Uncertain, Reopenable
  <2>6. QED
    BY <2>1, <2>3, <2>4, <2>5 DEF Writes
<1>2. QED
  BY <1>1, Invariant, PTL DEF AutomaticWriteHolds, Spec

(* A person's "keep" gives way only to another case of the field.           *)
THEOREM KeepsStand == Spec => KeepStands
<1> DEFINE Stands == \A k \in Keys : cases[k].state = "resolved_keep" => cases'[k].state \in {"resolved_keep", "superseded"}
<1>1. IInv /\ [Next]_vars => [Stands]_vars
  <2>1. SUFFICES ASSUME IInv, [Next]_vars, NEW k \in Keys, cases[k].state = "resolved_keep",
                        ~ Observed(cases[k], cases'[k])
                 PROVE  cases'[k].state \in {"resolved_keep", "superseded"}
    BY DEF Observed, Reopenable, Waiting
  <2>2. PICK p \in Procs : Writes(k, p)
    BY <2>1, CaseSteps
  <2>3. proc[p].pc # "prepare"
    BY <2>1, <2>2 DEF Writes, Observed, Reopenable, Waiting
  <2>4. proc[p].pc \in {"finalize", "recovered"} => cases[k].attempt # proc[p].attempt
    BY <2>1, <2>2, InProcess DEF Writes, Hand, Tried, Settling, Trying
  <2>5. QED
    BY <2>1, <2>2, <2>3, <2>4 DEF Writes
<1>2. QED
  BY <1>1, Invariant, PTL DEF KeepStands, Spec

(* A worker leaves the completion of an event with the cases and the event  *)
(* settled together, under its own claim, or with neither touched.          *)
THEOREM ClaimantSettles == Spec => SettledByClaimant
<1> DEFINE Settles(p) ==
             proc[p].pc = "complete" /\ proc'[p].pc # "complete"
               => (inbox'[InHand(proc[p])].state = "processed" /\ inbox[InHand(proc[p])].claim = p)
                  \/ (cases' = cases /\ inbox' = inbox)
<1>1. IInv /\ [Next]_vars => [\A p \in Workers : Settles(p)]_vars
  <2>1. SUFFICES ASSUME IInv, [Next]_vars, NEW p \in Workers, proc[p].pc = "complete", proc'[p].pc # "complete"
                 PROVE  \/ inbox'[InHand(proc[p])].state = "processed" /\ inbox[InHand(proc[p])].claim = p
                        \/ cases' = cases /\ inbox' = inbox
    OBVIOUS
  <2>2. proc \in [Procs -> Process] /\ inbox \in [Events -> Entry]
    BY <2>1 DEF IInv, TypeOK, Shapes
  <2>3. \A q \in Procs : \A x : Go(q, x) => q = p
    BY <2>1, <2>2 DEF Go
  <2>4. proc' # proc
    BY <2>1
  <2>5. ~ \/ \E x \in Row : Edit(x)
          \/ \E a \in Attempts : Land(a)
          \/ \E e \in Events : Accept(e) \/ RetryDue(e) \/ LeaseRunsOut(e)
          \/ UNCHANGED vars
    BY <2>4 DEF Edit, Land, Accept, RetryDue, LeaseRunsOut, vars
  <2>6. ~ \/ \E q \in Workers : ClaimEvents(q)
          \/ \E q \in Operators : AnyCommand(q)
    BY <2>1, <2>3 DEF ClaimEvents, AnyCommand, Command, StartNotify, StartWrite, StartResolve, StartRecover
  <2>7. CASE \E q \in Procs : ReadFails(q) \/ Crash(q)
    BY <2>7 DEF ReadFails, Crash
  <2>8. ASSUME NEW q \in Procs, Work(q)
        PROVE  Complete(p)
    <3>1. CASE EventRead(q) \/ EventPlan(q) \/ Recheck(q) \/ FreshRead(q) \/ MaterializeName(q) \/ EventFailed(q)
      BY <2>1, <2>3, <3>1 DEF EventRead, EventPlan, Recheck, Enter, FreshRead, MaterializeName, EventFailed
    <3>2. CASE LockedRead(q) \/ MaterializeSeen(q) \/ ResolveExternal(q) \/ FinalizeKeep(q)
      BY <2>1, <2>3, <3>2 DEF LockedRead, Enter, MaterializeSeen, ResolveExternal, FinalizeKeep, Done
    <3>3. CASE PrepareApply(q) \/ MarkRemoteAttempt(q) \/ ComparePatch(q) \/ SendPatch(q)
      BY <2>1, <2>3, <3>3 DEF PrepareApply, MarkRemoteAttempt, ComparePatch, SendPatch, Raise
    <3>4. CASE Readback(q) \/ FinalizeApply(q) \/ Reread(q) \/ RecoverRead(q) \/ FinalizeRecover(q)
      BY <2>1, <2>3, <3>4 DEF Readback, FinalizeApply, Reread, RecoverRead, Enter, FinalizeRecover, Raise, Done
    <3>5. CASE Complete(q)
      <4>1. q = p
        BY <2>3, <3>5 DEF Complete
      <4>2. QED
        BY <3>5, <4>1
    <3>6. QED
      BY <2>8, <3>1, <3>2, <3>3, <3>4, <3>5 DEF Work
  <2>9. CASE Complete(p)
    <3> DEFINE e == InHand(proc[p])
    <3>1. e \in Events
      <4>1. proc[p].batch \in SUBSET Events /\ proc[p].batch # {}
        BY <2>1, <2>9, InProcess DEF Knows, Process
      <4>2. QED
        BY <4>1, InHandIsOfBatch
    <3>2. CASE HoldsClaim(p, e)
      <4>1. inbox' = [inbox EXCEPT ![e].state = "processed", ![e].claim = None, ![e].late = FALSE]
        BY <2>9, <3>2 DEF Complete
      <4> HIDE DEF e
      <4>2. inbox[e] \in Entry
        BY <2>2, <3>1
      <4>3. inbox'[e].state = "processed"
        BY <2>2, <3>1, <4>1, <4>2 DEF Entry
      <4>4. QED
        BY <3>2, <4>3 DEF HoldsClaim, e
    <3>3. CASE ~ HoldsClaim(p, e)
      BY <2>9, <3>3 DEF Complete
    <3>4. QED
      BY <3>2, <3>3
  <2>10. QED
    BY <2>1, <2>5, <2>6, <2>7, <2>8, <2>9 DEF Next
<1>2. QED
  BY <1>1, Invariant, PTL DEF SettledByClaimant, Spec
=============================================================================

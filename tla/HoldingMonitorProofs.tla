-------------------------- MODULE HoldingMonitorProofs --------------------------
(***************************************************************************)
(* What is proved of the monitor of the holdings sheet, for any records,   *)
(* identities and contents, any edits and announcements and any number of  *)
(* commands, failures and crashes.                                         *)
(*                                                                         *)
(* The comparison of two reads is a function, and the theorems follow from *)
(* what it returns (the lemmas on Observed, Told and Reconciled) once the  *)
(* baseline a scan has in hand is known to be the stored one: while a scan *)
(* owns the lock, the clock alone touches the baseline.                    *)
(***************************************************************************)
EXTENDS HoldingMonitor, TLAPS

USE DEF Modes

(* An entry of the baseline a scan has read, and what the clock has made of *)
(* it since.                                                                *)
Kept(old, now) ==
    /\ old.state = now.state
    /\ old.snapshot = now.snapshot
    /\ old.missing = "aged" => now.missing = "aged"

Hand(x, now, requested) ==
    /\ x.pc # "idle" => /\ x.old \in Baseline
                        /\ \A r \in Rids : Kept(x.old[r], now[r])
                        /\ x.generation <= requested
    /\ x.pc = "settle" => /\ x.rows # None
                          /\ x.generation <= x.asked
                          /\ x.asked <= requested

Hands == \A m \in Modes : Hand(scan[m], base, mon.requested)

IInv == TypeOK /\ Hands /\ CompletedWasRead

-----------------------------------------------------------------------------
(* What a read makes of the record of a row.                                *)
LEMMA GoneIsIncomplete ==
    ASSUME NEW rows, NEW old \in Baseline, NEW r \in Gone(rows, old)
    PROVE  /\ r \in Rids /\ rows[r] = None
           /\ old[r].state \in {"active", "gap", "missing_candidate"}
           /\ old[r].snapshot # None \/ old[r].current # None
BY DEF Gone, Present, Baseline, Known, Complete, States

LEMMA DeletedWasMissing ==
    ASSUME NEW rows, NEW old \in Baseline, NEW r \in Deleted(rows, old)
    PROVE  r \in Gone(rows, old) /\ r \in Rids /\ rows[r] = None /\ old[r].missing = "aged"
           /\ old[r].state = "missing_candidate"
BY DEF Deleted, Gone, Present, Baseline, Known, Complete, States

Made(o, state, snapshot, missing, current) ==
    /\ o \in Known
    /\ o.state = state /\ o.snapshot = snapshot /\ o.missing = missing /\ o.current = current

(* What becomes of a record, by what the read holds of it.                  *)
LEMMA OfTheDeleted ==
    ASSUME NEW rows \in Sheet, NEW old \in Baseline, NEW r \in Deleted(rows, old)
    PROVE  Made(Observed(rows, old, r), "deleted", old[r].snapshot, "no", old[r].current)
<1>1. old[r] \in Known
  BY DeletedWasMissing DEF Baseline
<1>2. Observed(rows, old, r) = [old[r] EXCEPT !.state = "deleted", !.missing = "no"]
  BY DeletedWasMissing, GoneIsIncomplete DEF Observed, Present
<1>3. QED
  BY <1>1, <1>2 DEF Made, Known, States

LEMMA OfTheAbsent ==
    ASSUME NEW rows \in Sheet, NEW old \in Baseline, NEW r \in Gone(rows, old) \ Deleted(rows, old)
    PROVE  Made(Observed(rows, old, r), "missing_candidate", old[r].snapshot, MissingSince(old[r]), old[r].current)
<1>1. old[r] \in Known
  BY GoneIsIncomplete DEF Baseline
<1>2. Observed(rows, old, r) = [old[r] EXCEPT !.state = "missing_candidate", !.missing = MissingSince(old[r])]
  BY GoneIsIncomplete DEF Observed, Present
<1>3. MissingSince(old[r]) \in {"no", "fresh", "aged"}
  BY <1>1 DEF MissingSince, Known
<1>4. QED
  BY <1>1, <1>2, <1>3 DEF Made, Known, States

LEMMA OfTheUnknown ==
    ASSUME NEW rows \in Sheet, NEW old \in Baseline, NEW r \in Rids,
           r \notin Gone(rows, old), rows[r] = None
    PROVE  Observed(rows, old, r) = old[r]
BY DeletedWasMissing DEF Observed, Present

LEMMA OfTheExcluded ==
    ASSUME NEW rows \in Sheet, NEW old \in Baseline, NEW r \in Rids,
           rows[r] # None, Excluded(rows[r])
    PROVE  \/ /\ old[r].state \notin {"deleted", "out_of_scope"}
              /\ Made(Observed(rows, old, r), "out_of_scope", rows[r], "no", None)
           \/ Observed(rows, old, r) = old[r] /\ old[r].state # "active"
<1>1. old[r].state = "active" => old[r].snapshot # None
  BY DEF Baseline, Complete
<1>2. r \notin Gone(rows, old) /\ r \notin Deleted(rows, old) /\ r \in Present(rows)
  BY DeletedWasMissing, GoneIsIncomplete DEF Present
<1>3. CASE old[r].snapshot # None /\ old[r].state \notin {"deleted", "out_of_scope"}
  <2>1. Observed(rows, old, r) = [Untracked EXCEPT !.state = "out_of_scope", !.snapshot = rows[r]]
    BY <1>2, <1>3 DEF Observed, Problem
  <2>2. rows[r] \in Row
    BY DEF Sheet
  <2>3. Made(Observed(rows, old, r), "out_of_scope", rows[r], "no", None)
    BY <2>1, <2>2 DEF Made, Known, Untracked, States
  <2>4. QED
    BY <2>3, <1>3
<1>4. CASE ~ (old[r].snapshot # None /\ old[r].state \notin {"deleted", "out_of_scope"})
  <2>1. Observed(rows, old, r) = old[r]
    BY <1>2, <1>4 DEF Observed, Problem
  <2>2. QED
    BY <1>1, <1>4, <2>1
<1>5. QED
  BY <1>3, <1>4

LEMMA OfTheProblem ==
    ASSUME NEW rows \in Sheet, NEW old \in Baseline, NEW r \in Rids,
           rows[r] # None, Problem(rows, old, r)
    PROVE  Made(Observed(rows, old, r), "gap", old[r].snapshot, "no", rows[r])
<1>1. r \notin Gone(rows, old) /\ r \notin Deleted(rows, old) /\ r \in Present(rows)
  BY DeletedWasMissing, GoneIsIncomplete DEF Present
<1>2. Observed(rows, old, r) = [state |-> "gap", snapshot |-> old[r].snapshot,
                                missing |-> "no", current |-> rows[r]]
  BY <1>1 DEF Observed, Problem
<1>3. rows[r] \in Row /\ old[r] \in Known
  BY DEF Sheet, Baseline
<1>4. QED
  BY <1>2, <1>3 DEF Made, Known, States

LEMMA OfTheRest ==
    ASSUME NEW rows \in Sheet, NEW old \in Baseline, NEW r \in Rids,
           rows[r] # None, ~ Excluded(rows[r]), ~ Problem(rows, old, r)
    PROVE  Made(Observed(rows, old, r), "active", rows[r], "no", None) /\ ~ Bad(rows[r])
<1>1. r \notin Gone(rows, old) /\ r \notin Deleted(rows, old) /\ r \in Present(rows)
  BY DeletedWasMissing, GoneIsIncomplete DEF Present
<1>2. Observed(rows, old, r) = [Untracked EXCEPT !.state = "active", !.snapshot = rows[r]]
  BY <1>1 DEF Observed
<1>3. rows[r] \in Row
  BY DEF Sheet
<1>4. QED
  BY <1>2, <1>3 DEF Made, Known, States, Untracked, Problem

LEMMA ObservedIsComplete ==
    ASSUME NEW rows \in Sheet, NEW old \in Baseline
    PROVE  [r \in Rids |-> Observed(rows, old, r)] \in Baseline
<1> SUFFICES ASSUME NEW r \in Rids
             PROVE  Observed(rows, old, r) \in Known /\ Complete(Observed(rows, old, r))
  BY DEF Baseline
<1>1. old[r] \in Known /\ Complete(old[r])
  BY DEF Baseline
<1>2. r \in Gone(rows, old) => old[r].snapshot # None \/ old[r].current # None
  BY GoneIsIncomplete
<1>3. CASE r \in Deleted(rows, old)
  BY <1>2, <1>3, DeletedWasMissing, OfTheDeleted DEF Made, Complete
<1>4. CASE r \in Gone(rows, old) \ Deleted(rows, old)
  <2>1. MissingSince(old[r]) # "no"
    BY DEF MissingSince
  <2>2. QED
    BY <1>2, <1>4, <2>1, OfTheAbsent DEF Made, Complete
<1>5. CASE r \notin Gone(rows, old) /\ rows[r] = None
  BY <1>1, <1>5, OfTheUnknown
<1>6. CASE rows[r] # None /\ Excluded(rows[r])
  BY <1>1, <1>6, OfTheExcluded DEF Made, Complete
<1>7. CASE rows[r] # None /\ Problem(rows, old, r)
  BY <1>7, OfTheProblem DEF Made, Complete
<1>8. CASE rows[r] # None /\ ~ Excluded(rows[r]) /\ ~ Problem(rows, old, r)
  BY <1>8, OfTheRest DEF Made, Complete
<1>9. QED
  BY <1>3, <1>4, <1>5, <1>6, <1>7, <1>8 DEF Problem

-----------------------------------------------------------------------------
(* What the reader of all receipts believes after a read.                   *)
ToldBy(rows, old, r) ==
    IF \E s \in Present(rows) : Observed(rows, old, s).state = "active" /\ r \in Replaced(rows, old, s)
    THEN None ELSE Told(rows, old, r)

LEMMA ToldOf ==
    ASSUME NEW rows \in Sheet, NEW old \in Baseline, NEW r \in Rids
    PROVE  /\ r \in Deleted(rows, old) => ToldBy(rows, old, r) = None
           /\ r \notin Deleted(rows, old) => ToldBy(rows, old, r) = Told(rows, old, r)
           /\ told \in Sheet => ToldBy(rows, old, r) \in Row \cup {None}
<1>1. \A s : Replaced(rows, old, s) \subseteq Deleted(rows, old)
  BY DEF Replaced
<1>2. r \in Deleted(rows, old) => Told(rows, old, r) = None
  BY DeletedWasMissing DEF Told
<1>3. r \notin Deleted(rows, old) => ToldBy(rows, old, r) = Told(rows, old, r)
  BY <1>1 DEF ToldBy
<1>4. rows[r] \in Row \cup {None}
  BY DEF Sheet
<1>5. ASSUME told \in Sheet, r \notin Deleted(rows, old)  PROVE Told(rows, old, r) \in Row \cup {None}
  <2>1. told[r] \in Row \cup {None}
    BY <1>5 DEF Sheet
  <2>2. QED
    BY <1>4, <1>5, <2>1 DEF Told
<1>6. QED
  BY <1>2, <1>3, <1>5 DEF ToldBy

Matches(t, o) ==
    IF o.state = "deleted" THEN t = None
    ELSE t = o.snapshot \/ (t = None /\ o.snapshot.quantity = 0)

(* The receipts of a read say what it changed: a reader who knew the        *)
(* baseline before knows it after, unless a deleted record came back.       *)
LEMMA ReaderFollows ==
    ASSUME NEW rows \in Sheet, NEW old \in Baseline, NEW r \in Rids,
           Matches(told[r], old[r]), rows[r] # None => old[r].state # "deleted"
    PROVE  Matches(ToldBy(rows, old, r), Observed(rows, old, r))
<1>1. CASE r \in Deleted(rows, old)
  BY <1>1, OfTheDeleted, ToldOf DEF Matches, Made
<1>2. CASE r \in Gone(rows, old) \ Deleted(rows, old)
  <2>1. Observed(rows, old, r).state = "missing_candidate"
        /\ Observed(rows, old, r).snapshot = old[r].snapshot
    BY <1>2, OfTheAbsent DEF Made
  <2>2. ToldBy(rows, old, r) = told[r] /\ old[r].state # "deleted"
    BY <1>2, <2>1, ToldOf, GoneIsIncomplete DEF Told
  <2>3. QED
    BY <2>1, <2>2 DEF Matches
<1>3. CASE r \notin Gone(rows, old) /\ rows[r] = None
  <2>1. r \notin Deleted(rows, old)
    BY <1>3, DeletedWasMissing
  <2>2. ToldBy(rows, old, r) = told[r]
    BY <1>3, <2>1, ToldOf DEF Told
  <2>3. QED
    BY <1>3, <2>2, OfTheUnknown
<1>4. ASSUME rows[r] # None  PROVE r \notin Deleted(rows, old) /\ ToldBy(rows, old, r) = Told(rows, old, r)
  BY <1>4, DeletedWasMissing, ToldOf
<1>5. CASE rows[r] # None /\ Excluded(rows[r])
  <2>1. CASE Observed(rows, old, r) = old[r] /\ old[r].state # "active"
    <3>1. Told(rows, old, r) = told[r]
      BY <1>4, <1>5, <2>1 DEF Told
    <3>2. QED
      BY <1>4, <1>5, <2>1, <3>1
  <2>2. CASE /\ old[r].state \notin {"deleted", "out_of_scope"}
             /\ Made(Observed(rows, old, r), "out_of_scope", rows[r], "no", None)
    <3>1. Told(rows, old, r) = rows[r]
      BY <1>4, <1>5, <2>2 DEF Told, Made
    <3>2. ToldBy(rows, old, r) = rows[r]
      BY <1>4, <1>5, <3>1
    <3>3. Observed(rows, old, r).state # "deleted" /\ Observed(rows, old, r).snapshot = rows[r]
      BY <2>2 DEF Made
    <3>4. QED
      BY <3>2, <3>3 DEF Matches
  <2>3. QED
    BY <1>5, <2>1, <2>2, OfTheExcluded
<1>6. CASE rows[r] # None /\ Problem(rows, old, r)
  <2>1. Observed(rows, old, r).state = "gap" /\ Observed(rows, old, r).snapshot = old[r].snapshot
    BY <1>6, OfTheProblem DEF Made
  <2>2. Told(rows, old, r) = told[r]
    BY <1>4, <1>6, <2>1 DEF Told
  <2>3. QED
    BY <1>4, <1>6, <2>1, <2>2 DEF Matches
<1>7. CASE rows[r] # None /\ ~ Excluded(rows[r]) /\ ~ Problem(rows, old, r)
  <2>1. /\ Observed(rows, old, r).state = "active"
        /\ Observed(rows, old, r).snapshot = rows[r]
        /\ ~ Bad(rows[r]) /\ rows[r] \in Row
    BY <1>7, OfTheRest DEF Made, Sheet
  <2>2. CASE Changed(rows, old, r)
    <3>1. Told(rows, old, r) = rows[r]
      BY <1>4, <1>7, <2>1, <2>2 DEF Told
    <3>2. ToldBy(rows, old, r) = rows[r]
      BY <1>4, <1>7, <3>1
    <3>3. QED
      BY <2>1, <3>2 DEF Matches
  <2>3. CASE ~ Changed(rows, old, r)
    <3>1. Told(rows, old, r) = told[r]
      BY <1>4, <1>7, <2>1, <2>3 DEF Told
    <3>2. CASE old[r].snapshot = None
      <4>1. rows[r].quantity = 0
        BY <2>1, <2>3, <3>2, MonitorAssumption DEF Changed, Bad
      <4>2. told[r] = None
        BY <1>7, <3>2 DEF Matches
      <4>3. QED
        BY <1>4, <1>7, <2>1, <3>1, <4>1, <4>2 DEF Matches
    <3>3. CASE old[r].snapshot # None
      <4>1. old[r].snapshot = rows[r] /\ old[r].state # "deleted"
        BY <1>7, <2>3, <3>3 DEF Changed
      <4>2. QED
        BY <1>4, <1>7, <2>1, <3>1, <4>1 DEF Matches
    <3>4. QED
      BY <3>2, <3>3
  <2>4. QED
    BY <2>2, <2>3
<1>8. QED
  BY <1>1, <1>2, <1>3, <1>5, <1>6, <1>7 DEF Problem

-----------------------------------------------------------------------------
(* The cases of duplicates that a read leaves open.                         *)
LEMMA ReconciledIsTyped ==
    ASSUME NEW rows \in Sheet, NEW old \in Baseline, open \subseteq Case, OneCaseEach
    PROVE  /\ Reconciled(rows, Covered(rows, old), Deleted(rows, old)) \subseteq Case
           /\ \A c, d \in Reconciled(rows, Covered(rows, old), Deleted(rows, old)) :
                 c.record = d.record => c = d
<1> DEFINE covered == Covered(rows, old)
           deleted == Deleted(rows, old)
           safe == {c \in DuplicateCases(rows, covered) :
                      c \in open \/ \A d \in open : d.record = c.record => FullyObserved(d, rows, covered, deleted)}
           kept == {c \in open : (\A d \in safe : d.record # c.record) /\ ~ Closes(c, rows, covered, deleted)}
<1>1. Reconciled(rows, covered, deleted) = safe \cup kept
  BY DEF Reconciled
<1>2. \A c \in safe : /\ c.record \in Rids /\ rows[c.record] # None
                      /\ c = [record |-> c.record, asset |-> rows[c.record].asset, members |-> Same(rows, c.record)]
  BY DEF DuplicateCases, Present
<1>3. safe \subseteq Case
  <2> SUFFICES ASSUME NEW c \in safe  PROVE c \in Case
    OBVIOUS
  <2>1. rows[c.record] \in Row
    BY <1>2 DEF Sheet
  <2>2. rows[c.record].asset \in Assets
    BY <2>1, MonitorAssumption
  <2>3. Same(rows, c.record) \subseteq Rids
    BY DEF Same, Present
  <2>4. QED
    BY <1>2, <2>2, <2>3 DEF Case
<1>4. kept \subseteq open
  OBVIOUS
<1>5. \A c, d \in safe : c.record = d.record => c = d
  BY <1>2
<1>6. \A c \in kept, d \in safe : c.record # d.record
  OBVIOUS
<1>7. \A c, d \in kept : c.record = d.record => c = d
  BY DEF OneCaseEach
<1> HIDE DEF safe, kept
<1>8. QED
  BY <1>1, <1>3, <1>4, <1>5, <1>6, <1>7

(* A case that a read closes: its row was absent twice, or another case of  *)
(* its row replaces it, or the row is read with another identity, or every  *)
(* member is read somewhere or absent twice.                                *)
LEMMA ClosedOnProof ==
    ASSUME NEW rows \in Sheet, NEW old \in Baseline, NEW c \in open,
           c \notin Reconciled(rows, Covered(rows, old), Deleted(rows, old))
    PROVE  \/ c.record \in Deleted(rows, old)
           \/ \E d \in Reconciled(rows, Covered(rows, old), Deleted(rows, old)) : d.record = c.record
           \/ /\ rows[c.record] # None
              /\ \/ rows[c.record].asset # c.asset
                 \/ \A s \in c.members : rows[s] # None \/ s \in Deleted(rows, old)
<1> DEFINE covered == Covered(rows, old)
           deleted == Deleted(rows, old)
           safe == {d \in DuplicateCases(rows, covered) :
                      d \in open \/ \A e \in open : e.record = d.record => FullyObserved(e, rows, covered, deleted)}
<1>1. /\ safe \subseteq Reconciled(rows, covered, deleted)
      /\ (\A d \in safe : d.record # c.record) => Closes(c, rows, covered, deleted)
  BY DEF Reconciled
<1>2. CASE \E d \in safe : d.record = c.record
  BY <1>1, <1>2
<1>3. CASE Closes(c, rows, covered, deleted)
  <2>1. covered \subseteq deleted \cup Present(rows)
    BY DEF Covered
  <2>2. QED
    BY <1>3, <2>1 DEF Closes, FullyObserved, Present
<1>4. QED
  BY <1>1, <1>2, <1>3

-----------------------------------------------------------------------------
(* The scans: one at a time, and the baseline in its hand is the stored one.*)
LEMMA OneScan ==
    ASSUME Shapes, Owners, NEW m \in Modes, NEW n \in Modes, scan[m].pc # "idle", scan[n].pc # "idle"
    PROVE  m = n /\ lock = m
BY DEF Owners

LEMMA NoScanWhenFree ==
    ASSUME Shapes, Owners, lock = None, NEW m \in Modes
    PROVE  scan[m].pc = "idle"
BY MonitorAssumption DEF Owners

LEMMA NoneIsNothing ==
    /\ None \notin Row /\ None \notin Int /\ None \notin Modes /\ None \notin Sheet
    /\ Interval \in Nat /\ Interval > 1
BY MonitorAssumption DEF Sheet

LEMMA MonitorFields ==
    ASSUME Shapes
    PROVE  /\ mon.ready \in BOOLEAN /\ mon.enabled \in BOOLEAN
           /\ mon.requested \in Nat /\ mon.completed \in Nat /\ mon.failures \in Nat /\ mon.seen \in Nat
           /\ mon.due \in 0 .. Interval \cup {None}
BY DEF Shapes, Monitor

LEMMA ScanFields ==
    ASSUME Shapes, NEW m \in Modes
    PROVE  /\ scan[m] \in Scan /\ scan[m].pc \in {"idle", "read", "settle"}
           /\ scan[m].generation \in Nat /\ scan[m].asked \in Nat
           /\ scan[m].old \in Baseline \cup {None} /\ scan[m].rows \in Sheet \cup {None}
BY DEF Shapes, Scan

LEMMA IdleIsScan == Idle \in Scan /\ Idle.pc = "idle"
BY DEF Idle, Scan

LEMMA RequestKeeps ==
    ASSUME NEW m \in Monitor, NEW steps \in {0, 1}
    PROVE  /\ Request(m, steps) \in Monitor
           /\ Request(m, steps).requested >= m.requested
           /\ Request(m, steps).completed = m.completed /\ Request(m, steps).seen = m.seen
<1>1. Sooner(m.due, steps) \in 0 .. Interval \cup {None}
  BY NoneIsNothing DEF Sooner, Monitor
<1>2. m.requested + 1 \in Nat /\ m.requested + 1 >= m.requested
  BY DEF Monitor
<1>3. CASE m.ready /\ m.enabled
  <2> DEFINE due == IF m.failures > 0 THEN m.due ELSE Sooner(m.due, steps)
  <2>1. due \in 0 .. Interval \cup {None}
    BY <1>1 DEF Monitor
  <2>2. Request(m, steps) = [m EXCEPT !.requested = m.requested + 1, !.due = due]
    BY <1>3 DEF Request
  <2> HIDE DEF due
  <2>3. QED
    BY <1>2, <2>1, <2>2 DEF Monitor
<1>4. CASE ~ (m.ready /\ m.enabled)
  BY <1>4 DEF Request, Monitor
<1>5. QED
  BY <1>3, <1>4

LEMMA SpendKeeps ==
    ASSUME Shapes, NEW kind \in {"edits", "announced", "troubles"}, NEW limit, Spend(kind, limit)
    PROVE  budget' \in [{"edits", "announced", "troubles"} -> Nat]
BY DEF Shapes, Spend

LEMMA DelayIsDue ==
    ASSUME NEW rows, NEW requested, NEW generation
    PROVE  Delay(rows, 0, requested, generation) \in 0 .. Interval
BY NoneIsNothing DEF Delay

-----------------------------------------------------------------------------
(* Every step keeps the shapes.                                             *)
LEMMA EditKeepsShapes ==
    ASSUME Shapes, NEW r \in Rids, NEW x \in Row \cup {None}, Edit(r, x)
    PROVE  Shapes'
<1>1. sheet' \in Sheet
  BY DEF Shapes, Edit, Sheet
<1>2. budget' \in [{"edits", "announced", "troubles"} -> Nat]
  BY SpendKeeps DEF Edit
<1>3. QED
  BY <1>1, <1>2 DEF Shapes, Edit

LEMMA AnnounceKeepsShapes ==
    ASSUME Shapes, Announce
    PROVE  Shapes'
<1>1. budget' \in [{"edits", "announced", "troubles"} -> Nat]
  BY SpendKeeps DEF Announce
<1>2. mon' \in Monitor
  BY RequestKeeps DEF Announce, Shapes
<1>3. QED
  BY <1>1, <1>2 DEF Shapes, Announce

LEMMA TickKeepsBaseline ==
    ASSUME Shapes, Tick
    PROVE  base' \in Baseline /\ \A r \in Rids : Kept(base[r], base'[r])
<1> SUFFICES ASSUME NEW r \in Rids
             PROVE  base'[r] \in Known /\ Complete(base'[r]) /\ Kept(base[r], base'[r])
  BY DEF Tick, Baseline
<1>1. base[r] \in Known /\ Complete(base[r])
  BY DEF Shapes, Baseline
<1>2. CASE base[r].missing = "fresh"
  BY <1>1, <1>2 DEF Tick, Known, Complete, Kept
<1>3. CASE base[r].missing # "fresh"
  BY <1>1, <1>3 DEF Tick, Kept
<1>4. QED
  BY <1>2, <1>3

LEMMA TickKeepsShapes ==
    ASSUME Shapes, Tick
    PROVE  Shapes'
<1>1. mon' \in Monitor
  <2> DEFINE due == IF mon.due \in {None, 0} THEN mon.due ELSE mon.due - 1
  <2>1. due \in 0 .. Interval \cup {None}
    BY MonitorFields, NoneIsNothing
  <2>2. mon' = [mon EXCEPT !.due = due]
    BY DEF Tick
  <2> HIDE DEF due
  <2>3. QED
    BY <2>1, <2>2 DEF Shapes, Monitor
<1>2. QED
  BY <1>1, TickKeepsBaseline DEF Shapes, Tick

LEMMA StartKeepsShapes ==
    ASSUME Shapes, Start
    PROVE  Shapes'
<1>1. [mon EXCEPT !.enabled = TRUE] \in Monitor
  BY DEF Shapes, Monitor
<1>2. mon' \in Monitor
  BY <1>1, RequestKeeps DEF Start
<1>3. QED
  BY <1>2 DEF Shapes, Start

LEMMA StopKeepsShapes ==
    ASSUME Shapes, Stop
    PROVE  Shapes'
<1>1. budget' \in [{"edits", "announced", "troubles"} -> Nat]
  BY SpendKeeps DEF Stop
<1>2. mon' \in Monitor
  BY DEF Stop, Shapes, Monitor
<1>3. QED
  BY <1>1, <1>2 DEF Shapes, Stop

(* A first baseline holds of every record nothing or the row it had.        *)
LEMMA FirstBaseline ==
    ASSUME Shapes, Initialize
    PROVE  /\ base' \in Baseline
           /\ \A r \in Rids : base'[r].state \in {"untracked", "active"}
<1> DEFINE fresh == [r \in Rids |-> Untracked]
<1>1. Untracked \in Known /\ Complete(Untracked) /\ Untracked.state = "untracked" /\ Untracked.snapshot = None
  BY DEF Untracked, Known, Complete, States
<1>2. fresh \in Baseline
  BY <1>1 DEF Baseline
<1>3. sheet \in Sheet
  BY DEF Shapes
<1>4. base' = [r \in Rids |-> Observed(sheet, fresh, r)] /\ \A r \in Present(sheet) : ~ Problem(sheet, fresh, r)
  BY DEF Initialize
<1>5. \A r \in Rids : fresh[r] = Untracked
  OBVIOUS
<1> HIDE DEF fresh
<1>6. base' \in Baseline
  BY <1>2, <1>3, <1>4, ObservedIsComplete
<1>7. ASSUME NEW r \in Rids  PROVE Observed(sheet, fresh, r).state \in {"untracked", "active"}
  <2>1. r \notin Gone(sheet, fresh)
    BY <1>1, <1>2, <1>5, GoneIsIncomplete
  <2>2. CASE sheet[r] = None
    BY <1>1, <1>2, <1>3, <1>5, <2>1, <2>2, OfTheUnknown
  <2>3. CASE sheet[r] # None /\ Excluded(sheet[r])
    <3>1. r \in Present(sheet) /\ r \notin Deleted(sheet, fresh)
      BY <1>2, <2>1, <2>3, DeletedWasMissing DEF Present
    <3>2. Observed(sheet, fresh, r) = fresh[r]
      BY <1>1, <1>5, <2>1, <2>3, <3>1 DEF Observed, Problem
    <3>3. QED
      BY <1>1, <1>5, <3>2
  <2>4. CASE sheet[r] # None /\ ~ Excluded(sheet[r])
    <3>1. ~ Problem(sheet, fresh, r)
      BY <1>4, <2>4 DEF Present
    <3>2. QED
      BY <1>2, <1>3, <2>4, <3>1, OfTheRest DEF Made
  <2>5. QED
    BY <2>2, <2>3, <2>4
<1>8. QED
  BY <1>4, <1>6, <1>7

LEMMA InitializeKeepsShapes ==
    ASSUME Shapes, Initialize
    PROVE  Shapes'
<1>1. budget' \in [{"edits", "announced", "troubles"} -> Nat]
  BY SpendKeeps DEF Initialize, Shapes
<1>2. base' \in Baseline
  BY FirstBaseline
<1>3. told' \in Sheet
  BY <1>2 DEF Initialize, Baseline, Known, Sheet
<1>4. mon' \in Monitor
  BY DEF Initialize, Monitor
<1>5. QED
  BY <1>1, <1>2, <1>3, <1>4 DEF Shapes, Initialize

(* What a scan that settles has in hand.                                    *)
LEMMA InHand ==
    ASSUME Shapes, Hands, NEW m \in Modes, scan[m].pc = "settle"
    PROVE  /\ scan[m].rows \in Sheet /\ scan[m].old \in Baseline
           /\ \A r \in Rids : Kept(scan[m].old[r], base[r])
           /\ scan[m].generation <= scan[m].asked
BY ScanFields DEF Hands, Hand

LEMMA BeginKeepsShapes ==
    ASSUME Shapes, NEW m \in Modes, Begin(m)
    PROVE  /\ Shapes'
           /\ scan' = [scan EXCEPT ![m] = scan'[m]]
           /\ scan'[m].pc = "read" /\ scan'[m].old = base /\ scan'[m].generation = mon.requested
<1>1. budget' \in [{"edits", "announced", "troubles"} -> Nat]
  BY SpendKeeps DEF Begin, Shapes
<1> DEFINE x == [Idle EXCEPT !.pc = "read", !.old = base, !.generation = mon.requested]
<1>2. x \in Scan /\ x.pc = "read" /\ x.old = base /\ x.generation = mon.requested
  BY MonitorFields DEF Idle, Scan, Shapes
<1>3. scan' = [scan EXCEPT ![m] = x]
  BY DEF Begin
<1> HIDE DEF x
<1>4. scan' \in [Modes -> Scan] /\ scan'[m] = x
  BY <1>2, <1>3 DEF Shapes
<1>5. lock' \in Modes \cup {None}
  BY DEF Begin, Enter
<1>6. QED
  BY <1>1, <1>2, <1>3, <1>4, <1>5 DEF Shapes, Begin

LEMMA ReadKeepsShapes ==
    ASSUME Shapes, NEW m \in Modes, Read(m)
    PROVE  /\ Shapes'
           /\ scan' = [scan EXCEPT ![m] = scan'[m]]
           /\ scan'[m].pc = "settle" /\ scan'[m].rows = sheet /\ scan'[m].asked = mon.requested
           /\ scan'[m].old = scan[m].old /\ scan'[m].generation = scan[m].generation
<1> DEFINE x == [scan[m] EXCEPT !.pc = "settle", !.rows = sheet, !.asked = mon.requested]
<1>1. scan[m] \in Scan /\ sheet \in Sheet /\ mon.requested \in Nat
  BY ScanFields, MonitorFields DEF Shapes
<1>2. /\ x \in Scan /\ x.pc = "settle" /\ x.rows = sheet /\ x.asked = mon.requested
      /\ x.old = scan[m].old /\ x.generation = scan[m].generation
  BY <1>1 DEF Scan
<1>3. scan' = [scan EXCEPT ![m] = x]
  BY DEF Read, Shapes
<1> HIDE DEF x
<1>4. scan' \in [Modes -> Scan] /\ scan'[m] = x
  BY <1>2, <1>3 DEF Shapes
<1>5. QED
  BY <1>2, <1>3, <1>4 DEF Shapes, Read

LEMMA SettledKeeps ==
    ASSUME Shapes, NEW m \in Modes, NEW x \in Scan
    PROVE  /\ Settled(m, x) \in Monitor
           /\ Settled(m, x).requested = mon.requested
           /\ \/ m = "background" /\ Settled(m, x).completed = x.generation /\ Settled(m, x).seen = x.asked
              \/ Settled(m, x) = mon
<1> DEFINE due == Delay(base', 0, mon.requested, x.generation)
<1>1. due \in 0 .. Interval
  BY DelayIsDue
<1>2. m # "manual" => Settled(m, x) = [mon EXCEPT !.completed = x.generation, !.failures = 0,
                                                  !.seen = x.asked, !.due = due]
  BY DEF Settled
<1>3. m = "manual" => Settled(m, x) = mon
  BY DEF Settled
<1> HIDE DEF due
<1>4. x.generation \in Nat /\ x.asked \in Nat
  BY DEF Scan
<1>5. CASE m = "manual"
  BY <1>3, <1>5 DEF Shapes
<1>6. CASE m # "manual"
  <2> DEFINE y == [mon EXCEPT !.completed = x.generation, !.failures = 0, !.seen = x.asked, !.due = due]
  <2>1. /\ y \in Monitor /\ y.requested = mon.requested
        /\ y.completed = x.generation /\ y.seen = x.asked
    BY <1>1, <1>4 DEF Shapes, Monitor
  <2>2. Settled(m, x) = y /\ m = "background"
    BY <1>2, <1>6
  <2> HIDE DEF y
  <2>3. QED
    BY <2>1, <2>2
<1>7. QED
  BY <1>5, <1>6

LEMMA SettleKeepsShapes ==
    ASSUME Shapes, OneCaseEach, Hands, NEW m \in Modes, Settle(m)
    PROVE  Shapes' /\ OneCaseEach'
<1> DEFINE x == scan[m]
<1>1. x.rows \in Sheet /\ x.old \in Baseline /\ x \in Scan
  BY InHand, ScanFields DEF Settle
<1>2. base' = [r \in Rids |-> Observed(x.rows, x.old, r)]
  BY DEF Settle
<1>3. told' = [r \in Rids |-> ToldBy(x.rows, x.old, r)]
  BY DEF Settle, ToldBy
<1>4. open' = Reconciled(x.rows, Covered(x.rows, x.old), Deleted(x.rows, x.old))
  BY DEF Settle
<1>5. mon' = Settled(m, x) /\ scan' = [scan EXCEPT ![m] = Idle]
  BY DEF Settle
<1> HIDE DEF x
<1>6. base' \in Baseline
  BY <1>1, <1>2, ObservedIsComplete
<1>7. told' \in Sheet
  BY <1>1, <1>3, ToldOf DEF Shapes, Sheet
<1>8. open' \in SUBSET Case /\ OneCaseEach'
  BY <1>1, <1>4, ReconciledIsTyped DEF Shapes, OneCaseEach
<1>9. mon' \in Monitor
  BY <1>1, <1>5, SettledKeeps
<1>10. scan' \in [Modes -> Scan]
  BY <1>5, IdleIsScan DEF Shapes
<1>11. lock' \in Modes \cup {None} /\ UNCHANGED <<sheet, worker, budget>>
  BY DEF Settle
<1>12. QED
  BY <1>6, <1>7, <1>8, <1>9, <1>10, <1>11 DEF Shapes

LEMMA FailKeepsShapes ==
    ASSUME Shapes, NEW m \in Modes, Fail(m)
    PROVE  Shapes' /\ mon'.requested = mon.requested /\ mon'.completed = mon.completed /\ mon'.seen = mon.seen
<1>1. budget' \in [{"edits", "announced", "troubles"} -> Nat]
  BY SpendKeeps DEF Fail
<1>2. /\ mon' \in Monitor
      /\ mon'.requested = mon.requested /\ mon'.completed = mon.completed /\ mon'.seen = mon.seen
  <2>1. CASE m = "manual"
    BY <2>1 DEF Fail, Shapes
  <2>2. CASE m # "manual"
    <3> DEFINE due == Backoff(mon.failures + 1)
    <3>1. due \in 0 .. Interval /\ mon.failures + 1 \in Nat
      BY NoneIsNothing, MonitorFields DEF Backoff
    <3>2. mon' = [mon EXCEPT !.failures = mon.failures + 1, !.due = due]
      BY <2>2 DEF Fail
    <3> HIDE DEF due
    <3>3. QED
      BY <3>1, <3>2 DEF Shapes, Monitor
  <2>3. QED
    BY <2>1, <2>2
<1>3. scan' \in [Modes -> Scan]
  BY IdleIsScan DEF Fail, Shapes
<1>4. QED
  BY <1>1, <1>2, <1>3 DEF Shapes, Fail

LEMMA CrashKeepsShapes ==
    ASSUME Shapes, NEW m \in Modes, Crash(m)
    PROVE  Shapes'
<1>1. budget' \in [{"edits", "announced", "troubles"} -> Nat]
  BY SpendKeeps DEF Crash
<1>2. scan' \in [Modes -> Scan]
  BY IdleIsScan DEF Crash, Shapes
<1>3. worker' \in {"off", "on"}
  BY DEF Crash, Shapes
<1>4. QED
  BY <1>1, <1>2, <1>3 DEF Shapes, Crash

-----------------------------------------------------------------------------
(* Every step keeps what a scan has in hand.                                *)
LEMMA KeptIsTransitive ==
    ASSUME NEW x, NEW y, NEW z, Kept(x, y), Kept(y, z)
    PROVE  Kept(x, z)
BY DEF Kept

(* A step that leaves the scans alone.                                      *)
LEMMA OthersMove ==
    ASSUME Shapes, Owners, Hands, UNCHANGED <<scan, lock>>,
           \/ lock = None
           \/ /\ \A r \in Rids : Kept(base[r], base'[r])
              /\ mon'.requested \in Nat /\ mon.requested <= mon'.requested
    PROVE  Owners' /\ Hands'
<1>1. Owners'
  BY DEF Owners
<1>2. ASSUME NEW m \in Modes  PROVE Hand(scan[m], base', mon'.requested)
  <2>1. CASE lock = None
    BY <2>1, NoScanWhenFree DEF Hand
  <2>2. CASE /\ \A r \in Rids : Kept(base[r], base'[r])
             /\ mon'.requested \in Nat /\ mon.requested <= mon'.requested
    <3>1. Hand(scan[m], base, mon.requested)
      BY DEF Hands
    <3>2. scan[m].generation <= mon.requested /\ scan[m].asked <= mon.requested
          => scan[m].generation <= mon'.requested /\ scan[m].asked <= mon'.requested
      BY <2>2, ScanFields, MonitorFields
    <3>3. scan[m].generation <= mon.requested => scan[m].generation <= mon'.requested
      BY <2>2, ScanFields, MonitorFields
    <3>4. \A r \in Rids : Kept(scan[m].old[r], base[r]) => Kept(scan[m].old[r], base'[r])
      BY <2>2, KeptIsTransitive
    <3>5. QED
      BY <3>1, <3>2, <3>3, <3>4 DEF Hand
  <2>3. QED
    BY <2>1, <2>2
<1>3. QED
  BY <1>1, <1>2 DEF Hands

(* A scan that ends.                                                        *)
LEMMA ScanEnds ==
    ASSUME Shapes, Owners, NEW m \in Modes, scan[m].pc # "idle",
           scan' = [scan EXCEPT ![m] = Idle], lock' = None
    PROVE  Owners' /\ Hands'
<1>1. \A n \in Modes : scan'[n].pc = "idle"
  BY OneScan, IdleIsScan DEF Shapes
<1>2. Owners'
  BY <1>1, NoneIsNothing DEF Owners
<1>3. QED
  BY <1>1, <1>2 DEF Hands, Hand

LEMMA BeginKeepsHands ==
    ASSUME Shapes, Owners, NEW m \in Modes, Begin(m)
    PROVE  Owners' /\ Hands'
<1>1. lock = None /\ lock' = m /\ base' = base /\ mon' = mon
  BY DEF Begin, Enter
<1>2. \A n \in Modes : scan[n].pc = "idle"
  BY <1>1, NoScanWhenFree
<1>3. \A n \in Modes \ {m} : scan'[n] = scan[n]
  BY BeginKeepsShapes DEF Shapes
<1>4. Owners'
  BY <1>1, <1>2, <1>3, BeginKeepsShapes DEF Owners
<1>5. Hand(scan'[m], base, mon.requested)
  <2>1. base \in Baseline
    BY DEF Shapes
  <2>2. mon.requested <= mon.requested
    BY MonitorFields
  <2>3. QED
    BY <2>1, <2>2, BeginKeepsShapes DEF Hand, Kept
<1>6. \A n \in Modes \ {m} : Hand(scan'[n], base, mon.requested)
  BY <1>2, <1>3 DEF Hand
<1>7. QED
  BY <1>1, <1>4, <1>5, <1>6 DEF Hands

LEMMA ReadKeepsHands ==
    ASSUME Shapes, Owners, Hands, NEW m \in Modes, Read(m)
    PROVE  Owners' /\ Hands'
<1>1. scan[m].pc = "read" /\ base' = base /\ mon' = mon /\ lock' = lock
  BY DEF Read
<1>2. \A n \in Modes \ {m} : scan'[n] = scan[n]
  BY ReadKeepsShapes DEF Shapes
<1>3. Owners'
  BY <1>1, <1>2, ReadKeepsShapes DEF Owners
<1>4. Hand(scan[m], base, mon.requested)
  BY DEF Hands
<1>5. Hand(scan'[m], base, mon.requested)
  <2>1. scan[m].generation <= mon.requested /\ mon.requested <= mon.requested
    BY <1>1, <1>4, MonitorFields DEF Hand
  <2>2. sheet # None
    BY NoneIsNothing DEF Shapes
  <2>3. QED
    BY <1>1, <1>4, <2>1, <2>2, ReadKeepsShapes DEF Hand
<1>6. \A n \in Modes \ {m} : Hand(scan'[n], base, mon.requested)
  BY <1>2 DEF Hands
<1>7. QED
  BY <1>1, <1>3, <1>5, <1>6 DEF Hands

-----------------------------------------------------------------------------
(* The invariant.                                                           *)
LEMMA InitHolds == Init => IInv
<1> SUFFICES ASSUME Init  PROVE IInv
  OBVIOUS
<1>1. Untracked \in Known /\ Complete(Untracked)
  BY DEF Untracked, Known, Complete, States
<1>2. base \in Baseline
  BY <1>1 DEF Init, Baseline
<1>3. mon \in Monitor
  BY DEF Init, Monitor
<1>4. scan \in [Modes -> Scan] /\ \A m \in Modes : scan[m].pc = "idle"
  BY IdleIsScan DEF Init
<1>5. Shapes
  BY <1>2, <1>3, <1>4 DEF Init, Shapes, Sheet
<1>6. OneCaseEach /\ Owners
  BY <1>4, NoneIsNothing DEF Init, OneCaseEach, Owners
<1>7. Hands
  BY <1>4 DEF Hands, Hand
<1>8. CompletedWasRead
  BY DEF Init, CompletedWasRead
<1>9. QED
  BY <1>5, <1>6, <1>7, <1>8 DEF IInv, TypeOK

LEMMA KeptByItself == \A b, r : Kept(b[r], b[r])
BY DEF Kept

LEMMA StepKeepsInvariant == IInv /\ [Next]_vars => IInv'
<1> SUFFICES ASSUME IInv, [Next]_vars  PROVE IInv'
  OBVIOUS
<1>1. Shapes /\ OneCaseEach /\ Owners /\ Hands /\ CompletedWasRead
  BY DEF IInv, TypeOK
<1>2. mon.requested \in Nat /\ mon.requested <= mon.requested
  BY <1>1, MonitorFields
<1>3. mon \in Monitor
  BY <1>1 DEF Shapes
<1>4. ASSUME NEW r \in Rids, NEW x \in Row \cup {None}, Edit(r, x)  PROVE IInv'
  <2>1. Shapes'
    BY <1>1, <1>4, EditKeepsShapes
  <2>2. UNCHANGED <<base, open, mon, scan, lock>>
    BY <1>4 DEF Edit
  <2>3. Owners' /\ Hands'
    BY <1>1, <1>2, <2>2, KeptByItself, OthersMove
  <2>4. QED
    BY <1>1, <2>1, <2>2, <2>3 DEF IInv, TypeOK, OneCaseEach, CompletedWasRead
<1>5. CASE Announce
  <2>1. Shapes' /\ UNCHANGED <<base, open, scan, lock>> /\ mon' = Request(mon, 1)
    BY <1>1, <1>5, AnnounceKeepsShapes DEF Announce
  <2>2. /\ mon'.requested \in Nat /\ mon.requested <= mon'.requested
        /\ mon'.completed = mon.completed /\ mon'.seen = mon.seen
    BY <1>2, <1>3, <2>1, RequestKeeps DEF Monitor
  <2>3. Owners' /\ Hands'
    BY <1>1, <2>1, <2>2, KeptByItself, OthersMove
  <2>4. QED
    BY <1>1, <2>1, <2>2, <2>3 DEF IInv, TypeOK, OneCaseEach, CompletedWasRead
<1>6. CASE Tick
  <2>1. Shapes' /\ UNCHANGED <<open, scan, lock>> /\ \A r \in Rids : Kept(base[r], base'[r])
    BY <1>1, <1>6, TickKeepsShapes, TickKeepsBaseline DEF Tick
  <2>2. mon'.requested = mon.requested /\ mon'.completed = mon.completed /\ mon'.seen = mon.seen
    BY <1>3, <1>6 DEF Tick, Monitor
  <2>3. Owners' /\ Hands'
    BY <1>1, <1>2, <2>1, <2>2, OthersMove
  <2>4. QED
    BY <1>1, <2>1, <2>2, <2>3 DEF IInv, TypeOK, OneCaseEach, CompletedWasRead
<1>7. CASE Start
  <2>1. Shapes' /\ UNCHANGED <<base, open, scan, lock>>
    BY <1>1, <1>7, StartKeepsShapes DEF Start
  <2>2. /\ mon'.requested \in Nat /\ mon.requested <= mon'.requested
        /\ mon'.completed = mon.completed /\ mon'.seen = mon.seen
    <3> DEFINE on == [mon EXCEPT !.enabled = TRUE]
    <3>1. /\ on \in Monitor
          /\ on.requested = mon.requested /\ on.completed = mon.completed /\ on.seen = mon.seen
      BY <1>3 DEF Monitor
    <3>2. mon' = Request(on, 0)
      BY <1>7 DEF Start
    <3> HIDE DEF on
    <3>3. QED
      BY <3>1, <3>2, RequestKeeps DEF Monitor
  <2>3. Owners' /\ Hands'
    BY <1>1, <2>1, <2>2, KeptByItself, OthersMove
  <2>4. QED
    BY <1>1, <2>1, <2>2, <2>3 DEF IInv, TypeOK, OneCaseEach, CompletedWasRead
<1>8. CASE Stop
  <2>1. Shapes' /\ UNCHANGED <<base, open, scan, lock>>
    BY <1>1, <1>8, StopKeepsShapes DEF Stop
  <2>2. mon'.requested = mon.requested /\ mon'.completed = mon.completed /\ mon'.seen = mon.seen
    BY <1>3, <1>8 DEF Stop, Monitor
  <2>3. Owners' /\ Hands'
    BY <1>1, <1>2, <2>1, <2>2, KeptByItself, OthersMove
  <2>4. QED
    BY <1>1, <2>1, <2>2, <2>3 DEF IInv, TypeOK, OneCaseEach, CompletedWasRead
<1>9. CASE Initialize
  <2>1. Shapes' /\ UNCHANGED <<open, scan, lock>> /\ lock = None
    BY <1>1, <1>9, InitializeKeepsShapes DEF Initialize
  <2>2. mon'.completed = 0 /\ mon'.seen = 0
    BY <1>9 DEF Initialize
  <2>3. Owners' /\ Hands'
    BY <1>1, <2>1, OthersMove
  <2>4. QED
    BY <1>1, <2>1, <2>2, <2>3 DEF IInv, TypeOK, OneCaseEach, CompletedWasRead
<1>10. ASSUME NEW m \in Modes, Begin(m)  PROVE IInv'
  <2>1. UNCHANGED <<open, mon>>
    BY <1>10 DEF Begin
  <2>2. Shapes' /\ Owners' /\ Hands'
    BY <1>1, <1>10, BeginKeepsShapes, BeginKeepsHands
  <2>3. QED
    BY <1>1, <2>1, <2>2 DEF IInv, TypeOK, OneCaseEach, CompletedWasRead
<1>11. ASSUME NEW m \in Modes, Read(m)  PROVE IInv'
  <2>1. UNCHANGED <<open, mon>>
    BY <1>11 DEF Read
  <2>2. Shapes' /\ Owners' /\ Hands'
    BY <1>1, <1>11, ReadKeepsShapes, ReadKeepsHands
  <2>3. QED
    BY <1>1, <2>1, <2>2 DEF IInv, TypeOK, OneCaseEach, CompletedWasRead
<1>12. ASSUME NEW m \in Modes, Settle(m)  PROVE IInv'
  <2>1. /\ scan[m].pc = "settle" /\ lock' = None
        /\ scan' = [scan EXCEPT ![m] = Idle] /\ mon' = Settled(m, scan[m])
    BY <1>12 DEF Settle
  <2>2. Shapes' /\ OneCaseEach' /\ Owners' /\ Hands'
    BY <1>1, <1>12, <2>1, SettleKeepsShapes, ScanEnds
  <2>3. CompletedWasRead'
    BY <1>1, <2>1, InHand, ScanFields, SettledKeeps DEF CompletedWasRead
  <2>4. QED
    BY <2>2, <2>3 DEF IInv, TypeOK
<1>13. ASSUME NEW m \in Modes, Fail(m)  PROVE IInv'
  <2>1. scan[m].pc # "idle" /\ lock' = None /\ scan' = [scan EXCEPT ![m] = Idle] /\ open' = open
    BY <1>13 DEF Fail
  <2>2. Shapes' /\ Owners' /\ Hands'
    BY <1>1, <1>13, <2>1, FailKeepsShapes, ScanEnds
  <2>3. mon'.completed = mon.completed /\ mon'.seen = mon.seen
    BY <1>1, <1>13, FailKeepsShapes
  <2>4. QED
    BY <1>1, <2>1, <2>2, <2>3 DEF IInv, TypeOK, OneCaseEach, CompletedWasRead
<1>14. ASSUME NEW m \in Modes, Crash(m)  PROVE IInv'
  <2>1. /\ scan[m].pc # "idle" /\ lock' = None /\ scan' = [scan EXCEPT ![m] = Idle]
        /\ UNCHANGED <<open, mon>>
    BY <1>14 DEF Crash
  <2>2. Shapes' /\ Owners' /\ Hands'
    BY <1>1, <1>14, <2>1, CrashKeepsShapes, ScanEnds
  <2>3. QED
    BY <1>1, <2>1, <2>2 DEF IInv, TypeOK, OneCaseEach, CompletedWasRead
<1>15. CASE UNCHANGED vars
  BY <1>1, <1>15 DEF vars, IInv, TypeOK, Shapes, OneCaseEach, Owners, Hands, CompletedWasRead
<1>16. QED
  BY <1>4, <1>5, <1>6, <1>7, <1>8, <1>9, <1>10, <1>11, <1>12, <1>13, <1>14, <1>15 DEF Next

LEMMA InvariantHolds == Spec => []IInv
BY InitHolds, StepKeepsInvariant, PTL DEF Spec

(* The rows of the monitor's tables keep their shape; a record has at most  *)
(* one open duplicate case; and whoever scans owns the observation lock.    *)
THEOREM TypeCorrect == Spec => []TypeOK
<1>1. IInv => TypeOK
  BY DEF IInv
<1>2. QED
  BY <1>1, InvariantHolds, PTL

(* A request that reached the monitor after the sheet was read is never     *)
(* completed by that read.                                                  *)
THEOREM RequestsAreRead == Spec => []CompletedWasRead
<1>1. IInv => CompletedWasRead
  BY DEF IInv
<1>2. QED
  BY <1>1, InvariantHolds, PTL

-----------------------------------------------------------------------------
(* A duplicate case is given up only on proof, by any scan of any sheet.    *)
LEMMA StepClosesOnProof ==
    ASSUME IInv, [Next]_vars, NEW c \in open \ open'
    PROVE  \/ GoneTwice(c.record)
           \/ \E d \in open' : d.record = c.record
           \/ \E m \in Modes : /\ scan[m].rows # None /\ scan[m].rows[c.record] # None
                               /\ \/ scan[m].rows[c.record].asset # c.asset
                                  \/ \A s \in c.members : scan[m].rows[s] # None \/ GoneTwice(s)
<1>1. Shapes /\ Owners /\ Hands
  BY DEF IInv, TypeOK
<1>2. PICK m \in Modes : Settle(m)
  BY DEF Next, vars, Edit, Announce, Tick, Start, Stop, Initialize, Begin, Read, Fail, Crash
<1>3. /\ scan[m].pc = "settle"
      /\ open' = Reconciled(scan[m].rows, Covered(scan[m].rows, scan[m].old), Deleted(scan[m].rows, scan[m].old))
  BY <1>2 DEF Settle
<1>4. /\ scan[m].rows \in Sheet /\ scan[m].old \in Baseline /\ scan[m].rows # None
      /\ \A r \in Rids : Kept(scan[m].old[r], base[r])
  BY <1>1, <1>3, InHand, NoneIsNothing
<1>5. \A r \in Deleted(scan[m].rows, scan[m].old) : GoneTwice(r)
  BY <1>4, DeletedWasMissing DEF Kept, GoneTwice
<1>6. QED
  BY <1>3, <1>4, <1>5, ClosedOnProof

(* No read of the sheet gives up a duplicate case because a row was missed  *)
(* once: the absences, the new identity or the new set of duplicates that   *)
(* close it were all read.                                                  *)
THEOREM ClosedOnlyOnProof == Spec => DuplicateClosedOnProof
<1>1. IInv /\ [Next]_vars
      => [\A c \in open \ open' :
            \/ GoneTwice(c.record)
            \/ \E d \in open' : d.record = c.record
            \/ \E m \in Modes : /\ scan[m].rows # None /\ scan[m].rows[c.record] # None
                                /\ \/ scan[m].rows[c.record].asset # c.asset
                                   \/ \A s \in c.members : scan[m].rows[s] # None \/ GoneTwice(s)]_vars
  BY StepClosesOnProof
<1>2. QED
  BY <1>1, InvariantHolds, PTL DEF DuplicateClosedOnProof, Spec

-----------------------------------------------------------------------------
(* Unless records are restored, a deleted record stays away from the sheet  *)
(* and from every read that is still to be settled: an id whose absence the *)
(* baseline knows of is not used again.                                     *)
Parted ==
    \A r \in Rids, m \in Modes : scan[m].pc = "settle" /\ scan[m].rows[r] = None
                                 /\ base[r].state \notin {"untracked", "active"} => sheet[r] = None

Away ==
    \A r \in Rids : base[r].state = "deleted" =>
        sheet[r] = None /\ \A m \in Modes : scan[m].pc = "settle" => scan[m].rows[r] = None

Follows == \A r \in Rids : Matches(told[r], base[r])

RInv == Parted /\ Away /\ Follows

LEMMA InitIsTold == Init => RInv
<1> SUFFICES ASSUME Init  PROVE RInv
  OBVIOUS
<1>1. \A r \in Rids : base[r] = Untracked /\ told[r] = None
  BY DEF Init
<1>2. \A m \in Modes : scan[m].pc = "idle"
  BY IdleIsScan DEF Init
<1>3. QED
  BY <1>1, <1>2 DEF RInv, Parted, Away, Follows, Matches, Untracked

(* A step that leaves states, snapshots, receipts and reads alone.          *)
LEMMA OthersAreTold ==
    ASSUME RInv, UNCHANGED <<sheet, told>>,
           \A r \in Rids : base'[r].state = base[r].state /\ base'[r].snapshot = base[r].snapshot,
           \A m \in Modes : scan'[m] = scan[m] \/ scan'[m].pc # "settle"
    PROVE  RInv'
<1>1. Follows'
  BY DEF RInv, Follows, Matches
<1>2. Parted'
  BY DEF RInv, Parted
<1>3. Away'
  BY DEF RInv, Away
<1>4. QED
  BY <1>1, <1>2, <1>3 DEF RInv

LEMMA StepIsTold ==
    ASSUME Restores = FALSE, IInv, RInv, [Next]_vars
    PROVE  RInv'
<1>1. Shapes /\ Owners /\ Hands /\ Parted /\ Away /\ Follows
  BY DEF IInv, TypeOK, RInv
<1>2. ASSUME NEW r \in Rids, NEW x \in Row \cup {None}, Edit(r, x)  PROVE RInv'
  <2>1. UNCHANGED <<base, scan, told>> /\ sheet' = [sheet EXCEPT ![r] = x]
    BY <1>2 DEF Edit
  <2>2. sheet[r] = None /\ x # None => base[r].state \in {"untracked", "active"}
    BY <1>2 DEF Edit
  <2>3. \A s \in Rids : sheet'[s] = IF s = r THEN x ELSE sheet[s]
    BY <1>1, <2>1 DEF Shapes, Sheet
  <2>4. Parted'
    BY <1>1, <2>1, <2>2, <2>3 DEF Parted
  <2>5. Away'
    BY <1>1, <2>1, <2>2, <2>3 DEF Away
  <2>6. Follows'
    BY <1>1, <2>1 DEF Follows
  <2>7. QED
    BY <2>4, <2>5, <2>6 DEF RInv
<1>3. CASE Announce \/ Start \/ Stop
  BY <1>3, OthersAreTold DEF Announce, Start, Stop
<1>4. CASE Tick
  <2>1. \A r \in Rids : base'[r].state = base[r].state /\ base'[r].snapshot = base[r].snapshot
    BY <1>1, <1>4, TickKeepsBaseline DEF Kept
  <2>2. QED
    BY <1>4, <2>1, OthersAreTold DEF Tick
<1>5. CASE Initialize
  <2>1. \A r \in Rids : base'[r].state \in {"untracked", "active"} /\ told'[r] = base'[r].snapshot
    BY <1>1, <1>5, FirstBaseline DEF Initialize
  <2>2. QED
    BY <2>1 DEF RInv, Parted, Away, Follows, Matches
<1>6. ASSUME NEW m \in Modes, Begin(m)  PROVE RInv'
  <2>1. UNCHANGED <<sheet, base, told>>
    BY <1>6 DEF Begin
  <2>2. \A n \in Modes : scan'[n] = scan[n] \/ scan'[n].pc # "settle"
    BY <1>1, <1>6, BeginKeepsShapes DEF Shapes
  <2>3. QED
    BY <2>1, <2>2, OthersAreTold
<1>7. ASSUME NEW m \in Modes, Read(m)  PROVE RInv'
  <2>1. UNCHANGED <<sheet, base, told>>
    BY <1>7 DEF Read
  <2>2. \A n \in Modes : scan'[n] = scan[n] \/ scan'[n].rows = sheet
    BY <1>1, <1>7, ReadKeepsShapes DEF Shapes
  <2>3. QED
    BY <1>1, <2>1, <2>2 DEF RInv, Parted, Away, Follows
<1>8. ASSUME NEW m \in Modes, Settle(m)  PROVE RInv'
  <2> DEFINE rows == scan[m].rows
             old == scan[m].old
  <2>1. /\ scan[m].pc = "settle" /\ sheet' = sheet /\ scan' = [scan EXCEPT ![m] = Idle] /\ lock' = None
        /\ base' = [r \in Rids |-> Observed(rows, old, r)]
        /\ told' = [r \in Rids |-> ToldBy(rows, old, r)]
    BY <1>8 DEF Settle, ToldBy
  <2>2. rows \in Sheet /\ old \in Baseline /\ \A r \in Rids : Kept(old[r], base[r])
    BY <1>1, <2>1, InHand
  <2>3. \A n \in Modes : scan'[n].pc = "idle"
    BY <1>1, <2>1, OneScan, IdleIsScan DEF Shapes
  <2>4. \A r \in Rids : /\ rows[r] # None => base[r].state # "deleted"
                        /\ rows[r] = None /\ base[r].state \notin {"untracked", "active"} => sheet[r] = None
    BY <1>1, <2>1 DEF Away, Parted
  <2> HIDE DEF rows, old
  <2>5. Follows'
    <3> SUFFICES ASSUME NEW r \in Rids  PROVE Matches(ToldBy(rows, old, r), Observed(rows, old, r))
      BY <2>1 DEF Follows
    <3>1. Matches(told[r], old[r])
      BY <1>1, <2>2 DEF Follows, Matches, Kept
    <3>2. rows[r] # None => old[r].state # "deleted"
      BY <2>2, <2>4 DEF Kept
    <3>3. QED
      BY <2>2, <3>1, <3>2, ReaderFollows
  <2>6. ASSUME NEW r \in Rids, Observed(rows, old, r).state = "deleted"  PROVE sheet[r] = None
    <3>1. CASE r \in Deleted(rows, old)
      BY <2>2, <2>4, <3>1, DeletedWasMissing DEF Kept
    <3>2. CASE old[r].state = "deleted"
      BY <1>1, <2>2, <3>2 DEF Away, Kept
    <3>3. CASE r \notin Deleted(rows, old) /\ old[r].state # "deleted"
      BY <2>2, <2>6, <3>3, OfTheAbsent, OfTheUnknown, OfTheExcluded, OfTheProblem, OfTheRest
         DEF Made, Problem
    <3>4. QED
      BY <3>1, <3>2, <3>3
  <2>7. Away' /\ Parted'
    BY <2>1, <2>3, <2>6 DEF Away, Parted
  <2>8. QED
    BY <2>5, <2>7 DEF RInv
<1>9. ASSUME NEW m \in Modes, Fail(m) \/ Crash(m)  PROVE RInv'
  <2>1. UNCHANGED <<sheet, base, told>> /\ scan' = [scan EXCEPT ![m] = Idle]
    BY <1>9 DEF Fail, Crash
  <2>2. \A n \in Modes : scan'[n] = scan[n] \/ scan'[n].pc # "settle"
    BY <1>1, <2>1, IdleIsScan DEF Shapes
  <2>3. QED
    BY <2>1, <2>2, OthersAreTold
<1>10. CASE UNCHANGED vars
  BY <1>10, OthersAreTold DEF vars
<1>11. QED
  BY <1>2, <1>3, <1>4, <1>5, <1>6, <1>7, <1>8, <1>9, <1>10 DEF Next

(* Whoever reads every receipt knows what the monitor knows, as long as no  *)
(* record id of the sheet is used again after its deletion was noticed.     *)
THEOREM ReadersKnow ==
    ASSUME Restores = FALSE
    PROVE  Spec => []ReaderKnows
<1>1. RInv => ReaderKnows
  BY DEF RInv, Follows, Matches, ReaderKnows
<1>2. IInv /\ RInv /\ [Next]_vars => RInv'
  BY StepIsTold
<1>3. QED
  BY <1>1, <1>2, InitIsTold, InvariantHolds, PTL DEF Spec

=============================================================================

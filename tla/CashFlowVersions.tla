-------------------------- MODULE CashFlowVersions --------------------------
(***************************************************************************)
(* What cash_flow_effect_service.py and cash_flow_effect_store.py compute  *)
(* from one record's effect versions: the state a source starts in, the    *)
(* version a changed source creates, the deltas against the last applied   *)
(* version, the plan a preview authorises, and what a scan makes of a      *)
(* complete read of the sheets.                                            *)
(*                                                                         *)
(* The model is of one account and its cash identities outside Futu (the   *)
(* account+broker+currency rows a cash flow can change).  A source is what *)
(* the source hash covers: two sources are equal when their hashes are.    *)
(* `was` keeps a deletion (signed_amount 0.00, previous_source_hash) apart *)
(* from the row it deletes.                                                *)
(***************************************************************************)
EXTENDS Integers, Sequences, FiniteSetsExt

CONSTANTS
    Records,    \* Feishu cash_flow record ids
    Ids,        \* cash holding identities, in the order confirm sorts them
    Flows,      \* the cash_flow rows a user may enter
    None        \* no row, no plan, no task

ASSUME IdsAssumption == Ids \subseteq Nat /\ IsFiniteSet(Ids)
ASSUME RecordsAssumption == IsFiniteSet(Records)
ASSUME FlowsAssumption ==
    /\ Flows \subseteq [id : Ids, amt : Int \ {0}, when : {"historic", "current", "future"}]
    /\ None \notin Flows

Unresolved == {"scheduled", "pending", "blocked", "previewed", "stale",
               "applying", "compensation_pending"}
Terminal == {"applied", "record_only"}
Settled == Terminal \cup {"superseded"}
States == Unresolved \cup Settled
Previewable == {"pending", "blocked", "previewed", "stale"}
Actions == {"apply_delta", "already_reflected"}

(* A plan (target_source, before_json) and a compensation task name an      *)
(* amount for some of the identities and None for the others.               *)
Sources == [id : Ids, amt : Int, when : {"historic", "current", "future"}, was : Int]
Amounts == [Ids -> Int]
SomeAmounts == [Ids -> Int \cup {None}]
Plans == [choice : Actions \cup {"auto"}, action : Actions \cup {"record_only"},
          before : SomeAmounts]
Tasks == [status : {"open", "resolved"}, before : SomeAmounts, targets : SomeAmounts]
Versions == [src : Sources, state : States, mode : {"apply", "record_only"},
             plan : Plans \cup {None}, task : Tasks \cup {None}]

Live(f) == [id |-> f.id, amt |-> f.amt, when |-> f.when, was |-> 0]
Deletion(s) == [id |-> s.id, amt |-> 0, when |-> s.when, was |-> s.amt]
IsDeletion(s) == s.was # 0

Named(amounts) == {i \in Ids : amounts[i] # None}

Zero == [i \in Ids |-> 0]
Reflected(s) == [Zero EXCEPT ![s.id] = s.amt]

ASSUME NoneAssumption == None \notin Int \cup States \cup Plans \cup Tasks \cup Versions

-----------------------------------------------------------------------------
(* Before the cutover a row is only recorded; a row of the future is        *)
(* scheduled until its date has come and the preceding NAV is final, which  *)
(* is the value "ready" of day.                                             *)
ModeOf(f) == IF f.when = "historic" THEN "record_only" ELSE "apply"
Ready(when, day) == when # "future" \/ day = "ready"
InitialState(f, day) == IF Ready(f.when, day) THEN "pending" ELSE "scheduled"

Version(src, state, mode) ==
    [src |-> src, state |-> state, mode |-> mode, plan |-> None, task |-> None]

Latest(vs) == vs[Len(vs)]
IsOpen(vs) == vs # <<>> /\ Latest(vs).state \in Unresolved

Superseded(vs) ==
    IF IsOpen(vs) THEN [vs EXCEPT ![Len(vs)].state = "superseded"] ELSE vs

(* create_version: a source the latest version already carries is not a     *)
(* new version.                                                             *)
CreateVersion(vs, new) ==
    IF vs # <<>> /\ Latest(vs).src = new.src THEN vs ELSE Append(Superseded(vs), new)

(* get_previous_applied                                                     *)
AppliedBefore(vs, n) == {m \in 1 .. n - 1 : vs[m].state = "applied"}
Previous(vs, n) ==
    IF AppliedBefore(vs, n) = {} THEN Zero ELSE Reflected(vs[Max(AppliedBefore(vs, n))].src)

Delta(vs, n) == [i \in Ids |-> Reflected(vs[n].src)[i] - Previous(vs, n)[i]]

(* _cash_flow_operations: one operation on the identity of the source, or   *)
(* one on each side of a move, zero amounts left out.                       *)
Touched(vs, n) ==
    LET earlier == AppliedBefore(vs, n)
    IN  IF earlier = {} \/ vs[Max(earlier)].src.id = vs[n].src.id
        THEN {vs[n].src.id}
        ELSE {i \in Ids : Delta(vs, n)[i] # 0}

-----------------------------------------------------------------------------
(* The version _current_cash_flow_source makes of row f when it differs     *)
(* from version n, read in state `seen`.                                    *)
CurrentSource(vs, n, f) ==
    IF f # None THEN Live(f)
    ELSE IF IsDeletion(vs[n].src) THEN vs[n].src ELSE Deletion(vs[n].src)

Correction(vs, n, seen, f, day) ==
    LET reverses == vs[n].mode = "apply" /\ seen \in {"applying", "applied"}
    IN  IF f # None
        THEN Version(Live(f), InitialState(f, day), ModeOf(f))
        ELSE Version(CurrentSource(vs, n, f), "pending",
                     IF reverses THEN "apply" ELSE "record_only")

(* One record of _commit_scan: its row is f, or it is missing from a        *)
(* complete read.  A compensation_pending version only logs the change.     *)
ScannedRow(vs, f, day) ==
    CASE vs = <<>> -> <<Version(Live(f), InitialState(f, day), ModeOf(f))>>
      [] vs # <<>> /\ Latest(vs).src = Live(f) ->
            IF Latest(vs).state = "scheduled" /\ InitialState(f, day) = "pending"
            THEN [vs EXCEPT ![Len(vs)].state = "pending"] ELSE vs
      [] vs # <<>> /\ Latest(vs).src # Live(f) /\ Latest(vs).state = "compensation_pending" -> vs
      [] OTHER -> CreateVersion(vs, Version(Live(f), InitialState(f, day), ModeOf(f)))

(* Mutant: the deletion of a settled row has nothing left to do.            *)
ScannedMissing_SettledKept(vs) ==
    IF vs = <<>> \/ Latest(vs).state \in Terminal \cup {"compensation_pending"}
       \/ IsDeletion(Latest(vs).src)
    THEN vs
    ELSE CreateVersion(vs, Version(Deletion(Latest(vs).src), "pending", "record_only"))

ScannedMissing(vs) ==
    IF \/ vs = <<>>
       \/ IsDeletion(Latest(vs).src)
       \/ Latest(vs).state = "compensation_pending"
    THEN vs
    ELSE CreateVersion(vs, Version(Deletion(Latest(vs).src), "pending",
                                   IF Latest(vs).state = "applied" /\ Latest(vs).mode = "apply"
                                   THEN "apply" ELSE "record_only"))

Scanned(eff, rows, day) ==
    [r \in Records |-> IF rows[r] # None THEN ScannedRow(eff[r], rows[r], day)
                       ELSE ScannedMissing(eff[r])]

-----------------------------------------------------------------------------
(* _scan_holding_fingerprints, over the versions the same scan has just     *)
(* committed: drift the open cash flows explain is left to them, targets of *)
(* a compensation are left to it, any other drift is accepted as a manual   *)
(* change of the holding and becomes the confirmed baseline.                *)
OpenRecords(eff) == {r \in Records : IsOpen(eff[r])}

InCompensation(eff) ==
    UNION {Named(Latest(eff[r]).task.targets) :
             r \in {s \in OpenRecords(eff) : Latest(eff[s]).state = "compensation_pending"}}

OpenOn(eff, i) == {r \in OpenRecords(eff) : Latest(eff[r]).src.id = i}

(* Every delta of an open flow counts for the identity its source names,    *)
(* the one that a move takes out of another identity included.              *)
Net(vs) == MapThenSumSet(LAMBDA j : Delta(vs, Len(vs))[j], Ids)

OpenNet(eff, i) == MapThenSumSet(LAMBDA r : Net(eff[r]), OpenOn(eff, i))

AcceptedDrift(eff, prints, observed) ==
    {i \in Ids : /\ i \notin InCompensation(eff)
                 /\ observed[i] # prints[i]
                 /\ OpenOn(eff, i) # {} => observed[i] # prints[i] + OpenNet(eff, i)}

-----------------------------------------------------------------------------
(* _detect_reflection_action: with no external_action the fresh amount is   *)
(* compared with a baseline; an identity that fits neither is left out of   *)
(* the vote.                                                                *)
Baseline(prints, ext, i) == IF ext[i] # None THEN ext[i] ELSE prints[i]

Votes(vs, n, prints, ext, held) ==
    {IF held[i] = Baseline(prints, ext, i) + Delta(vs, n)[i]
     THEN "already_reflected" ELSE "apply_delta" :
        i \in {j \in Touched(vs, n) :
                 held[j] - Baseline(prints, ext, j) \in {0, Delta(vs, n)[j]}}}

Detected(vs, n, prints, ext, held) ==
    LET votes == Votes(vs, n, prints, ext, held)
    IN  IF Cardinality(votes) = 1 THEN CHOOSE v \in votes : TRUE ELSE None

(* What the confirmed plan makes of identity i.                             *)
Target(vs, n, plan, i) ==
    plan.before[i] + (IF plan.action = "apply_delta" THEN Delta(vs, n)[i] ELSE 0)

(* _build_preview: None stands for the errors (ambiguous reflection, no     *)
(* target, a negative target); a plan for everything preview_hash covers.   *)
Plan(vs, n, choice, prints, ext, held) ==
    LET action == IF choice = "auto" THEN Detected(vs, n, prints, ext, held) ELSE choice
        plan   == [choice |-> choice, action |-> action,
                   before |-> [i \in Ids |-> IF i \in Touched(vs, n) THEN held[i] ELSE None]]
    IN  CASE vs[n].mode = "record_only" ->
               [choice |-> choice, action |-> "record_only", before |-> [i \in Ids |-> None]]
          [] vs[n].mode = "apply" /\ (action = None \/ Touched(vs, n) = {}) -> None
          [] OTHER ->
               IF action = "apply_delta" /\ \E i \in Touched(vs, n) : Target(vs, n, plan, i) < 0
               THEN None ELSE plan
=============================================================================

---------------------------- MODULE HoldingCases ----------------------------
(***************************************************************************)
(* The holding reconciliation cases of one field (asset_name) of one       *)
(* holding: the tables holding_reconciliation_cases and                    *)
(* holding_event_inbox (operation_state/_holding_case_mixin.py,            *)
(* _holding_event_mixin.py), the event worker                              *)
(* (holding_event_inbox_service.py) and the operator's commands            *)
(* (holdings_workflow_service.py), over a sheet that people edit and that  *)
(* has no compare-and-set.                                                 *)
(*                                                                         *)
(* The holding is "quoted" (a fund or a Hong Kong stock of another broker, *)
(* whose empty name the worker may fill in by itself from a quote) or      *)
(* "futu" (whose name Futu states).  The proposed name is always "quote".  *)
(* A case key is the digest of identity, current and proposed value, so    *)
(* the key is that triple.  A claim id is a uuid4: a process works one     *)
(* claim at a time, so the claiming process stands for it.                 *)
(***************************************************************************)
EXTENDS Integers, FiniteSets

CONSTANTS
    Workers,        \* threads that run process_due
    Operators,      \* people and agents at the command line
    Events,         \* events of the sheet, numbered 1, 2, ...
    None,           \* SQL NULL, no lock owner
    MaxAttempts,    \* bound: apply attempts
    MaxCommands,    \* bound: commands of the operators
    MaxFaults       \* bound: failed calls, crashes, leases that run out in use

ASSUME EventsAssumption == Events \subseteq Nat \ {0} /\ IsFiniteSet(Events)
ASSUME BoundAssumption == MaxAttempts \in Nat /\ MaxCommands \in Nat /\ MaxFaults \in Nat
ASSUME NoneAssumption == None \notin Workers \cup Operators \cup Nat

Procs == Workers \cup Operators

VARIABLES
    sheet,      \* the row of the Feishu sheet
    cases,      \* the case table
    inbox,      \* the event inbox
    proc,       \* what each process is doing
    lock,       \* the owner of the account and record locks
    tries,      \* attempt ids handed out
    called,     \* attempts whose update_record was called
    wire,       \* attempts whose write may still land
    edits,      \* edits so far; edit n is announced by event n
    commands,   \* commands so far
    faults      \* faults so far

vars == <<sheet, cases, inbox, proc, lock, tries, called, wire, edits, commands, faults>>

Idents == {"quoted", "futu"}
Values == {"empty", "quote", "typed"}
Row == [ident : Idents, value : Values]
Attempts == 1 .. MaxAttempts

-----------------------------------------------------------------------------
(* Validation of one row and the cases built from it.                      *)

(* A quoted row's empty name has a proposal only if the quote was asked     *)
(* for; an unanswered one leaves a manual repair.                           *)
Found(x, quoted) ==
    CASE x.ident = "quoted" /\ x.value = "empty" ->
           {[ident |-> x.ident, current |-> x.value, proposed |-> IF quoted THEN "quote" ELSE "none"]}
      [] x.ident = "futu" /\ x.value # "quote" ->
           {[ident |-> x.ident, current |-> x.value, proposed |-> "quote"]}
      [] OTHER -> {}

Keys == UNION {Found(x, quoted) : x \in Row, quoted \in BOOLEAN}

Candidate(x) == x.ident = "quoted" /\ x.value = "empty"

Kind(k) ==
    CASE k.proposed = "none"  -> "missing_manual"
      [] k.current  = "empty" -> "missing_completable"
      [] OTHER                -> "conflict"

FirstState(k) ==
    CASE Kind(k) = "missing_manual"      -> "pending_manual_edit"
      [] Kind(k) = "missing_completable" -> "pending_apply"
      [] OTHER                           -> "pending_confirmation"

Waiting == {"pending_apply", "pending_confirmation", "pending_manual_edit", "failed_retryable"}
Uncertain == {"applying", "apply_outcome_unknown"}
Open == Waiting \cup Uncertain
Supersedeable == Open \cup {"resolved_keep"}
(* Mutant: a kept case is offered again when it is observed again.          *)
Reopenable_Keep == {"resolved_accept", "resolved_external", "superseded", "resolved_keep"}

Reopenable == {"resolved_accept", "resolved_external", "superseded"}

(* auto: the write was made by the automatic policy.  sent:                *)
(* remote_attempt_started_at is set.                                       *)
Case == [state : Supersedeable \cup Reopenable \cup {"absent"}, auto : BOOLEAN,
         attempt : Attempts \cup {None}, sent : BOOLEAN]

Blank == [state |-> "absent", auto |-> FALSE, attempt |-> None, sent |-> FALSE]

(* Mutant: an observation supersedes whatever is there.                     *)
HeldByAutomatic_Never(cs, old) == FALSE

(* Observation cannot release an automatic write whose result is unknown.   *)
HeldByAutomatic(cs, old) == \E j \in old : cs[j].state \in Uncertain /\ cs[j].auto

Materialize(cs, k) ==
    LET old == {j \in Keys \ {k} : cs[j].state \in Supersedeable}
    IN  IF HeldByAutomatic(cs, old) THEN cs
        ELSE [j \in Keys |->
                CASE j \in old -> [cs[j] EXCEPT !.state = "superseded", !.auto = FALSE]
                  [] j = k /\ cs[k].state \in Reopenable \cup {"absent"} ->
                       [Blank EXCEPT !.state = FirstState(k)]
                  [] OTHER -> cs[j]]

MaterializeFound(cs, found) ==
    IF found = {} THEN cs ELSE Materialize(cs, CHOOSE k \in found : TRUE)

(* A fresh scan of the record proves the cases it no longer shows repaired. *)
ResolveAbsent(cs, active, ident) ==
    [k \in Keys |->
       IF cs[k].state \in Waiting /\ k \notin active
       THEN [cs[k] EXCEPT !.state = IF k.ident = ident THEN "resolved_external" ELSE "superseded",
                         !.auto = FALSE]
       ELSE cs[k]]

Applying(cs, k, attempt, auto) ==
    [cs EXCEPT ![k] = [state |-> "applying", auto |-> auto, attempt |-> attempt, sent |-> FALSE]]

UncertainKeys == {k \in Keys : cases[k].state \in Uncertain}

-----------------------------------------------------------------------------
(* Processes.  `seen` is the row as last read, `quoted` whether the quote   *)
(* answered, `got` the value read back (None: no read).                     *)
Idle == [op |-> "none", pc |-> "idle", batch |-> {}, seen |-> None, quoted |-> FALSE,
         key |-> None, uncertain |-> {}, attempt |-> None, was |-> None, got |-> None]

Ops == {"event", "notify", "apply", "keep", "accept", "recover", "agent"}

(* The process goes on with x; an exception leaves the locks and ends the   *)
(* command, or fails the event in hand.                                     *)
Go(p, x) == proc' = [proc EXCEPT ![p] = x]
Unlock(p) == lock' = IF lock = p THEN None ELSE lock

(* process_lock blocks until the locks are free.  Taking them commutes with *)
(* every step of another process, so it is one step with the read after it. *)
Enter(p) == proc[p].pc = "lock" /\ lock = None
Keep(p) == lock' = p

Rest(x) == [Idle EXCEPT !.op = "event", !.batch = x.batch,
                        !.pc = IF x.batch = {} THEN "idle" ELSE "event"]

Raise(p) ==
    /\ Unlock(p)
    /\ Go(p, IF proc[p].op = "event" THEN [proc[p] EXCEPT !.pc = "fail"] ELSE Idle)

Done(p) == Unlock(p) /\ Go(p, Idle)

InHand(x) == CHOOSE e \in x.batch : \A f \in x.batch : e <= f

Fault == faults < MaxFaults /\ faults' = faults + 1

-----------------------------------------------------------------------------
(* External: people edit the row, and Feishu announces each edit at least   *)
(* once, in any order.                                                      *)
Edit(x) ==
    /\ edits + 1 \in Events
    /\ x # sheet
    /\ sheet' = x
    /\ edits' = edits + 1
    /\ UNCHANGED <<cases, inbox, proc, lock, tries, called, wire, commands, faults>>

Land(a) ==
    /\ a \in wire
    /\ wire' = wire \ {a}
    /\ sheet' = [sheet EXCEPT !.value = "quote"]
    /\ UNCHANGED <<cases, inbox, proc, lock, tries, called, edits, commands, faults>>

Accept(e) ==
    /\ e <= edits
    /\ inbox[e].state = "absent"
    /\ inbox' = [inbox EXCEPT ![e].state = "pending"]
    /\ UNCHANGED <<sheet, cases, proc, lock, tries, called, wire, edits, commands, faults>>

-----------------------------------------------------------------------------
(* The event worker.                                                        *)
(* Mutant: there is no sweep.                                               *)
Swept_Never(r) == r

Swept(r) ==
    IF r.late THEN [state |-> "failed_retryable", claim |-> None, due |-> TRUE, late |-> FALSE] ELSE r

ClaimEvents(p) ==
    LET swept == [e \in Events |-> Swept(inbox[e])]
        due   == {e \in Events : swept[e].state \in {"pending", "failed_retryable"} /\ swept[e].due}
    IN  /\ proc[p].pc = "idle"
        /\ due # {}
        /\ inbox' = [e \in Events |-> IF e \in due
                                      THEN [swept[e] EXCEPT !.state = "claimed", !.claim = p]
                                      ELSE swept[e]]
        /\ Go(p, Rest([batch |-> due]))
        /\ UNCHANGED <<sheet, cases, lock, tries, called, wire, edits, commands, faults>>

EventRead(p) ==
    /\ proc[p].pc = "event"
    /\ Go(p, [proc[p] EXCEPT !.pc = "plan", !.seen = sheet])
    /\ UNCHANGED <<sheet, cases, inbox, lock, tries, called, wire, edits, commands, faults>>

(* With no uncertain name write and an empty name of a quoted holding the   *)
(* worker tries to complete the name; otherwise it plans the notifications. *)
EventPlan(p) ==
    /\ proc[p].pc \in {"plan", "replan"}
    /\ Go(p, IF proc[p].pc = "plan" /\ UncertainKeys = {} /\ Candidate(proc[p].seen) /\ tries < MaxAttempts
             THEN [proc[p] EXCEPT !.pc = "lock"]
             ELSE [proc[p] EXCEPT !.pc = "complete", !.uncertain = UncertainKeys])
    /\ UNCHANGED <<sheet, cases, inbox, lock, tries, called, wire, edits, commands, faults>>

Recheck(p) ==
    /\ Enter(p) /\ proc[p].op = "event"
    /\ IF UncertainKeys # {}
       THEN Unlock(p) /\ Go(p, [proc[p] EXCEPT !.pc = "replan"])
       ELSE lock' = p /\ Go(p, [proc[p] EXCEPT !.pc = "fresh"])
    /\ UNCHANGED <<sheet, cases, inbox, tries, called, wire, edits, commands, faults>>

FreshRead(p) ==
    /\ proc[p].pc = "fresh"
    /\ \E quoted \in BOOLEAN :
         LET x == [proc[p] EXCEPT !.seen = sheet]
         IN  IF Candidate(sheet) /\ quoted
             THEN /\ lock' = lock
                  /\ Go(p, [x EXCEPT !.pc = "name", !.quoted = TRUE])
             ELSE Unlock(p) /\ Go(p, [x EXCEPT !.pc = "replan"])
    /\ UNCHANGED <<sheet, cases, inbox, tries, called, wire, edits, commands, faults>>

MaterializeName(p) ==
    LET k == CHOOSE k \in Found(proc[p].seen, TRUE) : TRUE
    IN  /\ proc[p].pc = "name"
        /\ cases' = Materialize(cases, k)
        /\ Go(p, [proc[p] EXCEPT !.pc = "prepare", !.key = k])
        /\ UNCHANGED <<sheet, inbox, lock, tries, called, wire, edits, commands, faults>>

(* Mutant: the completion does not look at the claim.                       *)
HoldsClaim_Any(p, e) == inbox[e].state = "claimed"

HoldsClaim(p, e) == inbox[e].state = "claimed" /\ inbox[e].claim = p

(* One transaction: the cases, the closures and the processed event.        *)
Complete(p) ==
    LET x      == proc[p]
        e      == InHand(x)
        found  == IF x.uncertain # {} THEN {} ELSE Found(x.seen, x.quoted)
        active == found \cup x.uncertain
    IN  /\ x.pc = "complete"
        /\ IF HoldsClaim(p, e)
           THEN /\ cases' = ResolveAbsent(MaterializeFound(cases, found), active, x.seen.ident)
                /\ inbox' = [inbox EXCEPT ![e].state = "processed", ![e].claim = None, ![e].late = FALSE]
                /\ Go(p, Rest([batch |-> x.batch \ {e}]))
           ELSE /\ Go(p, [x EXCEPT !.pc = "fail"])
                /\ UNCHANGED <<cases, inbox>>
        /\ UNCHANGED <<sheet, lock, tries, called, wire, edits, commands, faults>>

(* An exception fails the event; a lost claim ends the cycle and leaves the *)
(* rest of the batch claimed until the lease runs out.                      *)
EventFailed(p) ==
    LET e == InHand(proc[p])
    IN  /\ proc[p].pc = "fail"
        /\ IF HoldsClaim(p, e)
           THEN /\ inbox' = [inbox EXCEPT ![e] = [state |-> "failed_retryable", claim |-> None,
                                                  due |-> FALSE, late |-> FALSE]]
                /\ Go(p, Rest([batch |-> proc[p].batch \ {e}]))
           ELSE Go(p, Idle) /\ UNCHANGED inbox
        /\ UNCHANGED <<sheet, cases, lock, tries, called, wire, edits, commands, faults>>

(* Time: a retry falls due; a lease runs out, which is a fault while the    *)
(* worker is still busy.                                                    *)
RetryDue(e) ==
    /\ ~ inbox[e].due
    /\ inbox' = [inbox EXCEPT ![e].due = TRUE]
    /\ UNCHANGED <<sheet, cases, proc, lock, tries, called, wire, edits, commands, faults>>

LeaseRunsOut(e) ==
    /\ inbox[e].state = "claimed"
    /\ ~ inbox[e].late
    /\ inbox' = [inbox EXCEPT ![e].late = TRUE]
    /\ IF e \in proc[inbox[e].claim].batch THEN Fault ELSE faults' = faults
    /\ UNCHANGED <<sheet, cases, proc, lock, tries, called, wire, edits, commands>>

-----------------------------------------------------------------------------
(* The operator's commands.                                                 *)
Command(p) ==
    /\ proc[p].pc = "idle"
    /\ commands < MaxCommands
    /\ commands' = commands + 1

StartNotify(p) ==
    /\ Command(p)
    /\ Go(p, [Idle EXCEPT !.op = "notify", !.pc = "materialize", !.seen = sheet])
    /\ UNCHANGED <<sheet, cases, inbox, lock, tries, called, wire, edits, faults>>

StartWrite(p, op) ==
    /\ op \in {"apply", "agent"}
    /\ tries < MaxAttempts
    /\ Command(p)
    /\ Go(p, [Idle EXCEPT !.op = op, !.pc = "lock"])
    /\ UNCHANGED <<sheet, cases, inbox, lock, tries, called, wire, edits, faults>>

(* resolve: the stored case is read before the locks are taken.             *)
StartResolve(p, op, k) ==
    /\ op \in {"keep", "accept"}
    /\ op = "accept" => tries < MaxAttempts
    /\ Command(p)
    /\ cases[k].state # "absent" /\ Kind(k) = "conflict"
    /\ Go(p, [Idle EXCEPT !.op = op, !.pc = "lock", !.key = k, !.was = cases[k].state])
    /\ UNCHANGED <<sheet, cases, inbox, lock, tries, called, wire, edits, faults>>

Recoverable(x) == x.state \in Uncertain \cup {"failed_retryable"} /\ x.attempt # None

StartRecover(p, k) ==
    /\ Command(p)
    /\ Recoverable(cases[k])
    /\ Go(p, [Idle EXCEPT !.op = "recover", !.pc = "lock", !.key = k, !.attempt = cases[k].attempt])
    /\ UNCHANGED <<sheet, cases, inbox, lock, tries, called, wire, edits, faults>>

(* The row is read and validated again under the locks.                     *)
LockedRead(p) ==
    LET x     == [proc[p] EXCEPT !.seen = sheet, !.quoted = (proc[p].op = "agent"), !.was = None]
        found == Found(sheet, x.quoted)
    IN  /\ Enter(p)
        /\ \/ /\ x.op = "apply"
              /\ Keep(p)
              /\ Go(p, IF \E k \in found : Kind(k) = "missing_completable"
                       THEN [x EXCEPT !.pc = "prepare", !.key = CHOOSE k \in found : TRUE]
                       ELSE [x EXCEPT !.pc = "materialize"])
           \/ /\ x.op = "agent"
              /\ IF Candidate(sheet) /\ UncertainKeys = {}
                 THEN Keep(p) /\ Go(p, [x EXCEPT !.pc = "prepare", !.key = CHOOSE k \in found : TRUE])
                 ELSE Done(p)
           \/ /\ x.op \in {"keep", "accept"}
              /\ IF x.key \in found /\ ~ (x.op = "keep" /\ proc[p].was = "resolved_keep")
                 THEN Keep(p) /\ Go(p, [x EXCEPT !.pc = IF x.op = "keep" THEN "materialize" ELSE "prepare"])
                 ELSE Done(p)
        /\ UNCHANGED <<sheet, cases, inbox, tries, called, wire, edits, commands, faults>>

MaterializeSeen(p) ==
    /\ proc[p].pc = "materialize"
    /\ cases' = MaterializeFound(cases, Found(proc[p].seen, FALSE))
    /\ Go(p, [proc[p] EXCEPT !.pc = "absent"])
    /\ UNCHANGED <<sheet, inbox, lock, tries, called, wire, edits, commands, faults>>

ResolveExternal(p) ==
    /\ proc[p].pc = "absent"
    /\ cases' = ResolveAbsent(cases, Found(proc[p].seen, FALSE), proc[p].seen.ident)
    /\ IF proc[p].op = "keep" THEN lock' = lock /\ Go(p, [proc[p] EXCEPT !.pc = "settle"]) ELSE Done(p)
    /\ UNCHANGED <<sheet, inbox, tries, called, wire, edits, commands, faults>>

FinalizeKeep(p) ==
    /\ proc[p].pc = "settle"
    /\ cases' = [cases EXCEPT ![proc[p].key].state = "resolved_keep", ![proc[p].key].auto = FALSE]
    /\ Done(p)
    /\ UNCHANGED <<sheet, inbox, tries, called, wire, edits, commands, faults>>

-----------------------------------------------------------------------------
(* _execute_patch: the write, with durable facts before the remote call.    *)
Allowed(op) == {IF op = "accept" THEN "pending_confirmation" ELSE "pending_apply", "failed_retryable"}

PrepareApply(p) ==
    LET x    == proc[p]
        seen == Found(x.seen, x.quoted)
        cs   == ResolveAbsent(MaterializeFound(cases, seen), seen, x.seen.ident)
    IN  /\ x.pc = "prepare"
        /\ tries < MaxAttempts
        /\ IF cs[x.key].state \in Allowed(x.op)
           THEN /\ tries' = tries + 1
                /\ cases' = Applying(cs, x.key, tries + 1, x.op = "event")
                /\ lock' = lock
                /\ Go(p, [x EXCEPT !.pc = "mark", !.attempt = tries + 1])
           ELSE Raise(p) /\ UNCHANGED <<cases, tries>>
        /\ UNCHANGED <<sheet, inbox, called, wire, edits, commands, faults>>

MarkRemoteAttempt(p) ==
    LET x == proc[p]
    IN  /\ x.pc = "mark"
        /\ IF /\ cases[x.key].state = "applying"
              /\ cases[x.key].attempt = x.attempt
              /\ ~ cases[x.key].sent
           THEN /\ cases' = [cases EXCEPT ![x.key].sent = TRUE]
                /\ lock' = lock
                /\ Go(p, [x EXCEPT !.pc = "compare"])
           ELSE Raise(p) /\ UNCHANGED cases
        /\ UNCHANGED <<sheet, inbox, tries, called, wire, edits, commands, faults>>

(* patch_holding_record: the base is compared, then the target written.     *)
ComparePatch(p) ==
    /\ proc[p].pc = "compare"
    /\ \/ /\ faults' = faults
          /\ Go(p, [proc[p] EXCEPT !.pc = IF sheet = proc[p].seen THEN "send" ELSE "readback"])
       \/ Fault /\ Go(p, [proc[p] EXCEPT !.pc = "readback"])
    /\ UNCHANGED <<sheet, cases, inbox, lock, tries, called, wire, edits, commands>>

(* The call succeeds, or fails before or after taking effect, or takes      *)
(* effect later.                                                            *)
SendPatch(p) ==
    /\ proc[p].pc = "send"
    /\ called' = called \cup {proc[p].attempt}
    /\ \/ /\ sheet' = [sheet EXCEPT !.value = "quote"]
          /\ UNCHANGED <<wire, faults>>
       \/ /\ Fault
          /\ UNCHANGED <<sheet, wire>>
       \/ /\ Fault
          /\ wire' = wire \cup {proc[p].attempt}
          /\ UNCHANGED sheet
    /\ Go(p, [proc[p] EXCEPT !.pc = "readback"])
    /\ UNCHANGED <<cases, inbox, lock, tries, edits, commands>>

Readback(p) ==
    /\ proc[p].pc = "readback"
    /\ \/ Go(p, [proc[p] EXCEPT !.pc = "finalize", !.got = sheet.value]) /\ faults' = faults
       \/ Go(p, [proc[p] EXCEPT !.pc = "finalize", !.got = None]) /\ Fault
    /\ UNCHANGED <<sheet, cases, inbox, lock, tries, called, wire, edits, commands>>

Classified(k, got) ==
    CASE got = k.proposed               -> "resolved_accept"
      [] got = k.current \/ got = None  -> "apply_outcome_unknown"
      [] OTHER                          -> "superseded"

FinalizeApply(p) ==
    LET x     == proc[p]
        state == Classified(x.key, x.got)
    IN  /\ x.pc = "finalize"
        /\ IF cases[x.key].attempt = x.attempt
           THEN /\ cases' = [cases EXCEPT ![x.key].state = state, ![x.key].auto = (x.op = "event")]
                /\ IF x.op = "event" \/ (x.op = "agent" /\ state = "resolved_accept")
                   THEN lock' = lock /\ Go(p, [x EXCEPT !.pc = "reread"])
                   ELSE Done(p)
           ELSE Raise(p) /\ UNCHANGED cases
        /\ UNCHANGED <<sheet, inbox, tries, called, wire, edits, commands, faults>>

(* The worker plans from a fresh read; the agent's command materializes one *)
(* that still proves its name.                                              *)
Reread(p) ==
    LET x == [proc[p] EXCEPT !.seen = sheet, !.quoted = FALSE, !.key = None, !.attempt = None, !.got = None]
    IN  /\ proc[p].pc = "reread"
        /\ IF x.op = "event"
           THEN Unlock(p) /\ Go(p, [x EXCEPT !.pc = "replan"])
           ELSE IF sheet = [ident |-> proc[p].seen.ident, value |-> "quote"]
           THEN lock' = lock /\ Go(p, [x EXCEPT !.pc = "materialize"])
           ELSE Done(p)
        /\ UNCHANGED <<sheet, cases, inbox, tries, called, wire, edits, commands, faults>>

-----------------------------------------------------------------------------
(* recover: the case and the row are read again under the locks.            *)
(* Mutant: an unproven write is retryable.                                  *)
RecoveredState_Retries(x, k, row) ==
    CASE row = None             -> "failed_retryable"
      [] row.ident # k.ident    -> "superseded"
      [] row.value = k.proposed -> "resolved_accept"
      [] row.value = k.current  -> "failed_retryable"
      [] OTHER                  -> "superseded"

RecoveredState(x, k, row) ==
    LET unproven == IF x.sent THEN "apply_outcome_unknown" ELSE "failed_retryable"
    IN  CASE row = None             -> unproven
          [] row.ident # k.ident    -> "superseded"
          [] row.value = k.proposed -> "resolved_accept"
          [] row.value = k.current  -> unproven
          [] OTHER                  -> "superseded"

StillRecoverable(p, k) == Recoverable(cases[k]) /\ cases[k].attempt = proc[p].attempt

RecoverRead(p) ==
    LET x == proc[p]
    IN  /\ Enter(p) /\ x.op = "recover"
        /\ IF StillRecoverable(p, x.key)
           THEN /\ Keep(p)
                /\ \/ /\ faults' = faults
                      /\ Go(p, [x EXCEPT !.pc = "recovered", !.got = RecoveredState(cases[x.key], x.key, sheet)])
                   \/ /\ Fault
                      /\ Go(p, [x EXCEPT !.pc = "recovered", !.got = RecoveredState(cases[x.key], x.key, None)])
           ELSE Raise(p) /\ faults' = faults
        /\ UNCHANGED <<sheet, cases, inbox, tries, called, wire, edits, commands>>

FinalizeRecover(p) ==
    LET x == proc[p]
    IN  /\ x.pc = "recovered"
        /\ cases' = IF cases[x.key].attempt = x.attempt
                    THEN [cases EXCEPT ![x.key].state = x.got] ELSE cases
        /\ Done(p)
        /\ UNCHANGED <<sheet, inbox, tries, called, wire, edits, commands, faults>>

(* A read of the sheet or of the evidence fails; a process dies, and the    *)
(* operating system releases its locks.                                     *)
ReadFails(p) ==
    /\ proc[p].pc \in {"event", "fresh", "reread"}
    /\ Fault
    /\ Raise(p)
    /\ UNCHANGED <<sheet, cases, inbox, tries, called, wire, edits, commands>>

Crash(p) ==
    /\ proc[p].pc # "idle"
    /\ Fault
    /\ Done(p)
    /\ UNCHANGED <<sheet, cases, inbox, tries, called, wire, edits, commands>>

-----------------------------------------------------------------------------
Init ==
    /\ sheet \in {x \in Row : x.value = "empty"}
    /\ cases = [k \in Keys |-> Blank]
    /\ inbox = [e \in Events |-> [state |-> "absent", claim |-> None, due |-> TRUE, late |-> FALSE]]
    /\ proc = [p \in Procs |-> Idle]
    /\ lock = None
    /\ tries = 0
    /\ called = {}
    /\ wire = {}
    /\ edits = 1
    /\ commands = 0
    /\ faults = 0

Work(p) ==
    \/ EventRead(p) \/ EventPlan(p) \/ Recheck(p) \/ FreshRead(p) \/ MaterializeName(p)
    \/ Complete(p) \/ EventFailed(p)
    \/ LockedRead(p) \/ MaterializeSeen(p) \/ ResolveExternal(p) \/ FinalizeKeep(p)
    \/ PrepareApply(p) \/ MarkRemoteAttempt(p) \/ ComparePatch(p) \/ SendPatch(p)
    \/ Readback(p) \/ FinalizeApply(p) \/ Reread(p)
    \/ RecoverRead(p) \/ FinalizeRecover(p)

AnyCommand(p) ==
    \/ StartNotify(p)
    \/ \E op \in Ops : StartWrite(p, op)
    \/ \E op \in Ops, k \in Keys : StartResolve(p, op, k)
    \/ \E k \in Keys : StartRecover(p, k)

Next ==
    \/ \E x \in Row : Edit(x)
    \/ \E a \in Attempts : Land(a)
    \/ \E e \in Events : Accept(e) \/ RetryDue(e) \/ LeaseRunsOut(e)
    \/ \E p \in Workers : ClaimEvents(p)
    \/ \E p \in Operators : AnyCommand(p)
    \/ \E p \in Procs : Work(p) \/ ReadFails(p) \/ Crash(p)

(* The worker polls every second and, like the commands, goes on; the clock *)
(* runs; Feishu delivers; and nobody keeps the record locked for ever.      *)
Fairness ==
    /\ \A e \in Events : WF_vars(Accept(e)) /\ WF_vars(RetryDue(e)) /\ WF_vars(LeaseRunsOut(e))
    /\ \A p \in Workers : WF_vars(ClaimEvents(p)) /\ SF_vars(Recheck(p))
    /\ \A p \in Procs : WF_vars(Work(p))

Spec == Init /\ [][Next]_vars /\ Fairness

-----------------------------------------------------------------------------
(* The tables and the processes keep their shape, a process owns the locks  *)
(* exactly at the steps it takes under them, and a claimed event says whose *)
(* it is.                                                                   *)
Locked == {"fresh", "name", "settle", "prepare", "mark", "compare",
           "send", "readback", "finalize", "reread", "recovered"}

Steps == Locked \cup {"idle", "event", "plan", "replan", "lock", "complete", "fail", "materialize", "absent"}

States == Supersedeable \cup Reopenable \cup {"absent"}

Process == [op : Ops \cup {"none"}, pc : Steps, batch : SUBSET Events, seen : Row \cup {None},
            quoted : BOOLEAN, key : Keys \cup {None}, uncertain : SUBSET Keys,
            attempt : Attempts \cup {None}, was : States \cup {None}, got : Values \cup States \cup {None}]

Entry == [state : {"absent", "pending", "claimed", "failed_retryable", "processed"},
          claim : Workers \cup {None}, due : BOOLEAN, late : BOOLEAN]

UnderLock(x) == x.pc \in Locked \/ (x.op # "notify" /\ x.pc \in {"materialize", "absent"})

Shapes ==
    /\ sheet \in Row
    /\ cases \in [Keys -> Case]
    /\ inbox \in [Events -> Entry]
    /\ proc \in [Procs -> Process]
    /\ lock \in Procs \cup {None}
    /\ tries \in 0 .. MaxAttempts /\ wire \subseteq called /\ called \subseteq 1 .. tries

Owners == \A p \in Procs : (lock = p) = UnderLock(proc[p])

TypeOK == Shapes /\ Owners /\ \A e \in Events : (inbox[e].claim # None) = (inbox[e].state = "claimed")

(* docs/holdings-event-listener-runbook.md, "unknown outcomes require       *)
(* operator recovery and are never auto-retried": whatever the scans,       *)
(* edits, leases and crashes do, a name write the automatic policy may have *)
(* sent is settled by its own read-back or by a recovery.                   *)
AutomaticWriteHolds ==
    [][\A k \in Keys :
         cases[k].state \in Uncertain /\ cases[k].auto /\ cases[k].sent
           /\ cases'[k].state \notin Uncertain
             => \E p \in Procs : proc[p].pc \in {"finalize", "recovered"} /\ proc[p].key = k]_vars

(* A case is offered for an ordinary retry only if the remote call of its   *)
(* attempt was never made, crash or no crash.                               *)
RetryableNeverSent ==
    \A k \in Keys : cases[k].state = "failed_retryable" => cases[k].attempt \notin called

(* A person's "keep" is given up only for a different case of the field: a  *)
(* recovery begun earlier or a late read-back never overwrites it.          *)
KeepStands ==
    [][\A k \in Keys : cases[k].state = "resolved_keep" => cases'[k].state \in {"resolved_keep", "superseded"}]_vars

(* A worker whose claim ran out settles nothing: the cases and the event    *)
(* move together, by the worker that holds the claim.                       *)
SettledByClaimant ==
    [][\A p \in Workers :
         proc[p].pc = "complete" /\ proc'[p].pc # "complete"
             => (inbox'[InHand(proc[p])].state = "processed" /\ inbox[InHand(proc[p])].claim = p)
                \/ (cases' = cases /\ inbox' = inbox)]_vars

(* Every event of the sheet has been processed.                            *)
EventsProcessed == \A e \in Events : e <= edits => inbox[e].state = "processed"
=============================================================================

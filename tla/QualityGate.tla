------------------------------ MODULE QualityGate ------------------------------
(***************************************************************************)
(* What has to be proved about an account before its official NAV may be   *)
(* written: the receipt of the latest synchronization with the broker      *)
(* (futu_balance_sync_service.py, futu_sync_reconciler.py,                 *)
(* futu_sync_evidence.py), the window it has to fall in and the account it *)
(* has to be of (quality/futu_evidence.py), the gate that the NAV writer   *)
(* asks (quality/policy.py), and the status that other systems read        *)
(* (quality/service.py, quality/artifact.py).                              *)
(*                                                                         *)
(* Time runs in quarters of a day: t \div 4 is the day, 0 a Monday, and    *)
(* t % 4 tells 08:10, 08:25, 17:10 and 17:25 in Beijing.  The broker's     *)
(* account is a sequence of versions; a field of the sheet holds the       *)
(* version it was written from, or 0 when a person has written it.         *)
(***************************************************************************)
EXTENDS Naturals, FiniteSets, FiniteSetsExt

CONSTANTS
    Moments,    \* the quarters something happens in
    Versions,   \* 1 .. n, the broker's account as it changes
    Profiles,   \* the broker accounts the configuration may name
    Valuations, \* what NAV rows say of their valuation, before the gate was enabled
    Budgets,    \* bounds: full syncs, syncs of the balances, faults, edits
                \* by hand, changes of the configuration, NAV runs, scans
    None

QualityGateAssumption ==
    /\ Moments \subseteq Nat /\ IsFiniteSet(Moments) /\ \A t \in Moments : t >= 4
    /\ Versions = 1 .. Cardinality(Versions)
    /\ \A b \in Budgets : b \in [{"full", "balances", "faults", "edits", "configs", "navs", "scans"} -> Nat]

Kinds == {"full", "balances"}
Replicas == {"quantity", "cost", "cash", "fund"}
Stages == {"positions", "securities_cash", "fund_mmf"}

VARIABLES
    now,        \* the clock
    version,    \* the broker's account now
    profile,    \* the broker account configured, None without a valid or with a shared one
    sheet,      \* the account's holdings
    sync,       \* the full sync, and the sync of the balances of a NAV run
    latest,     \* latest.json, the account's latest receipt
    valued,     \* the valuation of the NAV run under way
    row,        \* the newest NAV row
    twins,      \* whether some date has two NAV rows
    artifact,   \* the published quality status
    left,       \* what is left of the budget
    proofs,     \* history: the full syncs that read their snapshot back
    failed      \* history: whether an attempt that wrote nothing was the last to be saved

vars == <<now, version, profile, sheet, sync, latest, valued, row, twins, artifact, left, proofs, failed>>

Idle == [pc |-> "idle", obs |-> 0, ver |-> 0, prof |-> None, whole |-> FALSE,
         stages |-> {}, partial |-> FALSE, verdict |-> None]

Goto(s, pc) == [sync EXCEPT ![s].pc = pc]
CanSpend(what) == left[what] > 0
Spend(what) == left' = [left EXCEPT ![what] = @ - 1]

(* The account lock is held from the first write of a full sync to its      *)
(* receipt; a sync of the balances holds it for its write only.             *)
Locked == sync["full"].pc \in {"refused", "fund", "readback", "again", "save"}

-----------------------------------------------------------------------------
(* Windows and receipts.                                                    *)
Trigger(t) ==
    \/ t % 4 = 0 /\ (t \div 4) % 7 \in 0 .. 5
    \/ t % 4 = 2 /\ (t \div 4) % 7 \in 0 .. 4

(* The newest trigger whose grace has run out.                              *)
Required(t) == Max({u \in 0 .. t : u + 36 >= t /\ Trigger(u) /\ u + 1 <= t})

Fresh_ADay(r) == r # None /\ r.obs + 4 >= now
Fresh(r) == r # None /\ r.obs >= Required(now)

Complete(r) == r # None /\ profile # None /\ r.whole /\ r.full /\ r.prof = profile

Usable(r) == Fresh(r) /\ Complete(r)

Verdict(r, id) ==
    IF ~Usable(r) \/ r.verdict = None \/ id \notin DOMAIN r.verdict THEN "unavailable" ELSE r.verdict[id]

Trusted(status) == \A id \in DOMAIN status : status[id] = "trusted"

Gate(mapping, quantity, cash, fund, prices, fx, final) ==
    Trusted([m |-> mapping, q |-> quantity, c |-> cash, f |-> fund, p |-> prices, x |-> fx]) /\ final

Mapping == IF Usable(latest) THEN "trusted" ELSE "unavailable"

(* The gate of the NAV writer: finality is what the writer is about to      *)
(* decide, and the cost basis does not count.                               *)
Admits(v) ==
    Gate(Mapping, Verdict(latest, "quantity"), Verdict(latest, "cash"), Verdict(latest, "fund"),
         v.prices, v.fx, TRUE)

-----------------------------------------------------------------------------
(* A synchronization: what the sheet says against what was observed.        *)
Compare(s) ==
    LET says(id, equal) == IF equal THEN "trusted" ELSE "untrusted"
        ver == sync[s].ver
        all == [quantity |-> says("quantity", sheet.quantity = ver), cost |-> says("cost", sheet.cost = ver),
                cash |-> says("cash", sheet.cash), fund |-> says("fund", sheet.fund = ver)]
    IN  IF s = "full" THEN all ELSE [id \in {"cash", "fund"} |-> all[id]]

Unread(s) == [id \in IF s = "full" THEN Replicas ELSE {"cash", "fund"} |-> "unavailable"]

Mismatched(verdict) == \E id \in DOMAIN verdict \ {"cash"} : verdict[id] # "trusted"

Succeeded_Written(s) == ~sync[s].partial
Succeeded(s) ==
    /\ ~sync[s].partial
    /\ ~Mismatched(sync[s].verdict)

Receipt(s) ==
    [obs |-> sync[s].obs, full |-> s = "full", whole |-> sync[s].whole, prof |-> sync[s].prof,
     stages |-> sync[s].stages, partial |-> sync[s].partial, verdict |-> sync[s].verdict,
     ok |-> sync[s].verdict # None /\ Succeeded(s)]

Observe(s) ==
    /\ sync[s].pc = "idle" /\ CanSpend(s) /\ profile # None
    /\ Spend(s)
    /\ sync' = [sync EXCEPT ![s] = [Idle EXCEPT !.pc = "observed", !.obs = now, !.ver = version,
                                                !.prof = profile, !.whole = TRUE]]
    /\ UNCHANGED <<now, version, profile, sheet, latest, valued, row, twins, artifact, proofs, failed>>

(* The query fails, and the moment of the attempt stands for an             *)
(* observation; or what it returned is refused.                             *)
QueryFails(s, whole) ==
    /\ sync[s].pc = "idle" /\ CanSpend(s)
    /\ profile = None => ~whole
    /\ IF profile = None THEN Spend(s)
       ELSE CanSpend("faults") /\ left' = [left EXCEPT ![s] = @ - 1, !["faults"] = @ - 1]
    /\ sync' = [sync EXCEPT ![s] = [Idle EXCEPT !.pc = "failed", !.obs = now, !.whole = whole,
                                                !.prof = IF whole THEN profile ELSE None]]
    /\ UNCHANGED <<now, version, profile, sheet, latest, valued, row, twins, artifact, proofs, failed>>

(* The positions on the sheet do not allow a difference to be computed.     *)
DiffFails ==
    /\ sync["full"].pc = "observed" /\ CanSpend("faults")
    /\ Spend("faults")
    /\ sync' = Goto("full", "refused")
    /\ UNCHANGED <<now, version, profile, sheet, latest, valued, row, twins, artifact, proofs, failed>>

SaveFailed(s) ==
    /\ sync[s].pc \in {"failed", "refused"}
    /\ sync' = [sync EXCEPT ![s] = Idle]
    /\ \/ /\ latest' = Receipt(s) /\ failed' = TRUE
          /\ UNCHANGED left
       \/ /\ CanSpend("faults") /\ Spend("faults")
          /\ UNCHANGED <<latest, failed>>
    /\ UNCHANGED <<now, version, profile, sheet, valued, row, twins, artifact, proofs>>

(* A write that fails may have landed.                                      *)
WritePositions ==
    /\ sync["full"].pc = "observed"
    /\ LET written == [sheet EXCEPT !.quantity = sync["full"].ver, !.cost = sync["full"].ver]
       IN  \/ /\ sheet' = written
              /\ sync' = [sync EXCEPT !["full"].pc = "fund", !["full"].stages = {"positions"}]
              /\ UNCHANGED left
           \/ /\ CanSpend("faults") /\ Spend("faults")
              /\ sheet' \in {sheet, written}
              /\ sync' = [sync EXCEPT !["full"].pc = "readback", !["full"].partial = TRUE]
    /\ UNCHANGED <<now, version, profile, latest, valued, row, twins, artifact, proofs, failed>>

WriteFund(s) ==
    /\ IF s = "full" THEN sync[s].pc = "fund" ELSE sync[s].pc = "observed" /\ ~Locked
    /\ LET written == [sheet EXCEPT !.fund = sync[s].ver]
       IN  \/ /\ sheet' = written
              /\ sync' = [sync EXCEPT ![s].pc = "readback", ![s].stages = @ \cup {"securities_cash", "fund_mmf"}]
              /\ UNCHANGED left
           \/ /\ CanSpend("faults") /\ Spend("faults")
              /\ sheet' \in {sheet, written}
              /\ sync' = [sync EXCEPT ![s].pc = "readback", ![s].partial = TRUE,
                                      ![s].stages = @ \cup {"securities_cash"}]
    /\ UNCHANGED <<now, version, profile, latest, valued, row, twins, artifact, proofs, failed>>

(* A mismatch, other than of the aggregate cash, is read once more after    *)
(* thirty seconds.                                                          *)
ReadBack(s) ==
    /\ sync[s].pc \in {"readback", "again"}
    /\ \E verdict \in {Compare(s), Unread(s)} :
         /\ verdict = Unread(s) => CanSpend("faults")
         /\ left' = IF verdict = Unread(s) THEN [left EXCEPT !["faults"] = @ - 1] ELSE left
         /\ sync' = [sync EXCEPT
                       ![s].pc = IF sync[s].pc = "readback" /\ Mismatched(verdict) THEN "again" ELSE "save",
                       ![s].verdict = verdict]
    /\ proofs' = IF s = "full" /\ sheet.quantity = sync[s].ver /\ sheet.fund = sync[s].ver
                 THEN proofs \cup {[obs |-> sync[s].obs, prof |-> sync[s].prof,
                                    cost |-> sheet.cost = sync[s].ver, cash |-> sheet.cash]}
                 ELSE proofs
    /\ UNCHANGED <<now, version, profile, sheet, latest, valued, row, twins, artifact, failed>>

Save(s) ==
    /\ sync[s].pc = "save"
    /\ sync' = [sync EXCEPT ![s] = Idle]
    /\ \/ /\ latest' = Receipt(s) /\ failed' = (failed /\ s # "full")
          /\ UNCHANGED left
       \/ /\ CanSpend("faults") /\ Spend("faults")
          /\ UNCHANGED <<latest, failed>>
    /\ UNCHANGED <<now, version, profile, sheet, valued, row, twins, artifact, proofs>>

Crash(s) ==
    /\ sync[s].pc # "idle" /\ CanSpend("faults")
    /\ Spend("faults")
    /\ sync' = [sync EXCEPT ![s] = Idle]
    /\ UNCHANGED <<now, version, profile, sheet, latest, valued, row, twins, artifact, proofs, failed>>

-----------------------------------------------------------------------------
(* A NAV run values the holdings, without a lock, and writes under the      *)
(* account lock what the gate admits.                                       *)
Value(v) ==
    /\ valued = None /\ CanSpend("navs")
    /\ Spend("navs")
    /\ valued' = v
    /\ UNCHANGED <<now, version, profile, sheet, sync, latest, row, twins, artifact, proofs, failed>>

WriteNav ==
    /\ valued # None /\ ~Locked
    /\ row' = IF Admits(valued) THEN [valued EXCEPT !.gated = TRUE] ELSE row
    /\ valued' = None
    /\ UNCHANGED <<now, version, profile, sheet, sync, latest, twins, artifact, left, proofs, failed>>

-----------------------------------------------------------------------------
(* The published status: the datasets of the account, and whether its       *)
(* synchronization runs.                                                    *)
Valuation(known) ==
    IF known THEN row ELSE [prices |-> "unavailable", fx |-> "unavailable", final |-> FALSE, gated |-> FALSE]

SyncStatus ==
    IF /\ Usable(latest) /\ latest.stages = Stages /\ ~latest.partial
       /\ \A id \in Replicas : Verdict(latest, id) = "trusted"
    THEN "trusted"
    ELSE IF Fresh(latest) THEN "untrusted" ELSE "unavailable"

CashLike(cash, fund) ==
    CASE {cash, fund} = {"trusted"} -> "trusted"
      [] "trusted" \in {cash, fund} /\ {cash, fund} # {"trusted"} -> "partial"
      [] {cash, fund} = {"unavailable"} -> "unavailable"
      [] OTHER -> "untrusted"

History(audited) == IF audited /\ ~twins THEN "trusted" ELSE IF audited THEN "untrusted" ELSE "unavailable"

NavStatus(v, audited) ==
    /\ Gate(Mapping, Verdict(latest, "quantity"), Verdict(latest, "cash"), Verdict(latest, "fund"),
            v.prices, v.fx, v.final)
    /\ History(audited) = "trusted"

(* What keeps readers from using the NAV, whatever the NAV's own status.    *)
NavDatasets(v, audited) ==
    [mapping |-> Mapping, snapshot |-> Mapping, sync |-> SyncStatus,
     quantity |-> Verdict(latest, "quantity"), cash |-> Verdict(latest, "cash"), fund |-> Verdict(latest, "fund"),
     cashLike |-> CashLike(Verdict(latest, "cash"), Verdict(latest, "fund")),
     prices |-> v.prices, fx |-> v.fx, nav |-> IF NavStatus(v, audited) THEN "trusted" ELSE "untrusted"]

Healthy ==
    /\ Fresh(latest) /\ latest.ok /\ latest.stages = Stages /\ ~latest.partial
    /\ Usable(latest)

(* The NAV rows or the audit of their dates may not be readable.            *)
Publish(known, audited) ==
    /\ CanSpend("scans") /\ Spend("scans")
    /\ known => row # None
    /\ LET v == Valuation(known)
       IN  artifact' = [healthy |-> Healthy, nav |-> NavStatus(v, audited),
                        blocks |-> ~Trusted(NavDatasets(v, audited))]
    /\ UNCHANGED <<now, version, profile, sheet, sync, latest, valued, row, twins, proofs, failed>>

-----------------------------------------------------------------------------
(* External: time, the broker, people and the configuration.                *)
Tick ==
    /\ \E t \in Moments : t > now
    /\ now' = Min({t \in Moments : t > now})
    /\ UNCHANGED <<version, profile, sheet, sync, latest, valued, row, twins, artifact, left, proofs, failed>>

Trade ==
    /\ version + 1 \in Versions
    /\ version' = version + 1
    /\ UNCHANGED <<now, profile, sheet, sync, latest, valued, row, twins, artifact, left, proofs, failed>>

Edit ==
    /\ CanSpend("edits") /\ Spend("edits")
    /\ \/ /\ sheet' \in {[sheet EXCEPT !.quantity = 0], [sheet EXCEPT !.cost = 0],
                         [sheet EXCEPT !.fund = 0], [sheet EXCEPT !.cash = ~@]}
          /\ UNCHANGED twins
       \/ /\ twins' = ~twins
          /\ UNCHANGED sheet
    /\ UNCHANGED <<now, version, profile, sync, latest, valued, row, artifact, proofs, failed>>

Configure(p) ==
    /\ CanSpend("configs") /\ p # profile
    /\ Spend("configs")
    /\ profile' = p
    /\ UNCHANGED <<now, version, sheet, sync, latest, valued, row, twins, artifact, proofs, failed>>

-----------------------------------------------------------------------------
Init ==
    /\ now = Min(Moments) /\ version = 1 /\ profile \in Profiles
    /\ sheet = [quantity |-> 0, cost |-> 0, fund |-> 0, cash |-> TRUE]
    /\ sync = [s \in Kinds |-> Idle]
    /\ latest = None /\ valued = None /\ twins = FALSE
    /\ artifact = [healthy |-> FALSE, nav |-> FALSE, blocks |-> TRUE]
    /\ left \in Budgets /\ proofs = {} /\ failed = FALSE
    /\ row \in IF left.scans = 0 THEN {None} ELSE Valuations \cup {None}    \* only a scan reads it

Next ==
    \/ Tick \/ Trade \/ Edit \/ DiffFails \/ WritePositions \/ WriteNav
    \/ \E p \in Profiles \cup {None} : Configure(p)
    \/ \E s \in Kinds :
         \/ Observe(s) \/ SaveFailed(s) \/ WriteFund(s) \/ ReadBack(s) \/ Save(s) \/ Crash(s)
         \/ \E whole \in BOOLEAN : QueryFails(s, whole)
    \/ \E v \in Valuations : Value(v)
    \/ \E known, audited \in BOOLEAN : Publish(known, audited)

Spec == Init /\ [][Next]_vars

-----------------------------------------------------------------------------
(* The newest window counts and nothing older: a receipt the gate believes  *)
(* was observed in the past, and only a full sync proves anything.          *)
TypeOK ==
    /\ now \in Moments /\ version \in Versions /\ profile \in Profiles \cup {None}
    /\ sheet \in [quantity : Versions \cup {0}, cost : Versions \cup {0}, fund : Versions \cup {0}, cash : BOOLEAN]
    /\ \A s \in Kinds : sync[s].obs <= now /\ sync[s].stages \subseteq Stages
    /\ latest # None => latest.obs <= now /\ (latest.ok => latest.verdict # None)
    /\ left \in [{"full", "balances", "faults", "edits", "configs", "navs", "scans"} -> Nat]

(* quality/policy.py, the gate: a NAV is written on holdings that a full    *)
(* sync of the configured broker account, observed in the newest window     *)
(* that is over, has found on the sheet after it wrote them: through failed *)
(* writes and reads, crashes, edits, other accounts and syncs of the        *)
(* balances alone.                                                          *)
NavOnProof ==
    [][row' # row => \E p \in proofs : p.obs >= Required(now) /\ p.prof = profile /\ p.cash]_vars

(* pm-check-implementation.md, "an explicit failure before writing also     *)
(* overwrites latest": once an attempt has said that it could not           *)
(* synchronize, no NAV is written until one could.                          *)
NavNotAfterFailure == [][row' # row => ~failed]_vars

(* RT-PM-002: an account reported healthy was synchronized in the newest    *)
(* window, all of it, and the sheet showed it.                              *)
HealthyHasSynced ==
    [][artifact' # artifact /\ artifact'.healthy =>
         \E p \in proofs : p.obs >= Required(now) /\ p.prof = profile /\ p.cost]_vars

(* A NAV that readers are told to trust is one that the writer's gate would *)
(* let through at that moment, in a history without twins: the two          *)
(* evaluations never disagree in the dangerous direction.                   *)
PublishedIsAdmitted ==
    [][artifact' # artifact /\ artifact'.nav => row # None /\ row.final /\ Admits(row) /\ ~twins]_vars
=============================================================================

# A TLA+ model of portfolio-management

portfolio-management keeps the books of several investment accounts. The
authoritative data are tables in Feishu (holdings, cash_flow, nav_history,
holdings_snapshot) that people edit directly; the program reads and writes them
over HTTP, keeps its own workflow state in two SQLite databases and some files
on one host, and is run by systemd timers, by an event listener, by an HTTP
service and by operators at a command line. No transaction spans the tables and
the databases, no process lives long, any call may fail after it took effect,
and anything may be edited between two calls. That is where the system is hard
to get right, and what these modules are about.

## 1. Inventory

| Part (src/src/app unless noted) | State | Operations | Hard because |
|---|---|---|---|
| Cash-flow holding effects: `cash_flow_effect_service.py`, `cash_flow_effect_store.py` | SQLite: effect versions per record, fingerprints of cash holdings, external changes, events | init, scan, preview, confirm, record-only, retry, audit, nav_gate | reads the sheets before it locks or decides; writes up to two holdings with no transaction; preview, audit and the end of a retry hold no lock |
| Compensation log: `compensation_service.py` | JSONL log of tasks and their status | record, retry, list | each target is replayed alone, by compare and set, possibly much later |
| Operation receipt outbox: `operation_receipt_outbox_service.py`, `operation_state/_operation_receipt_mixin.py` | SQLite table of typed receipts with claims, leases and attempts | enqueue, claim, send, mark, resolve | the channel may have taken a message whose reply was lost; several dispatchers; leases run out |
| NAV receipt outbox: `nav_receipt_outbox_service.py`, `operation_state/_nav_receipt_mixin.py` | SQLite rows with claims | enqueue and dispatch, drain | at least once by design: an expired claim goes out again |
| Process locks: `process_lock.py` | flock files | lock | released by the death of the holder, not by its success |
| Cash-flow dataset: `cash_flow_summary_service.py`, `domain/cash_flow_contracts.py` | frozen rows of one NAV run | build, summarise, gate | rows frozen before the scan they are handed to |
| NAV recording: `nav_record_service.py`, `account_nav_recorder_service.py`, `daily_nav_job_service.py`, ... | rows of nav_history and holdings_snapshot, a compensation task, saved evidence | value, gate, record, replace the slice, verify, compensate, replay, close | holdings, flows and gate are read at different moments; two tables written without a transaction |
| Snapshots: `snapshot_service.py`, `domain/snapshot_contracts.py` | rows per account and date | plan and apply an exact set | compare and set over a set of rows, in batches that may stop in the middle |
| NAV history repair: `maintenance/nav_history_repair/` | journal of a repair | plan, apply, resume, rollback, backfill | rows change between plan and apply; the journal may end in a torn line |
| NAV calculation: `domain/nav_calculator.py`, `domain/nav/` | none | shares, unit value, returns, self check | boundaries of days, months and years; rounding |
| Quality gate: `quality/` | latest proof per account, published status | gate of the NAV writer, refresh | decides from what was saved earlier, by another process |
| Futu refresh and sync: `futu_refresh_worker.py`, `operation_state/_futu_refresh_mixin.py`, `futu_balance_sync_service.py` | inbox pending/running/completed, latest proof | accept, claim, sync, settle, recover | repeated work after a crash; several syncs at once |
| Holding event inbox: `holding_event_inbox_service.py`, `operation_state/_holding_event_mixin.py` | events with claims, attempts | accept, claim, complete, fail | a late worker settling what another one has claimed |
| Holding cases: `operation_state/_holding_case_mixin.py`, `holdings_workflow_service.py` | cases, apply attempts | materialize, apply, resolve, recover | writes whose result stays unknown |
| Holding change monitor: `holding_change_monitor_service.py`, `operation_state/_holding_monitor_mixin.py`, `domain/holding_changes.py` | baseline of the sheet, requested and completed generations, back-off | initialize, request, scan, settle, fail | requests that arrive while a scan runs; lost events |
| Cash-flow event inbox: `cash_flow_event_inbox_service.py`, `cash_flow_event_completion_service.py`, `cash_flow_fx_confirmation.py` | events, confirmed rates | accept, complete, confirm, reconcile | rows edited between the decision and the write |
| Feishu repositories: `src/src/feishu/repositories/`, `local_cache.py` | copies of the tables in memory and on disk | fresh and cached reads, single and batch writes | other processes and people do not invalidate a copy |
| Pricing: `src/src/pricing/`, `market_time.py`, `run_quote_pool.py` | price cache in memory and on disk, quotes of a run | quote, batch, fall back | sessions, lunch breaks, week ends, time zones |
| Effect receipts, agent holding names | SQLite rows | one command at a time | a crash between send and mark |
| HTTP, command line, configuration, reports | none that others depend on | dispatch, formatting | not concurrent |

Who talks to whom. People edit cash_flow and holdings; Feishu announces each
edit, possibly twice or never. The event of a cash_flow row makes a worker
complete its generated fields; the event of a holding makes another look for a
name to fill in and wakes the change monitor, which compares the whole sheet
with its baseline. Every fifteen minutes a timer turns cash_flow rows into
effect versions and compares holdings with their fingerprints. An operator
previews and confirms a version: confirm writes the holdings, reads them back
and marks the version applied, or leaves a compensation task that `retry` or
`pm compensation retry` finishes later and `audit` picks up. A Futu sync, by
timer, by request or before a NAV run, brings the broker's positions and
balances into the holdings and saves a proof of it. A NAV run values the
holdings, freezes the flows, asks the cash-flow gate and the quality gate,
computes the row on the rows before it, and writes row and snapshot under the
account lock with a task that can finish them. All of them put receipts into
outboxes that a five-minute timer drains into the Feishu channel.

What makes each part correct, in a sentence: an amount of a cash flow ends up in
the holdings exactly once whatever edits, retries and crashes it meets; the
versions of a record form one history with one open end; a message reaches its
readers at most once more than the operator asked for; a NAV row and its
snapshot agree or name the task that makes them agree; a NAV counts in its flows
what it counts in its cash, and rests on a proof that is recent; an automatic
write of unknown result is neither repeated nor forgotten; a copy of a table
answers only with what the table has held, and with what the process itself has
written; every edit, event and request is in the end dealt with.

## 2. Modules

| Module | Models | Run by |
|---|---|---|
| `ReceiptDelivery` | abstract: what an outbox promises of a receipt | (property of both outboxes) |
| `OperationReceiptOutbox` | the operation receipt outbox and its dispatchers | `operation_receipts`, `receipt_progress` |
| `NavReceiptOutbox` | the NAV receipt outbox, a run and a drain | `receipt_progress` |
| `CashFlowVersions` | pure part of the effect workflow: what a row, a scan and a plan make of a record's versions | with the next |
| `CashFlowEffects` | the workflow: sheets, store, locks, commands, compensation, NAV gate | `cash_effects`, `cash_progress` |
| `CashFlowRows` | completion of cash_flow rows: events, workers, operator, confirmed rates | `event_inboxes` |
| `HoldingCases` | name and decision cases of a holding, the event inbox, the operator's commands | `holding_cases`, `event_inboxes` |
| `HoldingMonitor` | observation of the sheet, baseline, generations, duplicates | `holding_monitor` |
| `SnapshotSets` | pure: exact sets of snapshot rows | with the next |
| `NavRun` | the write of a NAV row and its slice, and its recovery | with the next |
| `NavRepair` | extends it with the repair of the history | `nav_runs` |
| `FutuRefresh` | requests, worker, full and balances syncs | `futu_refresh` |
| `NavArithmetic` | pure: what a NAV row is computed from and how | with the next |
| `NavChain` | how a row comes to be from holdings, flows and earlier rows | `nav_evidence` |
| `QualityGate` | proofs, windows, the gate of the NAV writer, published status | `local_copies` |
| `HoldingStore`, `NavIndex` | the holdings and NAV repositories with their copies | `local_copies` |
| `MarketTime`, `PriceQuotes` | sessions and time to live; caches and quotes of a run | `local_copies` |
| `OperationReceiptOutboxProofs`, `NavReceiptOutboxProofs`, `CashFlowEffectsProofs`, `FutuRefreshProofs`, `HoldingCasesProofs`, `HoldingMonitorProofs` | theorems about the module each is named after (section 6) | |
| `NavRepairProofs` | theorems about `NavRepair` with its runs, that is `NavRun` and `SnapshotSets` too | |
| `LocalCopiesProofs` | theorems about `HoldingStore`, `NavIndex` and `QualityGate`, stated of their composition `MCLocalCopies` | |
| `MC...` | constants, bounds, symmetry and composition for TLC | |

Three MC modules put two to four components side by side that do not interact
(`MCReceiptProgress`, `MCEventInboxes`, `MCLocalCopies`): a variable `part` is
chosen at the start and never changes; only that part takes steps, the variables of
the others stand still. The run then asks of each part
what its module states, and its state space is the sum of the parts', not their
product. Where a bound is a record ("budget"), the initial state chooses one of
a set of budgets, so that several small scenarios are one run.

### How the modules correspond to the code

A step of a model is a remote call, a SQLite transaction, or what the code does
between two of them. A read of what others may change, and the update of it that
rests on what was read, are two steps unless one transaction or one conditional
statement of the code makes them one: the comparison of a holding with a plan and
the write of it (a call of Feishu that asks for nothing), or the SELECT and the
UPDATE of a receipt's mark, can be separated by anybody. A process is what it is at
(`pc`, `at`, `stage`) and what it carries to the next step. A remote call ends
in one of the outcomes of `Outcomes`: done, failed before its effect, failed
after it; a crash ends a process anywhere and releases its locks. Variables
marked "history" or "ghost" are not visible to the program; properties compare
them with what is. The exact lines behind every definition are in
`PROJECT.json`.

**Receipts.** In `OperationReceiptOutbox`, `row` is the table, `disp[d]` what
one `dispatch_pending` call has in hand, `accepted` what the channel has taken
and `retries` the operator's decisions. `Enqueue` is `insert_operation_receipt_tx`;
`Claim` the sweep of expired leases, selection and claim in one transaction;
`StartSend`, `Deliver`, `Mark` and their lost variants the three calls of a
dispatch; `ResolveRetry` and `ResolveMarkSent` `pm receipts resolve`.
`NavReceiptOutbox` has a row per run that the run itself dispatches
(`Enqueue`, `Dispatch`) and that `pm receipts dispatch` drains (`Drain`); it has
no state between claim and outcome, so `Swept` makes a row due again while its
first sender may still send. `mark_nav_receipt` is two statements outside a
transaction: `MarkRead` selects the claimed row (if there is none, `MarkLost`
ends the call with `ReceiptDispatchStateUnknown`), `Mark` updates it if it is
still claimed and does not look whether it was. `told` is what the run reports,
which is the outcome of the sending in either case; the history variable `lapsed`
has the receipts that a sweep took from their run between the two. Time is relative
(`age`, `due`), and a uuid that nothing refers to any more may be used again.
`ReceiptDelivery` knows neither claims nor leases: a receipt is owed, doubted or
settled, and some senders are charged with it. Both outboxes implement it, the
operation outbox with doubts (a row that is "unknown" is sent by nobody until the
operator decides), the NAV outbox without.

**Cash-flow effects.** One account with its cash identities outside Futu. A
version carries its source (what the source hash covers), state, mode, saved
plan and compensation task; `contrib` is a ghost: what the holdings really
contain of each record, through every write of the system and every hand edit.

| Command | Steps (actions) | Locks |
|---|---|---|
| timer scan | `ScanStart` (rows), `ScanHoldings`, `CommitScan` (one transaction: versions, then fingerprints) | scanner |
| NAV run | `NavStart` (freezes the rows), `NavScan`, `ScanHoldings`, `CommitScan`, `NavGate`, `RecordNav` | scanner for the scan, account for the record |
| preview | `PreviewStart`, `ReadSource`, `PreviewBuild`, `PreviewSave`; or `Correct`, `Insert` when the row has changed | none |
| confirm | `ConfirmStart`, `ReadSource`, `ConfirmBuild`, then `ConfirmRecordOnly` or `ConfirmApplying`, and per identity `WriteTarget` (a fresh read against the plan), `PutTarget` (the write, whatever the row holds by then), `ReadBack`; `ConfirmPrinted`, `ConfirmApplied`, `ReadSource` again; on an error `RecordTask`, `ConfirmPending` | scanner and account |
| retry (effect or task) | `RetryStart`, per target `RetryTarget` (the retry's own read and verdict), `RetryBase` (the repository's comparison), `RetryPut`, `RetryRead`; `RetryResolve`; for an effect `FinalizePrints`, `FinalizeApplied`, `ReadSource` | account, up to `RetryResolve` |
| audit | `AuditStart`, `FinalizePrints`, `FinalizeApplied`, `ReadSource` | none |

`Correct` and `Insert` are the two halves of `create_version`: outside
`transaction()` Python's sqlite3 begins a transaction with the INSERT, not with
the SELECT before it. A scan runs the same code inside `BEGIN IMMEDIATE`. People
act through `EditFlow`, `TypeIn` (they bring a holding in line with a row) and
`Trade`; `DayPasses` moves the calendar. A `Trade` may fall between a comparison
and the write that follows it, which then overwrites it;
docs/cash-flow-holding-effects.md:605 says that this cannot be prevented, and the
history variable `raced` notes the record and the identity it happened to.
Assumed: an operator who passes an external_action tells the truth about the
holding (`Truthful`); `TypeIn` happens while no operator command is under way;
runs expected to pass have one operator.

**Cash-flow rows.** `CashFlowRows` has the inbox (`Accept`, `Claim`, `LeaseEnds`,
`Complete`, `Fail`), the worker's path through a row (`Preview`, `Resume`,
`LockedPreview`, `Scan`, `Write`, `Readback`, `PostPreview`, `Claimed`), the
operator's reconcile (`Start`, `CommandWrite`, `CommandReadback`) and `Confirm`
of a rate. What a person enters is one of a few "facts", some invalid, some in a
foreign currency; the generated fields are the facts and the rate they were
computed from.

**Holdings.** `HoldingCases` follows the name of one holding: the event worker
(`ClaimEvents`, `EventRead`, `EventPlan`, `Recheck`, `FreshRead`,
`MaterializeName`, and the apply below, then `Complete`) and an operator's
notify, apply_missing, resolve and recover. Every apply goes through
`PrepareApply`, `MarkRemoteAttempt`, `ComparePatch`, `SendPatch`, `Readback`,
`FinalizeApply`; a write that its caller gave up may `Land` later.
`HoldingMonitor` has the pure comparison of domain/holding_changes.py
(`Observed`, `Changed`, `Covered`, ...), and a scan in its three steps `Begin`,
`Read`, `Settle` (or `Fail`), by worker and operator, with `Initialize`,
`Request`, `Announce`, `Start`, `Stop`; `told` is what somebody who reads every
receipt believes. `HoldingStore` is the repository itself: per thread a plan on a
fresh slice (`Begin`), the check of its base (`Check`, `Rebase`), the calls
(`Update`, `Create` and their failures), the proof (`Prove`) and the publication
in the steps in which the code does it (`Publish`, `Put`, `Open`).

**NAV.** `NavRun`: `Call` (the daily job or a manual record, which may skip),
`Prepare` (task on disk under the account lock), `Write`, `Check`, `Batch`,
`Patch`, `Confirm`, `Fail`, and `Retry` of the task; `SnapshotSets` has the
arithmetic of the exact set. `NavRepair` adds `Plan`, `Start`, `ApplyRow`,
`ApplyReread`, `Rollback`, `UndoRow`, `UndoReread`, with the journal as it is on
disk, `Resume` after `RepairCrash`. `NavChain` adds what rows contain: people
enter and `Fill` flows, effects are `Settle`d, a run is begun (`StartDaily`,
`StartReplay`, `StartClose`), its flows frozen (`Freeze`), its row written
(`RecordNav`, `RecordClosed`) with the arithmetic of `NavArithmetic`, which is
done in integers of the least unit, with the roundings of the code; `Backfill`
recomputes derived fields. `NavIndex` is the repository of the rows: `StartWrite`
plans under the table's lock, `StageLands`, `StageLost` or `StageRefused` is a
request of a batch, `Apply` the update of the copies, `Patch`, `Restate`, reads,
`Flush` and `Restart` of the file.

**Syncs and proofs.** `FutuRefresh` follows one account through `Accept`, the
worker (`Own`, `Poll`, `Settle`), and a sync from `LockFull` over the queries,
`LockAccount`, `Diff`, `BaseRead`, `Compare`, `WriteBatch`, `Prove`, the fund
(`FundRead`, `FundCompare`, `FundWrite`, `FundProof`: the same sequence for one
row), `Reconcile` to `Evidence`, for workers, commands and NAV runs.
`QualityGate` takes a sync as few steps (`Observe`, `WritePositions`, `WriteFund`, `ReadBack`, `Save`) and follows
what it proves: windows (`Required`), `Fresh`, `Complete`, `Usable`, the gate
`Admits` of the NAV writer, and what is published (`Publish`).

**Quotes.** `MarketTime` has sessions and time to live in minutes since a
Monday; `PriceQuotes` the cache in memory and on disk, single quotes and batches,
and a daily run over several accounts. A quote is the instant it was observed
at: it is as good as its market has stood still since.

## 3. Runs

| Run | Question | Bounds |
|---|---|---|
| `operation_receipts` | can any interleaving of dispatchers, leases, lost replies and a crash send a receipt twice, or let a dispatcher that lost its claim mark it? Is the promise of `ReceiptDelivery` kept? | 2 receipts, 2 dispatchers, 1 crash, 1 operator retry per receipt, lease of 1 tick |
| `receipt_progress` | the same promise for NAV receipts; can a run report as sent what was not accepted, or, but for a lease that runs out inside its own mark, what is not settled; does a receipt whose sender died come out again? | NAV: 2 receipts, a run and a drain, 1 crash, 2 acceptances, lease and retry delay of 1 tick (attempts are not counted further: `MaxAttempts = 0`); operations: 1 receipt, 2 crashes, lease of 2 ticks |
| `cash_effects` | with edits, hand edits, a failed write or crash anywhere: one open version, no amount twice or in part, nothing verified that is not included, no NAV let through while a confirm writes | 1 record, 2 identities, 2 edits, 1 hand edit, 1 fault, 1 NAV run |
| `cash_progress` | does every edit and every date reach the latest version? | future and historical rows, a moving calendar, 1 NAV run, 1 fault |
| `holding_cases` | is an automatic write of unknown result ever released or repeated, a sent write offered for a plain retry, a decision overruled? | 1 worker, 2 operators with 2 commands, 2 attempts, 1 edit, 1 fault (failure, crash, late landing, lease) |
| `event_inboxes` | is a row or an event forgotten, or settled by a worker that lost its claim; does the inbox come to rest? | 2 records or 2 events, 2 workers; 6 budgets of entries, edits, a deletion, commands, faults, a crash, a lease |
| `holding_monitor` | do requests, baseline and receipts agree with what was read; does the baseline catch up when events are lost? | 2 records, 2 identities, 2 edits, 1 command, failure or crash |
| `nav_runs` | do row and snapshot agree, or name a task that makes them agree; is a repair sound; does the work end? | 2 runs of 2 processes, or a repair of 2 rows beside 1 run; 2 faults, 1 deletion |
| `futu_refresh` | do two workers ever sync at once, are positions overwritten by older ones, is a request completed by an observation from before it, is one lost? | 2 requests, 2 workers, a timer, a NAV run, 3 versions at the broker; 4 budgets of edits and faults |
| `nav_evidence` | is a flow counted as return, or counted in flows and not in cash; do repairs keep the shares? | 3 dates over a month's end, 2 flows, 3 budgets |
| `local_copies` | does a process lose sight of its own writes, answer with what no table held, make twins, write over a change; are quotes good; does a NAV rest on a recent proof, and is what is published true? | 2 processes; 2 holdings, 2 dates, 2 markets; 2, 3 and 2 budgets; for the gate 4 moments from Friday to Monday, 2 broker accounts, 6 budgets |
| `finding_nav_unresolved` | section 5 | as `nav_evidence` |

Each property of a passing run has a mutant, a plausible bug put into one
definition (a dropped guard, a forgotten reset, a compare that is not made), for
which TLC finds the property violated.

Why the bounds are enough for what they are asked. A double send needs one
receipt, two dispatchers and one expiry; the second receipt makes batches and
the early end of a call matter. A move between identities needs two identities
and two edits; one fault at any step is every place a command can be cut, and
what follows (retry, task retry, audit, superseding) is unbounded. The one hand
edit may fall between the two halves of a write, and a lease may run out between
those of a mark. With one retry
delay the number of attempts decides nothing, so the NAV outbox does not count
them. A late worker
needs a second one and a lease; an unknown write needs one fault and the
recovery two attempts. A lost request needs one that arrives during a scan and
the scan after it. Rows and snapshots need two keys for a batch that stops in the
middle, two runs for a task of an older row, two faults for a failure and the
failure of its recovery. A period that ends needs a date on either side of it and
one more for the rows after a repaired one. A window that is missed needs the
moments on either side of it. The amounts of flows and prices do not divide
evenly, so that roundings show. Two faults at once in the cash-flow workflow,
three identities and two records with interfering writes are outside the runs,
and section 5 shows that two records do interfere.

TypeOK of the modules with a state (`RepairTypeOK` for the repair; `HoldingStore`
has its shapes in the invariant of section 6) states the shapes and who owns which
lock. It is not in the list of properties of the runs, since the
others fail with it; it can be added to the INVARIANTS of the configuration. For
the modules with a proof module it is proved, except for the NAV outbox, the
repositories and the gate, where the types the proofs need are part of the
invariants. `MCCashFlowCorrections.cfg` is a larger instance of
`cash_effects` kept beside the runs (three successive rows of one record, two
million states): the deltas of the versions add up to the row.

The properties, in words, stand at their definitions. The ones that say most:

- `WriteCompletesFlow`: every write the system makes for a version leaves the
  holding with exactly the amount of that version, whatever was written, lost,
  retried or edited before; `VerifiedMeansIncluded`: no version's fingerprints
  are confirmed while some identity its record ever named contains anything else;
  both unless somebody edited that holding between a comparison and the write that
  followed it (`raced`);
- `Delivers`: the outboxes with all their claims and leases are `ReceiptDelivery`;
- `AutomaticWriteHolds`, `RetryableNeverSent`: a write that may have been sent is
  settled by its own read back or a recovery, and offered again only if it was
  never sent, although the sheet has no compare-and-set and calls land late;
- `RowsMatchSlices`, `SliceFollowsRow`, `RepairIsSound`, `WorkEnds`: whatever
  fails, a complete row has its snapshot, an incomplete one a task that finishes
  it, and no old task or repair touches what came later;
- `NoReturnWithoutMove`: money that comes in or goes out is not a return: while
  the market stands still, rows that count the flows they value keep the unit
  value, over month ends, holes, closings, replays and backfills;
- `NavRestsOnProof`: a NAV is written on holdings that a full sync of the
  configured broker account has found on the sheet in the newest window, and
  never after an attempt that failed;
- `ReaderKnows`, `BaselineCatchesUp`: a reader of all receipts knows the
  baseline, and the baseline reaches the sheet even if every event is lost.

## 4. Fairness

A command runs to its end or to its crash: weak fairness of its steps. A step
that waits for a lock waits in `flock`, whose holders all let go: strong
fairness of those steps (`ScanStart`, `NavScan`, `RecordNav`, `Recheck`,
`Begin("background")`, `Proceed`). Timers and loops come round: the scan every
quarter of an hour, the dispatch of the whole queue every five minutes, the
workers' polls, the worker restarted by its supervisor. The clock advances, so
leases run out and retries become due. Feishu sends an event again that was not
acknowledged; this is assumed for the inboxes (`Accept`) and not for the monitor,
whose catching up must not depend on it.

Of operators and people nothing is assumed, with one exception: `WorkEnds` says
that what failed *can* be brought to its end, so somebody enters the command an
incomplete row names, again and again (`Asked`), and rolls back a repair that is
not settled (`Rollback`). `SourceCatchesUp` holds if nobody ever previews,
confirms or retries anything: it asks only that the latest version carries the
row, or that a compensation, which waits for an operator, holds it back.
`RequestsComplete` assumes that the broker shows some position in the end (a sync
nobody confirmed never believes an empty account), and faults are bounded
everywhere. In the composed runs, fairness of a disjunction over `part` asks of
each part what its own specification asks, since `part` never changes.

## 5. Where the code differs from what is said of it

One of them is in the list of runs: `finding_nav_unresolved`
(`NavRefusedWhileUnresolved`). The gate is asked once, when the flows are frozen;
the row is written later without asking again, so a flow of the day entered or
corrected in between has no settled effect when the row is written.
docs/cash-flow-holding-effects.md:652 says that an unresolved effect refuses the
formal NAV write.

The following configurations are kept beside the runs; each is expected to end
with a trace of the property named.

| Configuration | Property | What the trace shows |
|---|---|---|
| `MCCashFlowDeletion.cfg` | `DeletionReverses` | a row is applied, edited, and deleted before the edit is confirmed: the deletion's mode depends only on the pending version it replaces, so the applied amount stays (docs/cash-flow-holding-effects.md:353) |
| `MCCashFlowDeferred.cfg` | `CompensationKept` | a preview that read the effect before a confirm fell into compensation supersedes it (same, :620) |
| `MCCashFlowApplied.cfg` | `AppliedIsFinal` | a version read as applying and applied by the time of the INSERT is superseded, and the next delta ignores it (same, :350) |
| `MCCashFlowOwnership.cfg` | `CompensationOwnsHolding` | confirm looks at no other record's compensation; when both flows have the same amount, the retry of the first finds its target reached by the second and closes (same, :365) |
| `MCCashFlowDrift.cfg` | `NoInventedDrift` | a retry does not take the scanner lock: a scan that read before it and commits after it takes its write for a manual change (same, section 7) |
| `MCHoldingMonitorRestored.cfg` | `MonitoredIsTold` | a record told deleted comes back with an invalid quantity, becomes a gap with its old snapshot, and is monitored again without a receipt (domain/holding_changes.py:145; docs/non-futu-holdings-change-monitor-design.md:72) |
| `MCFutuRefreshTold.cfg` | `ChangesAreTold` | the positions are written and the fund's write fails; the retry finds nothing changed and completes without a receipt (futu_balance_sync_service.py:764; docs/architecture.md:172) |
| `MCFutuRefreshLost.cfg` | `RequestsComplete` | the settlement of a failed attempt is committed but reported as failed: the worker repeats it forever and serves no other request (futu_refresh_worker.py:51; docs/architecture.md:174) |

Seen while modelling, with no configuration of their own: a NAV is computed on
the index the process has in memory, which may hold a row another process has
replaced (nav_record_service.py:46); a repair adds its trace to the details of an
incomplete row, whose task then refuses them for good (common.py:230; therefore
`Unfinished` excepts repaired rows); a row corrected to a foreign currency
between the decision and the scan is completed with the rate of the old facts
(cash_flow_event_completion_service.py:95); an expired quote counts as unmoved
since it *expired*, not since it was observed, so the last half hour before a
close may be missing (pricing/cache.py:139; `StaleFailsClosed` states the
former); two threads of one process that publish the same account at once leave
a mixture (holdings_repository.py:218; therefore one thread per process in
`local_copies`); a deposit confirmed between valuation and freeze is counted as a
flow but not as cash (`raced` in `CountsWhatItValues`); a preview may supersede
the version that a confirm is writing (its SELECT is outside a transaction,
cash_flow_effect_store.py:361), and if the edited row is dated to a later day, the
new version is "scheduled" and blocks nothing before that day, so the gate lets a
NAV through between two writes of the confirm, a preview beside a confirm being all
it needs (therefore the hypothesis of `GateBlocks`, section 6). Two consequences of the
design show in traces of the effects: a command that dies while its version is
"applying" leaves it in a state only an edit of the row leads out of, and a
version superseded while its holdings are being written is written but never
applied, which the operator's next preview must be told (already_reflected).

Two more are windows between a check and the write that rests on it, and each is
an exception of a property, without which TLC finds a trace. A sweep by another
process between the two statements of `mark_nav_receipt` makes the UPDATE match
no row; its row count is not looked at (_nav_receipt_mixin.py:156), so the run
reports "sent", `ReceiptDispatchStateUnknown` ("The remote send was attempted but
the local terminal state was not saved.", nav_receipt_outbox_service.py:113) is
not raised, and the receipt is due again and sent a second time. `ToldIsSettled`
excepts what `lapsed` names; without that TLC violates it in a trace of eight states. And
a holding edited between the comparison of a confirm or a retry and its write
loses the edit, reads back as its target and is verified: the documentation admits
it (docs/cash-flow-holding-effects.md:605), `WriteCompletesFlow` and
`VerifiedMeansIncluded` except it by `raced`, and are violated without that.

## 6. Proofs

`OperationReceiptOutboxProofs` proves, for any receipts, dispatchers, claim
ids, lease, delays and limit (finite sets, `None` outside them):

- `TypeCorrect`: `Spec => []TypeOK`;
- `AtMostOncePerPermit`: `Spec => []NoBlindResend`;
- `QueueIsSafe`: `Spec => []QueuedIsNotInFlight`;
- `ClaimantMarks`: `Spec => MarkedByClaimant`;
- `Implements`: `Spec => Delivers`, the refinement of `ReceiptDelivery`.

`NoBlindResend` is not inductive: it says nothing of messages on their way. The
invariant that is has two parts besides the types. `Ownership`: a claim id
belongs to one dispatcher, and a row that is being sent under a claim is the
work in hand of the dispatcher that has it. `Paid`: what the channel has
accepted of a receipt plus what is still in flight is covered by the operator's
retries while the row is open, and by one more once it no longer is; a row is
open (`Open`) when it is queued or when its claimant is about to record a
definite failure. Without the first part the second would not survive a late
dispatcher, who could put the row of another back into the queue. Every action
is one step of the proof; the counting is a lemma about the cardinality of a set
of dispatchers.

`Implements` needs one invariant more, `Acknowledged`: a dispatcher that is about
to mark a row "sent" holds a receipt the channel has accepted. A table's row maps
to none, owed, doubted or settled (`Delivery`), and the dispatchers that are
sending it are the ones charged with it (`InFlight`). Each action then has a
lemma saying which step of the promise it is: `Enqueue` queues, a claim's sweep
puts the rows it makes "unknown" in doubt as one batch, `StartSend` charges,
`Deliver` and a crash release (with or without the message through), `Mark`
settles a row that was sent, puts one of unknown outcome in doubt and leaves a
failed one owed, the operator settles or puts
back; the rest stutters.

`NavReceiptOutboxProofs` proves, for any runs, drains, receipts (numbered by
`created_at`), lease, delays and limit:

- `SentIsTrue`: `Spec => []ToldIsSettled`;
- `Implements`: `Spec => Delivers`, the refinement of the same promise, without
  the operator's part.

In this outbox two calls may be sending one receipt: a lease that runs out makes
the row due again while the first call still has it in hand. The inductive
invariant is the types, `ToldIsSettled`, `Acknowledged`, which says that an
outcome "sent" in the hands of any call, and a row that is settled, have the
channel's acceptance behind them, and `Noted`, which is about the gap in a mark: a
run that has read its claim for an outcome "sent", and not yet written it, still
holds that claim or has its receipt in `lapsed`. The UPDATE itself needs no more:
it finds the row claimed by the same call or changes nothing, and a row that is
settled is not due and is not "sending". So the window is the only way in which a
run can be told "sent" of a row that is not. Claims of a drain and of a run
are shown to charge their batch (`DrainCharges`, `DispatchCharges`), sending to
release the row in hand (`SendReleases`), a crash and a lost mark to release what
is left of the batch, and `Mark` to settle or to change nothing. What is not proved, because it does
not hold, is that a receipt is accepted once.

`CashFlowEffectsProofs` proves, for any finite sets of records and identities,
any processes and roles, any rows, trades, opening amounts and bounds:

- `Typing`: `Spec => []TypeOK`, which is more than shapes: what a stage goes on
  with is there (the rows of a scan, the version a command works on, the plan of
  a confirm, the task of a compensation with a target left to do), although no
  lock is held over most of the reads it rests on;
- `OneOpen`: `Spec => []OneOpenVersion`;
- `GateBlocks`: `DatesHaveCome => (Spec => GateBlocksWhileApplying)`.

The inductive invariant has four parts, `SheetsOK`, `StoreOK`, `LocksOK` and
`ProcsOK`. `StoreOK` says that the history of every record is `Sound`: only its
last version is open, a version in compensation has its task, and no task is
without a target. `ProcsOK` says what a process relies on while others move
(`Hand`). Three of its conjuncts are there only to make the rest inductive. A
confirm after its start and a retry that still has targets hold the account
lock: otherwise a confirm could replace the task, and so the targets, under a
retry that is half done. A plan that is being written names an identity:
otherwise the loop over the targets would have none to take. And a process
between the SELECT and the INSERT of `create_version` that has read a settled
version will still find it settled, so that what it appends goes on top of a
settled one; this is what keeps `OneOpenVersion` true although the two halves
are not one transaction.

The argument about others is made once. Every step of the store takes each
history to one that is `Kept` (no version forgotten, no settled version
reopened, no task lost) and, unless it holds the account lock, has the
`SameTargets`; `OthersKeep` shows that a process which does not move keeps its
`Hand` over any such step. Each action then has a lemma of its own about the
process that moves and the history it changes. The first part of the module has
the types of the pure operators and the steps of a history: one version
replaced, one state changed, the open end superseded, a version appended, a
whole scan.

`GateBlocks` is about a NAV run that evaluates the gate with no lock while a
confirm is between its first and its last write. The invariant `GateInv` has two
parts. `ScannersHold`: whoever scans or confirms owns the scanner lock, so that
one confirm writes at a time and nobody commits a scan during it. `WritersOpen`:
while it writes, the latest version of its record is open and in no compensation.
A confirm starts to write on the latest version, because only that one is open
(`OneOpen`); afterwards another command can do no more than supersede it by
another open one. Such a version blocks the gate, unless it is "scheduled" for a
day that has not come. That exception is real (section 5) and is what the
hypothesis excludes: `DatesHaveCome` says that the calendar of the model starts
on a day by which all rows fall due, or that no row is dated ahead. The run that
checks the property starts there too (`FirstDay = "ready"`); with "before", two
operators and an edit to a later day, TLC finds the gate open.

`FutuRefreshProofs` proves, for any requests, workers, commands and NAV runs, any
positions and versions of the broker's account, any edits and faults:

- `TypeCorrect`: `Spec => []TypeOK`, with the owners of the three locks in it;
- `NoOverlap`: `Spec => []AttemptsDontOverlap`;
- `Observed`: `Spec => []CompletedWasObserved`;
- `NeverBack`: `Spec => PositionsNeverGoBack`.

What a process relies on while others move is its `Hand`: a worker that has a
request in hand works for one that is running, and what it will answer with was
observed after that request came (`Attempt`); a full sync that may still write
(`Writing`) has positions at least as new as any written. The second is why
`NeverBack` holds: it would be lost if another process wrote in between, and only
the owner of the full-sync lock writes positions, which a sync takes before it
asks the broker. With it go the locks (`Inwards`: the steps that write are inside
the account lock), that at most one request runs (`OneRunning`), and that nothing
in anybody's hands is newer than the broker (`Past`). Most of the steps change
one hand, one lock and perhaps the sheet; the lemma `Moves` proves the invariant for
all of them once, and each action shows that it is such a move. The inbox's own
steps (accept, claim, settle, recover) have their lemmas beside it.

`HoldingCasesProofs` proves, for any workers, operators and events, any attempts,
commands and faults:

- `TypeCorrect`: `Spec => []TypeOK`;
- `RetriesAreSafe`: `Spec => []RetryableNeverSent`;
- `AutomaticHolds`: `Spec => AutomaticWriteHolds`;
- `KeepsStand`: `Spec => KeepStands`;
- `ClaimantSettles`: `Spec => SettledByClaimant`.

Cases are changed by observations, which any process makes at any time, and by
the owner of the case locks. `Observed` says all that the first can do to a case:
reopen a closed one without an attempt, or close one with its attempt left on
it, but never an automatic write whose outcome is unknown. The invariant says
what the owner of the locks knows of its case, and that this survives every
observation: during an attempt (`Tried`) the case is being applied or has been
superseded, and is marked before it is sent; a recovery that has decided
(`Settling`) decided for an attempt nobody calls any more. `Recorded` ties the
tables together: what was called had been marked, and a case offered for retry was
not called. `RetryableNeverSent` needs all three: alone it would be broken by the
late read back of an attempt which the invariant does not know to be unsent. The
two action properties about decisions follow from the same invariant by cases on
who moved (`Writes`).

`HoldingMonitorProofs` proves, for any records, identities and contents, any edits
and announcements, commands, failures and crashes:

- `TypeCorrect`: `Spec => []TypeOK`;
- `RequestsAreRead`: `Spec => []CompletedWasRead`;
- `ClosedOnlyOnProof`: `Spec => DuplicateClosedOnProof`;
- `ReadersKnow`: `Restores = FALSE` implies `Spec => []ReaderKnows`.

The comparison is a pure function with five outcomes for a record (deleted,
absent, excluded, a problem, present), and one lemma each says what it returns.
The invariant (`Hand`) says that a scan's baseline is the stored one, up to the
clock, which ages what is missing (`Kept`), and that no generation it completes
was requested after it read. `ReaderKnows` needs more: what the receipts say of
a record matches its entry (`Follows`), a record told deleted is neither on the
sheet nor in a read that waits to be settled (`Away`), and one that such a read
did not find, although it was known, is not on the sheet (`Parted`). The
hypothesis is a constant of the model, and the reason for it is the difference of
section 5: people may restore a deleted row, and the monitor then forgets that it
told so. `MCHoldingMonitorRestored.cfg` has `Restores = TRUE`, the run of the
property has FALSE; the code does what the theorem says as long as nobody
restores a row.

`NavRepairProofs` proves, for any processes, runs, dates, keys and valuations, any
tables to begin with, any faults, deletions, retries and repairs:

- `TypeCorrect`: `RepairSpec => [](TypeOK /\ RepairTypeOK)`;
- `RowsMatch`: `RepairSpec => []RowsMatchSlices`;
- `SlicesFollowRows`: `RepairSpec => SliceFollowsRow`;
- `RepairSound`: `RepairSpec => RepairIsSound`, its three parts.

The account lock carries the first two. Whoever changes a row or a slice owns it
and has read, under it, the row of its date (`Holding` for a run or a retry,
`Command` for the repair); between two of its steps only people touch the tables,
and `OnlyPeople` shows that they can only take the row away. A row names a task of
its own date and value (`RowOf`), and a task is called by one process (`OneCaller`).
`RowsMatchSlices` is then inductive beside these: a run makes the row incomplete
before it touches the slice and marks it complete after it has found the slice
exact, and a repair changes neither value nor status of a row.

Of the three parts of `RepairIsSound`, `NeverClobbers` follows from `Command`: a
repair goes on with rows it has read under the lock and knows (`Known`), as the
plan found them or as it wants them. `RollbackRestores` follows from `Traces`:
only a repair leaves its trace in a row, and a target marked rolled back has none.
`Journal` says that what the plan found and what it wants differ in what is
derived only.

`CompletedIsCanonical` needs a second invariant, `Canonical`, because the plan was
made on other tables than the ones the repair completes on. `Planned`: what the
plan wants of a target is what the calculation gives on the rows the journal
knows, targets as it wants them and others as they were read; `Marked`: a target
marked applied shows what the plan wants, on the sheet and in the rows read last.
The plan computes the rows as a chain, each from the one before; that this
recursive function exists, so that the plan means anything, is proved as well, by
the least date at which it would not, since the library's induction theorems have
operator parameters that cannot be instantiated.

`LocalCopiesProofs` proves of the two repositories and the gate, for any threads,
processes, keys, ids, dates and details, any table to begin with, any edits, lost
calls and restarts, any proofs, windows and configured accounts:

- `SeesItsWrites`: `IsInjective(ProcessOf) => (MCSpec => []WritesAreSeen)`;
- `ServesWhatWasThere`: `IsInjective(ProcessOf) => (MCSpec => []CopiesWereThere)`;
- `KeepsRows`: `MCSpec => []RowsAreKept`;
- `WritesOnItsBase`: `MCSpec => KeepsBase`;
- `NavHasProof`: `MCSpec => NavRestsOnProof`;
- `StatusIsTrue`: `MCSpec => ReportIsTrue`.

The first two are about the holdings and the NAV rows at once. Their hypothesis
says that no two threads of a process publish the same account; two that do leave
a mixture (section 5), since the publication is three steps without a lock. The
other four hold for any assignment of threads to processes.

Of the holdings, `StoreInv` says that a call between its check and its end finds
the records as it planned them, unless somebody raced it (`Unmoved`), which is
`KeepsBase`; `CacheInv` that what a process publishes step by step was read after
its last write, and that the account counts as loaded only when all of it is
there. Of the NAV rows, `TableInv` says that a date has one row and a final row
stays final; `VersInv`, that the numbers of the states only go down, so that a new
state cannot be mistaken for one a process wrote before; `CopiesInv`, that the
index in memory, its view and its file hold states the table has held, and what
their process wrote for as long as the table holds it; and `LockInv`, that the
process with the table's lock has a plan whose updates are in the table and whose
creations are not, so that a batch that stops in the middle makes no twins. Once
people have moved a row to another date, or spoiled one during a write (`hand`),
the invariant claims as little of twins and of own writes as the properties do.

`NavRestsOnProof` is not inductive either: the gate reads a receipt. `GateInv` says
that a receipt of a full sync whose quantities and fund were trusted is backed by
a read of the sheet that found the broker's positions, at the same observation and
for the same configured account (`Backed`), which must be known of every sync
under way as well; and that after an attempt that said it could not synchronize,
the receipt in force says the same. With it, what the gate admits, and what is
published as healthy or as a NAV, follows from the definitions of the windows; a
window may begin while a sync runs, since it is the observation and not the end of
a sync that is compared with it.

The assumptions on the constants are the named ASSUMEs of the modules: sets that
are finite where the code's are, types of amounts and rows, and that `None` is
none of the values it stands in for.

Only model-checked, with the bounds of section 3:

- all liveness properties (`WorkEnds`, `RequestsComplete`, `BaselineCatchesUp`,
  `InboxesSettle`, `SourceCatchesUp`, ...): fairness and leads-to are out of the
  prover's reach;
- everything about the modules without a proof module: `NavChain` with
  `NavArithmetic`, whose recursive sums and chains of rows would need induction
  over data; `MarketTime` and `PriceQuotes` (`QuotesAreGood`); `CashFlowRows`;
- `NothingForgotten`, which joins the two inboxes of the composition;
- for the cash flows, the properties that relate amounts to the ghost `contrib`,
  which hold under the assumption of one operator that the theorems do not need.

## 7. Not modelled

Effect receipts (`cash_flow_effect_receipt_service.py`: serial, under one process
lock) and agent holding names (one idempotent table) have no concurrency of their
own; HTTP service, command line, configuration and reports dispatch and format.
Of the components that are modelled in part: `historical_apply`, rows of effects
that fail validation, effects of Futu and of external changes as versions of
their own; zero-delete tasks of the compensation log; the discovery of broker
accounts and the conversion of OpenD's rows; the parsing of Feishu's events; the
validation rules of holdings other than the ones whose cases are followed (they
yield cases of the same life); the choice among price providers and the
conversion of currencies; performance reports; paging, rate limits and the
client's own retries (a read is one value; a call that fails has taken effect or
has not). Requests that land after their time-out are modelled where the code
reckons with them (`Land` in `HoldingCases`) and left out of the repositories'
modules, where they would break every comparison the code can make.

What comes next: type and ownership invariants of `CashFlowRows`,
`WriteCompletesFlow` and `VerifiedMeansIncluded` under one operator, and the
quotes.

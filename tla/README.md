# A verification of the trading control room

The program is one Python process, `src/app/server.py`: an HTTP server whose
agents propose a trade, whose risk layer approves it, and whose execution layer
validates it, simulates it, or places it on Binance (USDⓈ-M Testnet, or live
behind a gate). Everything durable is in one SQLite database; everything else
is Python threads, a handful of locks and an exchange that may lose an answer.

This directory holds TLA+ models of that program, the TLC configurations that
check them on small instances, and TLAPS proofs for every value of their
constants. Line numbers below are those of `src/app/server.py` unless a file is named.

- [1. The system](#1-the-system)
- [2. Modules](#2-modules)
- [3. Runs, bounds and fairness](#3-runs-bounds-and-fairness)
- [4. Proofs](#4-proofs)
- [5. Known divergences](#5-known-divergences)
- [6. What is abstracted or left out](#6-what-is-abstracted-or-left-out)
- [7. What is left](#7-what-is-left)

## 1. The system

### Threads, locks, state

| Thread | Started by | Lives until |
|---|---|---|
| HTTP handlers | `ThreadingHTTPServer`, one per request | the response |
| workflow (`run_workflow`, 12061) | `launch_run` | the run ends; one at a time |
| scheduler loop (7545), drill loop (7976) | `main` | the process ends |
| user-stream consumer (11158) | start or keepalive of the stream | stop event, or for ever |
| server-readiness runner (13340) | a request | its subprocess ends |

`DB_LOCK` covers one SQL transaction at a time, never two: **every
`get_setting`, `set_setting`, `update_order_state`, `update_run` is a critical
section of its own**, and whatever a thread read may be old when it writes.
`RUN_LOCK` covers `ACTIVE_RUNS`; `USER_STREAM_LOCK`, which is not reentrant,
the stream thread. A request to the venue takes up to eight seconds and is
never made under a lock. `deploy/docker-compose.yml` restarts a process that
dies; the database survives, threads and `ACTIVE_RUNS` do not.

### Components

| Component | State | Operations | Interacts with | What makes it correct |
|---|---|---|---|---|
| Entry submission (11657–11994) | rows of `orders`; the venue's orders and positions | conflict, open-order and position gates; POST; persist; reconcile | runs, OMS, venue | never two entries exposed; no POST while a recorded outcome is unknown |
| OMS (4800–5935, 10365–10700) | `orders`: status, venue_status, reconcile_status | reconcile, cancel, cascades, protected exit, protection submits, the guard, panic cancel, stream events | workflow, stream, HTTP, venue | local terminal states are true; an open order has a row; a position keeps its stop |
| Emergency stop and live arming (5803–5935, 7250–7336, 6431–6486) | settings `emergency_stop`, `live_armed_*` | stop, panic, reset, arm, disarm, consume, startup disarm | workflow, gate | budget kept; nothing released after the window or the stop, bar what was past the check |
| Private stream (10759–11227) | listenKey and flag settings; one thread, its stop event and lock | start, keepalive, close, status; reconnect loop | recovery, readiness, OMS | one consumer; none that is gone looks connected; requests return; close ends it |
| Runs and scheduler (1696–1721, 7339–7562, 12061–12262) | `runs`, `ACTIVE_RUNS`, `scheduler_*` | launch, workflow, loop, configure, run-now | panic stop, drill | one workflow; disabled means at most one more; an enabled scheduler has a time |
| Testnet drill (7565–7996) | `testnet_drill_cycles`, counters | cycle, configure, loop | runs, OMS, recovery, go-live gate | the counter the gate reads never exceeds the evidence |
| Order terms (9348–9942, 9995–10350, 11657–11705) | settings, the snapshot, recent orders | rules or AI intent, validation, risk check, quantity, filters, protections | workflow, execution | no limit is skipped by rounding; a stop stays on its side of the entry |
| Emergency close-out (5636–5800) | the venue's positions, the last plan | cancel all, snapshot, reduce-only orders | panic stop, gate | brings positions nearer to nothing, never through it |
| Go-live gate (6577–7247), local checks (`scripts/run_all_checks.py`) | none of its own; reads settings, rows, two report files | some twenty-five conditions; arm, order, final check, readiness ask it | arming, launch, execution, checks | each failed check blocks; a stop is seen; only the latest checks count |
| Account view (11099–11345, 11511–11600) | account snapshots, the recovery's report | recovery, stream updates | stream, gate | the gates' picture of the account was true at some moment since |
| Pilot review (12373–12744) | none | reads run, rows, chain of protections | OMS | "closed" is closed at the venue |
| Alerts and watchdog (844–1502) | `alerts`, deliveries | raise, acknowledge, resolve, deliver | everything | every change told once; alerts agree with their conditions in the end |
| Audit chain (1512–1682, 5229–5323) | rows with their chain records | append, verify | everything that writes | every record is chained; verification finds a break |
| Backup and restore (`scripts/backup_state.py`, `restore_state.py`) | `trader.db`, its journal, archives | backup, checked restore | operator, server | the database is whole; what is replaced is kept |
| Login limiter (455–505) | `AUTH_FAILURES` | fail, succeed, expire | HTTP | lockout exactly when due |
| Paper ledger (6063–6185, 11758–11841) | `positions` | open, mark, close, report | workflow, HTTP | a report misses no position; a settled result is final |
| Server-readiness runner (13340–13663) and its script | thread, process tree, stored status | start, cancel, repair | HTTP, child | one runner; it ends; its steps keep their order |
| Live pilot script, drill runner script | command line, report | requests over HTTP, `finally` disarm; run-now until a target | arming, runs, drill | the window shut, one launch; a bounded number of attempts |
| Backtests, walk-forward (8276–8534, 8840–8932) | candles, results | replay, store; folds | gate | no look-ahead, exits within the stops |
| AI operator (1957–2433, 2874–3482) | chat, files, snapshots | file and shell actions | HTTP | what a file held first is kept; every message is answered |
| Environment profile and deployment (`live_env_profile.py`, `deploy-server.sh`, `verify-server.sh`, `preflight.py`) | one `.env`, one container | four readers of one file | operator, server | what is accepted means the same to the server |
| Market data and agents' scores; launch plan, handoff; dashboard; smoke checks and exports | – | compute, report | – | not modelled (section 6) |

### Where it is hard

- *Unknown outcomes.* A POST that raised may have been accepted. The order is
  recorded `pending_reconcile` and found by its client order id.
- *Late news.* A REST answer, a stream event and a cascade each carry what the
  venue said some time ago; whoever writes last wins.
- *Partial failure.* A bundle of three orders, each of which may be accepted,
  rejected or unknown, and a guard that cancels in a defined order.
- *Check then act.* Stop, arming, budget, `ACTIVE_RUNS`, counters are all read
  in one critical section and used in a later one.
- *Crash and restart.* Settings outlive the threads that meant to finish them.
- *Late requests.* A script that gives up on an answer does not stop the server
  from handling its request.
- *Several readers of one fact.* A gate that reads twenty-five conditions one
  after another; three programs that parse one `.env`; a report assembled from
  three reads.
- *Arithmetic at boundaries.* Prices rounded three times, windows that include
  their end, integer divisions of a sample.

`PROJECT.json` lists each such place at its line, with the property that would
catch it going wrong, or the reason that none does.

## 2. Modules

```
 SingleEntry  <-- implemented by --  EntryGate  <- MCEntryGate   EntryGate_proofs
 Oms          <- MCOms
 Oms          <- ProtectionReview  <- MCReview (with MCOms)      Oms_proofs (over both)
 LiveControl  <- MCLiveControl                                   LiveControl_proofs
 UserStream   <- MCUserStream
 Runs         <- Scheduler                        Runs_proofs <- Scheduler_proofs
              <- TestnetDrill                                 <- TestnetDrill_proofs
 AuditLog     <- StateStore
 GoLive       <- MCGoLive
 Alerts, ReadinessRunner, AiOperator, LivePilot, DrillRunner  <- MCOperations
    these and UserStream                                      <- Operations_proofs
 StateStore, PaperLedger, Backtest, WalkForward, AccountView, Flatten,
 AuthLimiter, OrderTerms, GoLive, EnvProfile                  <- MCRecords
                                                              <- Records_proofs
```

**SingleEntry** is the promise: an account is held by one client order id at a
time, and an id that held it never does again.

**EntryGate** models `execute_order` for one account: `LaunchRun` (a fresh id),
`PassGate`/`GateRaises` for the three gates *in the order the code asks them*,
`Post`, `Response`/`PostRaises`, `PersistAccepted`/`PersistUnknown`, a `Crash`
anywhere, the venue (accept, refuse, partial fill, fill, cancel, exit), and
`Observe`, which writes any status the venue has *ever* reported, however old.
An update without a status (a reconcile or an emergency cancel that failed) is
three steps of a handler: `ReadRow`, `ReadStatus`, and `WriteBack`, which puts
the status it has read over whatever the row says by then, also
`pending_reconcile` behind the conflict gate. `ord`, `pos`, `seen` are the
venue's; `row` is the orders table; `settled` records whether a row has ever been
told how its entry ended.

**Oms** models one entry, its stop-loss and its take-profit at the venue, their
three rows, and the threads that write them. A thread is a list of jobs; a job
is the code between two points where another thread gets in (a request, or the
release of `DB_LOCK`), so `update_order_state` without a status is `Load` then
`Restore`, and `reconcile_order` is `ReconcileAnswered` then `Store` with its
follow-ups `Cascade`, `CancelSibling`, `MarkExit` in the code's order. The
workflow is `PostEntry` … `WorkflowReturns`, with the protection-failure guard
as `GuardStart`, `GuardRead`, `GuardChildren`, `GuardEnd`. `CancelAnswered`,
`CancelRefused`, `CancelAnswerLost` share `AfterFailedCancel`, which depends on
whose cancel it was. Panic stop is `RequestPanic` (over a snapshot of rows),
`CancelAll`, `ReconcileAll`.

**LiveControl** models the settings behind the emergency stop and live arming,
each access a step: `ArmCheck`/`ArmOpen`/`ArmReset`, `PanicStop`/`PanicDisarm`/
`PanicReturn`, `ConsumeWindow`/`ConsumeCount`/`ConsumeWrite`, the gate's two
reads, `Crash` and `Restart` with its startup disarm.

**UserStream** models the stream's handlers (`pc[h]`), the lock, the stop event
and the consumer's loop.

**Runs** is the part that scheduler and drill share: the runs table, `ACTIVE_RUNS`
and the workflow thread. Its actions leave the variables of the extending
module to that module, which conjoins them. **Scheduler** adds `scheduler_*`,
the loop (`Wake`, `PutOff`, `FindIdle`, `Trigger`, `Book`), run-now, the two
halves of configure and the panic stop's write. **TestnetDrill** adds the
cycles, any number of which may overlap because run-now takes no lock: `Begin`,
`CycleLaunches`, the wait and its deadline, `EvidencePasses`/`CycleRaises`,
`ReadCounters`, `WriteReal`, `WriteTotal`, `WriteRow`, `StopAtTarget`,
`CycleFails`, and the loop.

**ProtectionReview** adds a reader to Oms: `live_pilot_postflight_status` reads
the run, the reconcile marks, the entry and its children in separate queries
while everything else moves, then judges (`Chain`, `Clean`, `Postflight`).

**OrderTerms** carries one entry from the market snapshot to its protections:
`Decide` (AI intent or `RuleIntent`, each through `Valid`), `RiskCheck` with its
freshness and conflict tests, `Meanwhile` (settings and rows that change before
the order is built), `Execute` (quantity, tick, step, filters, the leverage that
is really set) and `Protect`. Floors and roundings are integer operations in
units of a tick and a step, so that what they lose is seen.

**Flatten** models the close-out: `AskClose`, `CancelAllOrders`, the snapshot,
`PlanOrder` (dry run) or `CloseOrder`, `PlanFails`, `WritePlan`; stops trigger and
a late entry fills between snapshot and order, and two requests overlap.

**AccountView** has the truth at the venue (`holdings`) and what the server has
stored of it: `SaveUpdate` (stream), `FetchAccount`, `SaveSnapshot`,
`FetchOrders`, `WriteReport` (recovery, several at once), and the gates.

**GoLive** has the settings of the process, the condition of each gate that
comes and goes (`Loose`), and one `reading` that goes through the gates in three
parts (`ReadPart`), the arming last, before its asker decides (`Answer`, `Arm`,
`FetchReadiness`). The checks are a second process: `StartChecks`, `CheckStep`,
`FetchReadiness`, `WriteFinal`, `WriteActive`, `CheckDies`.

**EnvProfile**: one `.env` in classes of spellings (`"true"`, `"1"`, …), the
predicates of its four readers, and the deployment's steps `CheckEnv`,
`StartContainer`, `Verify`, `EndDeploy`. `Edit` changes one setting.

**Alerts**: a row for each key with a count of its changes; `Raise`, `Resolve`
change it in one transaction and leave the notices of the change to their thread,
a set, one for each channel that is ready; `Send` delivers one of them, whichever
channel it is for, `StartWatch`/`Look` are the watchdog, `PanicRequest`, `ResetRequest`,
`ResolveRequest`, `Acknowledge` the requests.

**AuditLog**: `Begin`/`Commit` are a transaction that writes a row and its chain
record under `DB_LOCK`; `ReadOrder`/`WriteOrder` are `update_order_state`; a hash
stands for the contents it was computed from. **StateStore** puts `Backup`,
`RestoreReads`, `RestoreCopies`, `RestoreReplaces`, `Kill` and the rollback journal
around it.

**PaperLedger**: `OpenPosition`, `StartClose`/`BookClose` (read, then write), and
a report that takes three reads. **AuthLimiter**: `evaluate_basic_auth`, one
action for each outcome, beside a record of all tries; the tries the limiter has
kept are a set of positions in that record. **ReadinessRunner**: the
runner thread (`BeginRun`, `SpawnChild`, `PollCancel`, `PollTimeout`, `PollExit`,
`WriteOutcome`, `Finally`), its child and grandchildren, a pipe of bounded
capacity, and the status request with its repair. **LivePilot** and
**DrillRunner**: the scripts, with the requests they have sent as a set from
which the server takes them late or never. DrillRunner's server tells its
answers apart as the HTTP handler does: `CycleEnds` (201, completed or failed),
`RefuseCycle` and `EvidenceLacking` (409: both are a `RuntimeError`, one before a run
is launched and one after it has ended), `CycleRaises` (400). **AiOperator**: chats that execute
action lists on shared files: `Check`, `Snapshot`, `Overwrite`/`AppendText`/
`RestoreSnapshot`/`Delete`, `Fill`; a truncated file is a content of its own.
**Backtest**: a bar at a time, `OpenBar`, `HoldBar`, `CloseBar`, `EndOfSample`, then
the two transactions that store it. **WalkForward**: the folds of a sample.

Definitions marked "Mutant" state a plausible bug of the definition that
follows them. They are used by nothing; substituted for it, they break the
property that `PROJECT.json` names with them, which shows that the property
depends on that piece of code.

## 3. Runs, bounds and fairness

Run one with `tlc -workers 2 -config X.cfg M`.

| Run | Config | Question | Distinct states |
|---|---|---|---|
| entry_gate | `MCEntryGate` | Is at most one entry exposed, and does the submission implement `SingleEntry`? | 163 039 |
| oms_faults | `MCOmsFaults` (MCReview) | With any two faults, does an open order have a row, does the guard do what it says, does the review call closed what is closed? | 2 314 255 |
| oms_requests | `MCOmsRequests` (MCOms) | With one operator request of any kind, or two faults, are local terminal states true? | 3 162 514 |
| live_control | `MCLiveControl` | Budget, window, stop and restart | 10 102 |
| user_stream | `MCUserStream` | Lock, consumer, requests that return | 40 600 |
| scheduler | `MCScheduler` | Disable, re-arm, run ends | 102 785 |
| testnet_drill | `MCTestnetDrill` | Counters and evidence of overlapping cycles | 129 754 |
| records | `MCRecords` | Ten components that keep a record or give a verdict | 2 372 108 |
| operations | `MCOperations` | Five components that must come to an end | 183 999 |
| oms_unknown_entry, stream_deadlock, local_readiness | `V*` | a statement of the repository that the code does not keep (section 5) | violated |

`records` and `operations` put components side by side that share no state: a
variable `focus`, chosen in the initial state, names the one that moves, the
others rest, so the states add up and are not multiplied. To work on one
component alone, restrict `focus` in the module's initial predicate.

A run checks its component's properties as a few named conjunctions
(`RowsSound`, `TermsSound`, `PilotSound`, …); most begin with the type invariant,
and each is followed below by its parts, which have a name and a comment in the
module. What must happen in the end is kept apart from what must never happen, so that
the second can be proved: in `operations` it is `EveryTaskEnds` and `AlertsSettle`. Where the type invariant of a component is proved (section 4), its run
leaves it out.

**What the passing runs show.**

- `AtMostOneEntry`: the conclusion of the three gates survives a
  crash, a lost answer, a partial fill and arbitrarily old news. It depends on
  open orders being asked *before* positions: an entry that fills in between is
  seen by the second. Swapping the two (the mutant) breaks it.
- `NoPostWhileUnknown`: no entry leaves before the table has been told how every
  recorded one ended. Of the row itself it cannot be said that it is not
  `pending_reconcile` at that moment: a handler may write that back behind the
  conflict gate (section 5). What it writes back is old, and the end is known.
- `HeldByOne`: EntryGate implements `SingleEntry` under the mapping `Phase`.
- `RowsSound` (`NothingForgotten`, `GuardLeavesNothingOpen`), `GuardKeepsUntilConfirmed`:
  whatever two of {POST, protection, cancel, query, event} fail or get lost, an
  order open at the venue has a row, and the guard cancels protections only
  after the entry's cancel was confirmed.
- `ReviewIsTrue` (`ChainPassIsClosed`, `ReviewOkIsSettled`): the postflight reads four tables in
  turn and may combine old and new rows, but the protections of a chain it passes are
  ended at the venue, because a child's `needs_reconcile` mark is part of the verdict.
  Of the entry it says nothing (section 5).
- `LocalTerminalIsTrue`, `CascadeOnlyUnfilled`: `filled`, `canceled`,
  `reconciled` in the table are never ahead of the venue, and a cascade never
  takes the stop of an entry with fills.
- `BudgetKept`, `LeaksAtMostOne` (`AtMostOneLate`, `PanicLeaksAtMostOne`), `NoInheritedWindow`:
  the read-modify-writes of the arming settings lose no budget, and at most one
  run (the one already past the check) can slip through a shut window or stop.
- `ConsumerSound` (`OneConsumer`, `GoneMeansDisconnected`), `RequestsReturn`,
  `StopIsObeyed`: the second look under the lock keeps the stream to one consumer,
  and each of the consumer's four exits takes the connected flag down.
- `LateOnce`: a disabled scheduler launches at most the run it was about to.
  `Rearmed`: enable racing disable can leave an enabled scheduler without a next
  time; the loop repairs it. `RunsGiveWay`: `finally` empties `ACTIVE_RUNS`.
- `RealHasEvidence`: lost updates of the counter only lower it;
  `EvidenceIsOwn`; `CyclesEnd`; `DrillStops`.
- `TermsSound` (`PlacedInOrder`, `PlacedWithinCap`, `MarginBounded`, `RulesDecide`,
  `OnlyOpenOrder`): three roundings do not reorder stop, entry and take; what is
  sent exceeds the checked cap by at most half a unit of quantity; the whole-number
  leverage costs less than twice the margin that was checked; the rules refuse their own
  intent only for a price below 0.84 USDT, or under limits (a leverage below 2, a
  position below 3 per cent) that forbid what they always ask for.
- `CloseOutSound` (`OnlyCloses`, `AnsweredIsDust`): reduce-only makes the old snapshot of a
  close-out harmless, and an answer without a failure leaves less than a step.
- `GatesSawTheAccount`: a passing pair of recovery gates means that the account
  was flat, and was clear of orders, at a moment after that recovery began.
- `GateSound` (`PanicSeen`, `NothingWaived`, `PassMeansLatest`), `EndsWellOnlyLocked`: the arming
  is read last, so a stop during a long reading is seen; the active report hides
  an older final one.
- `DeploymentSound` (`LiveDeployNeedsLeave`, `LiveDeployPassesConfigGates`,
  `DeployedNeverExposed`): the
  shell script knows only `true` where the server knows `1`, `yes`, `on`; the
  profile closes the gap.
- `NoticesSound` (`ToldOnce`, `EveryChangeTold`), `AlertsSettle`: every change of an
  alert is told once although requests, the watchdog and a panic stop raise and
  resolve it at the same time; the alerts agree with their conditions in the end.
- `AuditSound` (`ChainIsTheRecord`, `AlterationShows`, `StatusExplained`): the chain
  holds what was committed, in order, and an altered row shows. `RestoreSound`
  (`DatabaseWhole`, `ReplacedIsKept`): a restore never leaves half a database.
- `PaperSound` (`NothingMissed`, `SettledForGood`): of two closes that race,
  the later one overwrites the earlier one's result, after which the result is
  final; a report meanwhile may count a position twice but misses none.
- `LockoutSound` (`LockedExactly`, `NoTryWhileLocked`): a client is locked out
  exactly when its record of tries says so, at every boundary of the window.
- `RunnerSound` (`OneRunner`, `SequenceKept`): a launch, a cancel, a timeout and a restart
  of the server leave one runner at most, whose steps keep their order.
- `PilotSound` (`LaunchedOnce`, `ShutAtEnd`, `OkMeansCompleted`): whatever answers are
  lost or late. `DrillRunnerSound` (`AttemptsBounded`): the cycles begun for the
  script, less those answered 409, stay within `--max-cycles`; a 409 takes nothing
  from the limit although its cycle may have run, so that the cycles themselves are
  not bounded (`CyclesBounded`, section 5).
- `OperatorSound` (`OriginalKept`): snapshots are taken before
  every change, so what a file held first survives any list of actions.
- `EveryTaskEnds` (`RunnerEnds`, `EveryAskAnswered`, `PilotEnds`, `DrillRunnerEnds`): a child
  that blocks on a full pipe ends by its timeout, a killed server's "running" is
  repaired, as is one left by a start that raised before its `try`; a chat message
  that was taken up is answered; the pilot script ends, and the drill script does
  unless it is answered 409 for ever. That others' runs end rules this out for
  refusals alone; for cycles that fail for lack of evidence nothing does.
- `BacktestSound` (`ExitWithinStops`, `HoldBounded`, `CompletedHasTrades`,
  `BreakoutIsSilent`), `FoldsSound` (`NoLookAhead`, `TestsReachNow`,
  `LongSamplesTest`). `BreakoutIsSilent` states a fact of the code that is worth
  knowing: the bars whose high a close has to exceed contain the bar of that
  close, so the two breakout signals never trade.

**Bounds.** Three client order ids: one of a crashed run, one with an unknown
outcome, one that retries; ids are symmetric, and no symmetry is used for a
liveness property. One handler that writes back what it has read, at work while
two ids at most are drawn (`EarlyCalls`): the third run meets the rows as it left
them. Without this constraint the instance has 2 557 001 states and the same result. `Oms`: `Qty = 2` is the least quantity with a partial fill;
`Budgets` names what a behaviour may use up: in `oms_faults` two faults, so that
the guard's reaction to one can fail too; in `oms_requests` one operator request,
which is already several interleavable jobs, or two faults. A request beside
faults exceeds what TLC explores in a few minutes. An entry that the venue ends by
itself counts as a fault.
`LiveControl`: two arm requests race each other and the consumer, `Max = 2`
tells the first from the last order of a budget; its ghosts `late` and `leaked`
are unbounded and stay small by the properties themselves. `UserStream`: three
handlers, so that one may hold the lock, one wait for it, and one ask for the
status. `Scheduler`: three runs (a late one, a run-now and the loop's next).
`TestnetDrill`: two cycles, the least that overlap; two runs; one crash;
`MaxTarget = 1` so that a cycle reaches the target. `MaxRuns`, `MaxCycles`,
`MaxCrashes`, `Budgets` bound behaviours only; when the run ids are used up, a
launch is refused as if a run were active.
`AuditLog`: two writers, three records (a record, one between, one to alter), one
stop; one backup and a database that has moved on since. `PaperLedger`: two
positions and two closers, so that two close one and one each. `Backtest`: three
prices a stop and a take of 10 and 20 per cent tell apart, windows of one and two
bars, a hold of three. `AuthLimiter`: limit two, window three, lockout two, and
time enough for two lockouts. `OrderTerms`: a coarse and a fine tick and step,
prices on both sides of where rounding to cents matters, capped and uncapped,
with and without equity. `WalkForward`: every length 160 to 1000 and every warmup
of the grid, so nothing is cut off. `Flatten`: a long of two and a short of three
steps of two, so that one leaves dust. `GoLive`: two runs of the checks, one
restart, one loose gate (the gates differ in nothing else that a property sees),
the settings of three profiles. `EnvProfile`: three edits from two templates, enough to turn any
template into any file that differs in what one property combines. `Alerts`: two
threads, two watched keys, two changes. `ReadinessRunner`: two starts, one restart,
a plan of two prerequisites and one evidence step. `AiOperator`: two chats on one
file. `LivePilot`: five command lines, one order a window, two windows.
`DrillRunner`: target and cycles three, two runs of others; `began` tells numbers of
cycles apart up to one more than the limit, since a script that is answered 409
begins any number of them.

**Deadlock** is not checked by TLC: every instance stops legitimately when its
ids, runs, cycles or calls are used up and the network is quiet. That nobody
waits for ever is what `RequestsReturn`, `StopIsObeyed`, `CyclesEnd`,
`RunsGiveWay` state.

**Fairness.** Only of steps that the code cannot fail to take. Threads are
scheduled. `UserStream`: strong fairness of a handler, because a `threading.Lock`
that is free again and again is obtained; requests and connects have timeouts
(`HTTP_TIMEOUT_SECONDS`, `recv` five seconds); nobody has to make a request and
no connection has to fail. `Scheduler`: weak fairness of the loop (it sleeps
five seconds), of a request under way, of the restart (compose) and of a
workflow (every request it makes has a timeout); `TimePasses` needs none.
`TestnetDrill`: weak fairness of a cycle's steps (the wait has a deadline of 300
seconds, so a workflow need *not* end for `CyclesEnd`), of the loop's disabling
and of the restart. `Alerts`: weak fairness of a thread's steps (deliveries have
timeouts; an open dashboard asks about once a minute for readiness and the go-live
gate, which run the watchdog).
`ReadinessRunner`: of the runner thread, and of status requests (the dashboard
polls); *not* of the child, which may hang. `AiOperator`: of a chat's thread.
`LivePilot`: of the script's own steps and of its time limits; the server may never answer.
`DrillRunner`: of the script, of its time limit and of the end of others' runs; its own
cycle may hang. The other modules state safety only.

## 4. Proofs

`tlapm M.tla` checks each. All theorems hold for every value of the constants:
any set of ids, handlers, chats, clients, writers; any number of runs, cycles,
faults and crashes; any prices, grids and windows. Assumptions are the `ASSUME`s of
the models: a budget of at least one, natural bounds, a distinct `NoHandler`, sets
of the right kind. Two say more, because the code does: `OrderTerms` takes
`MAX_LEVERAGE` between 1 and 125 (in tenths), where `risk_config` clamps it, and an
AI entry that is not 0, which the code replaces by the mark price.

Every safety property that a passing run checks, invariant or action property, is the
subject of a theorem.

| Module | Theorem | From |
|---|---|---|
| EntryGate_proofs | `TypeCorrect`, `ExclusiveEntry`, `UnknownBlocksPost`, `Refinement` | below |
| Oms_proofs | `RowsTheorem`, `TerminalTheorem`, `CascadeTheorem`, `GuardTheorem`, `ReviewTheorem` | `IInv`: `Books`, `Truth`, `Progress` |
| LiveControl_proofs | `TypeCorrect`, `BudgetTheorem`, `LateTheorem`, `PanicTheorem`, `LeaksTheorem`, `WindowTheorem` | `IInv` of the model |
| Scheduler_proofs | `TypeCorrect`, `Exclusion`, `LateTheorem` | `RunsInv`, `LateInv` |
| TestnetDrill_proofs | `TypeCorrect`, `Exclusion`, `EvidenceTheorem`, `OwnTheorem` | `RunsInv`, `CountInv`, `OwnInv` |
| Operations_proofs | `StreamTypes`, `OneConsumerTheorem`, `GoneTheorem`, `ConsumerTheorem` | `LockInv` |
| | `RunnerTheorem` | `RunnerInv` |
| | `NoticesTheorem` | `AlertsInv` |
| | `OperatorTheorem` | `OperatorInv` |
| | `PilotTheorem` | `PilotInv`: `LaunchInv`, `ArmInv` |
| | `DrillRunnerTheorem` | `DrillInv` |
| Records_proofs | `GateTypes`, `PanicTheorem`, `NothingWaivedTheorem`, `LatestTheorem`, `LockedTheorem`, `GateTheorem` | `GoLiveInv` |
| | `NoLookAheadTheorem`, `ReachTheorem`, `LongTheorem`, `FoldsTheorem` | `WalkInv` |
| | `AccountTheorem` | `AccountInv` |
| | `PaperTheorem` | `PaperInv` |
| | `AuditTheorem` | `AuditInv` |
| | `RestoreTheorem` | `StoreInv` |
| | `BacktestTheorem` | `BacktestInv` |
| | `DeploymentTheorem` | `EnvInv` |
| | `CloseOutTheorem` | `FlattenInv` |
| | `LockoutTheorem` | `AuthInv` |
| | `TermsTheorem` | `TermsInv` |

The components of `Records_proofs` and of `Operations_proofs` share no state; each
has a part of its own, which begins with its invariant.

- *EntryGate.* `AtMostOneEntry` is not inductive: the POST step needs to know
  that nothing was exposed. `Established` says what each passed gate still
  guarantees although the venue moves on: nothing in flight, then nothing in
  flight or open, then nothing exposed. It is stable because between two gates an order
  can only move *towards* what the next gate looks at (lemma `NoNewExposure`).
  `UnknownBlocksPost` needs `SettledInv`: whatever a row, or a handler that has read
  it, says of an end has been told to the table, so a row that passes the conflict
  gate is one whose entry is known to have ended; that stays so, whatever is
  written back. The refinement needs in addition
  (`RInv`) that an id is exposed only once it was drawn, and that a run before
  its POST has exposed nothing; each step then maps to `Take` (the POST), `GiveUp`
  (a gate raises, a crash before the POST), `Release` (the last exposure of an
  order ends) or a stutter.
- *Oms.* The five theorems rest on one invariant, `IInv`, beside the types. `Truth` is
  about knowledge: a status of an ended order never expires, because at the venue an ended
  order stays as it is. So whatever a row (`RowTrue`), an event on its way or a job
  (`JobTrue`) says of an order that has *ended* is still true, however late it is used:
  a `store` may write an old answer, a `cascade` may act on one, a `restore` may
  write back the status its `Load` has read. What is said of an open order may
  be out of date, and nothing is concluded from it. `Progress` is about
  the workflow: its jobs come in the planned order (`Planned`: each POST before its row,
  the verdict last), nothing is sent twice (`Unsent`), an order open at the venue has its
  row or a `persist` that is next (`Tracked`), and while the guard reports success
  every open child has a cancel to come (`GuardTrue`). `Books` are the venue's own: an
  open entry is not complete, the position is no larger than what was filled. Neither half holds without the other:
  the guard cancels children because it *knows* the entry dead (`Truth`), and the
  cancel is still ahead of it because of `Progress`. Jobs are concatenated and cut in
  every step, so the proof speaks of lists through one predicate, `Among`.
- *ProtectionReview* (`ReviewInv`). A completed run sends nothing more (`CompletedStays`), so the
  protections that were closed when the review found the marks clean stay closed
  while it reads on; rows read at different times therefore agree.
- *LiveControl.* Four independent strengthenings. `BudgetInv`: what was released
  since the last reset is at most the stored count, and at most the count that a
  consuming run has read; so a reset between its read and its write only makes
  the stored count too high. `LateInv`, `PanicInv`: once the one late entry is out, no
  run is past the check. `WindowInv`: an open window was asked for by this process.
- *UserStream* (`StreamInv`). `LockInv`: the lock's holder is at `spawn` or `status`, and
  whoever is at `spawn` holds it; nobody else makes a consumer, so the check
  under the lock is still true when it is used.
- *Runs.* `OneWorkflow` with its types is inductive; `Runs_proofs` proves it
  once, for any step that is a step of `Runs` or leaves it alone, and both
  Scheduler and TestnetDrill show that theirs are.
- *Scheduler.* `LateInv`: when a late run was launched the loop is past its
  trigger, and it cannot come back to it while the scheduler is disabled.
- *TestnetDrill.* `RealHasEvidence` compares a number with a cardinality.
  `CountInv`: the counter is at most the number of cycles that are past their
  write, and a cycle about to write holds an old value at most the number of
  *other* past cycles. A write moves one cycle into the set, so both grow by
  one, whatever the interleaving; lost updates only lower the counter.
  `OwnInv`, for `EvidenceIsOwn`: a cycle's run is one that was launched, no two
  cycles have the same, and the run of recorded evidence has completed; a fresh run's
  id is fresh because every working run has the status "running" (`StatusInv`).
- *GoLive*, for any profiles, any set of loose gates, any number of checks and
  restarts. `PanicSeen` is about a reading of many steps: `HaltInv` says that a
  returned stop leaves the window shut until it is opened again, and that a
  reading which saw the last gate afterwards found `live_arming` failing; which
  a real order requires (`WantedRequires`). `ReportInv`: checks under way keep the
  active report "running", and an "ok" there is the latest outcome. `AskInv`: the
  checks' own question therefore finds `local_readiness` failing, whence `LockedTheorem`.
- *WalkForward*, for any sample lengths from 160 up and any warmups up to 60. `WalkInv` puts
  the last fold at a linear function of its number; the work is in `FoldsFit`,
  arithmetic with the two divisions in four ranges of lengths.
- *AccountView.* `AccountInv`: while a recovery is under way, what is true of the account now
  is among what was true since it began; what it found empty was therefore empty at
  such a moment, and its report says no more than that.
- *PaperLedger.* `PaperInv`: a position that existed when the report began is among the
  open ones it has read or is closed by now. It can be in both, which is the double count.
- *AuditLog.* `AuditInv`: the last hash a writer has read stays the last until it commits, since it
  holds the lock (`LockInv`); a chain nobody has altered is linked and is what was
  committed; an altered one has a record that does not fit, and each later step keeps one.
  The last is by cases of where in the chain the edited or deleted record is.
- *StateStore.* `StoreInv`: from its copy to its replace a restore has no service beside it, and
  no journal is left that could be played into the file.
- *Backtest.* `BacktestInv`: an open position has survived the last candle, so its close
  lies between stop and take; a position closed at a close is thereby within its stops.
- *EnvProfile.* `EnvInv`: what runs was let through by the script *and* the profile;
  lemma `LetThroughIsFit` closes the gap between the spellings, for every file.
- *Flatten.* `FlattenInv`: of each position a close-out still has before it, what is there is a part
  of what it has read (same side, no larger), and of each it has behind it less than a step.
  Every order, stop and other close-out takes a part of a part (`PartsOfParts`).
- *AuthLimiter.* `AuthInv`: pruning keeps every try that a later one can be counted with
  (`LimitedPruned`), so that the count over what was kept is the count over the whole
  record (`LimitedTried`), at every boundary of the window.
- *OrderTerms.* `TermsInv` has a part for each stage: what was decided is valid (`IntentInv`), what was
  checked was checked with the numbers on record (`CheckedInv`), what was sent is those
  numbers on the grid (`PlacedInv`). The conclusions are inequalities between products
  and whole-number divisions; `DivIs`, `FloorIs`, `RoundIs` state what each division loses.
- *ReadinessRunner.* `RunnerInv`: one thread (a request starts one only where none is
  alive), and a child whose steps lie in the order of the plan, whatever of it was
  killed (`Sequenced`).
- *Alerts.* `AlertsInv`: no notice, sent or still to be sent, is of a change that has not
  happened; a change's number is therefore new, and it is told once.
- *AiOperator.* `OperatorInv`: a chat about to change a file has seen to it that what the file
  held first is in a snapshot (`Covered`). Snapshots are only ever added, so that
  this outlasts the other chats; `OriginalKept` alone does not say which of its
  two cases holds when the file is truncated.
- *LivePilot.* `LaunchInv`: the script asks for the launch once, so the request that may still be
  handled late and the run it has launched exclude each other; what it reads is
  of that run. `ArmInv`: once an arm request was answered none is left that could be
  handled after the disarm.
- *DrillRunner.* `DrillInv`: a cycle that may still begin has used up an attempt, and a 409,
  which gives one back, takes its cycle out of the count if it had begun one.

*Only model-checked:* the liveness properties (`RequestsReturn`, `StopIsObeyed`, `Rearmed`,
`RunsGiveWay`, `CyclesEnd`, `DrillStops`, `EveryTaskEnds`, `AlertsSettle`): fairness and
ENABLED are outside the prover's temporal backend.

## 5. Known divergences

TLC shows each of these to be violated: a behaviour in which the code does
otherwise than the repository, or a careful reader, expects. Three are runs of
`PROJECT.json` (`VOmsUnknownEntry`, `VStreamDeadlock`, `VLocalReadiness`) and quoted
under its findings. The other configurations named `V…` hold several such
properties; TLC stops at the first that breaks, so leave one at a time in the
file, or run it with `-continue`. "`MCOperations` +" (or "`MCEntryGate` +") stands
for that configuration with the property added to it.

| Config | Module | Property | What happens |
|---|---|---|---|
| `VOmsUnknownEntry` | MCOms | `CompletedIsProtected` | the answer to the entry's POST is lost; the query adopts the order, and its protections are never submitted (11945) |
| `VOms` | MCReview | `GuardKeepsFilledProtection` | the guard cancels the protection of an entry that is partly filled (10627) |
| `VOms` | MCReview | `NoOrphanProtection` | a protection triggers before its sibling has a row; the sibling stays open (10510) |
| `VLiveControl` | MCLiveControl | `PanicBlocksEntries` | a run past its risk check POSTs after a panic stop has returned (9848) |
| `VStreamDeadlock` | MCUserStream | `NoSelfDeadlock` | a second start asks for the status under the lock that the status takes (11213) |
| `VOms` | MCReview | `ExitMeansClosed` | a child fills while the rest of its parent still works; the parent is marked `protected_exit` (5203) |
| `VOms` | MCReview | `NoStuckRow` | REST reports `EXPIRED_IN_MATCH`: the row is `canceled` and `needs_reconcile`, and is never queried again (5393) |
| `VOms` | MCReview | `NoStuckRow` | a failed panic cancel marks a row that another thread has finished meanwhile (5582) |
| `VLiveControl` | MCLiveControl | `PanicLeavesDisarmed` | an arm request that had passed the gate opens the window after the panic stop (7262) |
| `VPanicScheduler` | Scheduler | `PanicDisables` | a configure request without "enabled" writes back the `true` it had read before a panic stop (7491) |
| `VDrillCount` | TestnetDrill | `CountIsProved` | a crash between the counter and the cycle's row leaves a counted cycle that no row proves (7912) |
| `VLocalReadiness` | MCGoLive | `ChecksRenew` | on a service that asks for live trading the local checks cannot end well: their own running report keeps the gate shut that they ask (9268) |
| `MCOperations` + | MCOperations | `CyclesBounded` | a cycle that has run and lacks its evidence is answered 409, which the script takes for no attempt: it begins cycles beyond `--max-cycles` ("Maximum cycles to attempt in this invocation.", `run_testnet_drill_until_ready.py:118`), for ever if they keep failing, also without `--continue-on-failed-cycle` (7698, 7973, 14411; script 221-225) |
| `MCEntryGate` + | MCEntryGate | `NoPostBesideUnknownRow` | an update without a status writes a `pending_reconcile` it has read back behind the conflict gate, and the POST leaves beside it (5279) |
| `MCOperations` + | MCOperations | `CancelEndsTree` | a step of the child runs in a session of its own and survives the cancel of its run (13410) |
| `MCOperations` + | MCOperations | `OutcomeKept` | a status request that saw "running" writes its repair over the outcome written meanwhile (13360) |
| `VRecords` | MCRecords | `CapJudgedTruly` | the newest snapshot may hold an old wallet, or a part of one: the capital gate passes on it (7067) |
| `VRecords` | MCRecords | `PlacedRewardCoversRisk` | rounding to the tick makes the reward of what is sent smaller than its risk (10206) |
| `VRecords` | MCRecords | `MarginCovered` | the whole-number leverage at the exchange is lower than the one the check used (10167) |

Also false, each stated in its module after a comment that says why. In `VRecords`:
`AuditLog.TransitionsChained` (a stop between the two transactions of
`update_order_state` loses a transition, README.md:46);
`EnvProfile.RunningLiveIsVerified` (a deployment that fails its verification leaves
the container running) and `AcceptedTestnetWorks` (the profile takes
`ENABLE_BINANCE_TESTNET=1`, the server does not); `WalkForward.EveryFoldTests`
(below 360 candles a fold may have no bar to trade on, and counts);
`Flatten.GateMeansPlanned` (README.md:661; the gate looks at the time of the last
plan, not at its outcome). In `VOms`: `ProtectionReview.WorkingChainPasses` (a
healthy working chain does not pass the review); and a chain may pass while the
entry still works: with two reconcile requests at a time, both children expired
before the entry filled, one child's row can end `submitted` with the mark `reconciled`,
which is why `ChainPassIsClosed` speaks of the protections only. With `MCOperations`:
`AiOperator.EveryWriteKept` (two chats that write one file lose a write; a
PROPERTY, like `OutcomeKept`); `LivePilot.WindowShutAtEnd` (an arm request handled
after the script gave up stays armed until it expires).

Smaller facts met on the way, without a property of their own: the `from_status`
of a transition is read before the lock; a chat whose list fails loses the results
of the actions that succeeded; `configure_risk` writes seven settings in seven
transactions; a paper equity of zero falls back to `ACCOUNT_EQUITY_USDT`; with
`BINANCE_ENFORCE_EXCHANGE_FILTERS=false` an entry is not floored but its stops
are; a panic stop and a reset that overlap may leave the alert `panic_stop.active`
open with the flag off; the last recovery to finish overwrites a newer report;
a panic stop cancels protective stops before it asks for the close-out, which is
off by default; the close-out's answer does not look at the executed quantity;
the drill cancels protections together with the entry (7670), which leaves an
unprotected Testnet position if the entry has filled (the positions gate then
blocks the next); a service started during a restore may play its journal into
the restored file.

## 6. What is abstracted or left out

- *Prices, quantities, texts, times.* Statuses are model values; quantities are
  counts of fills; a time is only "later" or "due", "open" or "shut".
- *REJECTED* is not distinguished from an order that was never accepted. The row
  limits of the conflict check, panic cancel and reconcile (500, 200, 100) are
  left out: with three rows a run they bite only after hundreds of runs that
  each left an open row.
- *EntryGate* sees entries only, so its open-order gate passes more often than
  the code's, which also sees protections; the conflict gate's third reason
  (`reconcile_status`) is left out, which lets more rows pass; freshness and preparation
  appear as a gate that raises. A run sleeps eight seconds and a POST carries a
  `recvWindow` of five, which is `RecvWindowElapsed`.
- *Oms* covers one entry with two protections, the venue modelled from how the
  code uses it: a close-position order sells the whole position or expires.
  A crash is left to `EntryGate`, and database failures in the middle of a
  handler are left out. `ExpireEntry`
  models the statuses by which a venue ends an order itself.
- *LiveControl*: the gate's evidence checks are `WorkflowRaises`; the guard's
  disarm is `Disarm`; the launch check of a live run reads stop and arming in
  one step, since it is repeated by the gate before the POST; an exception of the
  startup disarm, which `main` prints and survives, is left out.
- *UserStream* has no crash (a new process starts in `Init`, whose key and flag
  are what the old one left); the stored status text is left out.
- *Runs*: `queued` is not told from `running`, and an exception of the very last
  event insert, after a run was marked completed, is left out.
- *Scheduler*: mode and symbol are fixed; the errors that configure raises
  before it writes anything are stutters.
- *TestnetDrill*: the next-cycle time is left out, so the loop may look at any
  time; configure's writes of enabled and target are one step; the loop's read
  of its status and of `ACTIVE_RUNS` are one step; the mode is an enabled one;
  order and recovery checks are outcomes (`EvidencePasses`, `CycleRaises`).
- *ProtectionReview*: of the postflight's other checks (arming, recovery, streams)
  each reads one component's status; they are left to those components.
- *OrderTerms*: prices are exact integers where the code has floats; the agents'
  free texts and the scores behind the signs are inputs.
- *Flatten*: one symbol, one late fill. *AccountView*: one mode; a position or an
  open order is there or not.
- *GoLive*: one reader of the gate at a time, since readings share nothing but
  what they read; a gate's condition is a flag, except where it reads the
  settings, the arming, the stop or the checks' reports.
- *EnvProfile*: the `.env` is not edited while a deployment runs.
- *StateStore*: the default target; no service is started during a restore.
- *Alerts*: what a notice says is the number of its change.
- *AiOperator*: snapshots are on (with `AI_OPERATOR_SNAPSHOT_WRITES=false` what a file
  held first may be lost), and no file exceeds the size limit of a snapshot, above which
  the write is refused.
- *ReadinessRunner*: output is counted in buffers. *LivePilot*: the checks between
  the script's requests are outcomes. *Backtest*: fees and metrics are left out.
- *records*, *operations*: one component moves in a behaviour, since they share no
  state; what connects them (a panic stop, the gate's evidence) is an action of each.

*Not modelled, and why.* Market data and the agents' scores: floating-point sums
over one snapshot, without state or concurrency. The metrics of a backtest and the
ranking of parameters: the same. Routing, rendering and the dashboard's
JavaScript: no state but the page's. Launch plan and handoff: reports computed
from status dictionaries. The prompts and the model call of the AI operator: its
answer is one of the lists of actions that `MCOperations` enumerates. Smoke checks, exports and the blueprint check:
tests of the server and zip files; they were read as documentation of what the
server promises.

## 7. What is left

- Composition: `Oms` under the `Runs` workflow, for the drill's clean-up of an
  entry that has filled; an abstract "position and its protection" that the OMS
  implements outside the known divergences.
- Properties across components, with their proofs: what a reading of the gate says about
  the account, over `GoLive` and `AccountView` together; the drill's evidence over the
  rows that `Oms` leaves.
- An abstract specification for the arming window, as `SingleEntry` is one for entries.
- The order in which the notices of one alert go out; the code promises none.

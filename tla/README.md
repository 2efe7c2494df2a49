# Alpha Edge in TLA+

Alpha Edge is a portfolio terminal: a Next.js front end over a Go ledger
(`src/backend`, SQLite) that takes signals from TradingView and broker
statements from a mail importer, turns them into instructions to one operator,
and buys research from a provider. This directory holds TLA+ modules of the
parts of the ledger where order, failure and repetition decide the outcome, TLC
configurations that check them on small instances, and TLAPS proofs that carry
the most important results to every instance. `PROJECT.json` maps each
definition to the source lines it stands for, and lists runs, mutants,
hazards, findings and theorems.

## 1. The system

The ledger is one process. HTTP handlers run concurrently on a pool of 12
SQLite connections (WAL, `synchronous=FULL`, `main.go:31`); a statement or a
transaction is atomic, and what a handler has read may be old when it writes.
Goroutines started in `main.go` add the data-refresh automation, the webhook
inbox worker, the research worker, the weight-policy worker and the backup
scheduler. A process can die between any two statements.

| Component | State | Operations | What can go wrong |
|---|---|---|---|
| Webhook inbox, dead letters | `webhook_inbox`, `webhook_dead_letters`, `webhookProcessingMu` | admit, execute, recover, clean up, retry, dismiss | crash in mid-effect, repeats, old signals after new ones |
| Security actions, alerts, decisions | `alerts`, `security_actions`, `decisions`, `deploymentFundingMu` | create, poll (expire, backfill, prioritise), record, ignore, override, decide, dismiss, reconcile | every read of the queue also writes it; answers meet polls, imports and each other |
| Source research | `source_research_jobs`, `researchSubmitMu`, the provider | create, submit, poll, fetch, recover | lost answers, a POST in doubt, paying twice |
| Data refresh | `data_refresh_runs` (a lease for each dataset) | cycle, manual routes | abandoned leases, timeouts, late outcomes |
| Portfolio risk overlay | `overlay_signal_state`, `overlay_events`, `q4_crisis_state`, `equity_sizing` | Q3/Q4 webhooks, sync, stage 1, stage 2, baseline | multi-statement updates without a common mutex |
| Portfolio plans and shapes | `portfolio_rebalance_plans`, `portfolio_mix_snapshots` | create, partial, complete, approve a plan, approve the mix | two approvals in one lock period, a plan changed since it was read, months of unequal length |
| Council analyses, portfolio memo | the browser's `localStorage`, poll loops, the proxy of `app/api/council` | submit, look up, poll, recover, reload, sign out | an answer that is lost, late or unreadable while money is spent |
| Deployment funding, cash movements | `cash_movements`, `asset_class_config`, statement cash | request, fund, record, confirm | two purchases from one pool, order of pending changes |
| Weight policy | `weight_policy`, proposals, router cache | propose, withdraw, mode | proposals against trades under way |
| Statements, revisions, history | `account_statements`, `statement_revisions`, `holdings` | import, correct | older imports, repeated or reverted corrections |
| Webhook processors, regimes | `security_positions`, `regimes`, proposals, `etf_allocations` | one per signal kind | several statements per signal, goroutines outside the mutex |
| ETF allocation, management, momentum | ETF tables, `etfManagementMu` | mode change, policy, publication | mode change with a trade under way |
| Commodity themes, prices | theme and price tables | refresh, recompute | stale prices |
| News | jobs, cohorts, theses | bootstrap, daily run, uplift | jobs that never end |
| Identity, listings, exchanges, groups | `security_identities`, `stock_analysis`, mappings | link, look up, assign | a lookup over the network that outlives the row it was for |
| Asset classes, analysis, memos, subscriptions | catalogue tables | CRUD | little: one transaction each |
| Owner sessions, authorisation | sessions, challenges | sign in, recover | left to its own tests |
| Migrations, backups | schema, backup status | before the server; daily claim | two claims, a crash in mid-backup |
| Rest of the front end, gateways | browser memory, session storage | poll, mutate, render | late answers, overlapping loads |

How they interact: TradingView posts to the inbox (`acknowledgeAndProcessWebhook`),
the inbox's worker calls a processor under `webhookProcessingMu`, the processor
stores alerts and their actions; the front end polls the queue, and the poll
expires, backfills and ranks it and runs the weight policy under
`deploymentFundingMu`, which ranks it again, as a worker does every five minutes;
the operator's answers go back through the queue or through the alert routes; a statement import settles what was reported; a
change of ETF management mode takes `etfManagementMu` and then
`deploymentFundingMu` and closes a fund's actions. The research and refresh
workers and the plan requests share only the database with all this. Council
jobs never touch the ledger: browser and proxy submit them to an external
service, and the browser alone remembers what it submitted.

What makes each modelled component correct:

* **Inbox.** No acknowledged signal is lost; an attempt in doubt is not
  repeated except by the owner; a dated signal is not started again by a
  redelivery, nor after a newer one of its source that was processed, nor when it
  is older than a day.
* **Queue.** An Exit does not vanish; a purchase is reported once; an answered
  action does not return; a verdict rests on a later statement; the queue does
  not wedge and misses no alert.
* **Research.** A request is run at most once by the provider, whatever is
  repeated or lost; a job has its own run; what runs at the provider counts
  against the limit; no stored job hangs.
* **Refresh.** A live refresh is not doubled; abandoned leases come back;
  every dataset keeps being refreshed.
* **Plans and shapes.** Shapes are approved four calendar months apart, whatever
  runs at once and whatever day a month ends on; one shape is in force; a
  refused approval changes nothing.
* **Council.** A submission is paid once; nothing is shown as refused that the
  service took or may still take; an analysis is not bought again while the
  outcome of an earlier submission is unknown; no click and no memo hangs.

## 2. Modules

| Module | Models | State ↔ code |
|---|---|---|
| `WebhookInbox` | `webhook_inbox.go`, `webhook_dead_letters.go` | `inbox`, `letters`: the tables; `job`: who holds `webhookProcessingMu` and where; `worker`: the goroutine outside the mutex |
| `SignalLifecycle` | the promise of `DOCS/api/WEBHOOK_CONTRACT.md` for one signal | abstract; `ImplementsLifecycle` maps the tables to it |
| `SecurityActions` | `security_actions.go`, the alert handlers of `alerts.go`, the queue part of `weight_policy.go`, `etf_management.go` and the import | `alerts`, `actions`: tables; `thread[t]`: the step a handler is at and what it has read; `mu`: `deploymentFundingMu`; `latest`, `syncs`: statement date and `sync_history` |
| `SourceResearch` | `source_research.go`, the panel | `status`, `runOf`, `overdue`: the table; `stage`, `todo`, `current`, `reply`, `outcome`: the worker; `recovery`: recovery handlers; `pending`, `call`, `strays`, `creator`: browser and create handler; `inTransit`, `owner`, `life`: the provider (external) |
| `PaidResearch` | the promise of a paid request | abstract; `ImplementsPromise` maps the table and the provider to it |
| `PortfolioPlans` | `portfolio_rebalance_handlers.go`, `portfolio_mix_handlers.go`, the stores and the approval policy of `internal/portfoliorebalance` and `internal/portfoliomix` | `plan`, `shapes`: the two tables; `req`: a plan's approval request and the snapshot its transaction reads; `now`: the clock |
| `ShapePolicy` | the promise of `DOCS/system/PORTFOLIO_CYCLES.md` | abstract; `KeepsPolicy` maps the shapes' dates to it |
| `CouncilJobs` | `lib/council-submission.ts`, the proxy in `app/api/council`, `use-council-runner.ts`, `use-portfolio-memo.ts` | `pending`, `memo`: browser storage; `task`, `mount`, `polls`: one loaded page; `post`, `answer`, `job`, `paid`: the proxy and the external service; `told`: what this browser learned of a submission |
| `PaidSubmission` | the promise of a paid analysis, read from what page and proxy do | abstract; `KeepsPromise` maps browser and service to it |
| `DataRefresh` | `data_refresh.go` and the manual routes that take a lease | `lease`, `last`: the rows a statement can still read; `worker`: scheduler and requests; `cycle`, `task`, `ticker`, `pending`: contexts and ticker |

`MC…` modules hold the packets, signals and securities of the instances;
`…Proofs` modules hold the theorems. Each action is one SQL statement,
transaction or exchange with the provider, so that every interleaving of
handlers and every crash between two writes is a behaviour. Definitions marked
`mutant` are plausible mistakes in the definition after them; each property is
broken by one of them under the configuration of its run.

What is abstracted, module by module:

* `WebhookInbox`: hashes are injective; a processor has its effects in one step
  or none, with any answer; senders date closed bars (`time <= now`); waiting
  for the mutex and running a processor take at most `MaxLag`.
* `SecurityActions`: whether units match, a ticket is funded or a proposal
  still stands is any outcome; `Fail` is a failed statement or a refusal for a
  data-dependent reason, after which a handler keeps what it committed. An
  action is known by its alert; `ticker` is the scope it is queued under. A
  projection under `deploymentFundingMu` is the policy's transaction and, while
  weight management is on (`Managed`; on or off is a choice at each projection),
  a second prioritisation under the mutex (`synced`), then `Projected`. The
  policy's worker, every five minutes, and the mode switch run the same
  projection in a thread of their own (`PolicyWorker`, `Switched`).
* `SourceResearch`: a job is its request id. The provider's metadata is
  truthful and its run ids are fresh; whether a finished packet is accepted or
  put up for review is a choice. A call given up may still arrive.
* `PortfolioPlans`: the rows and weights of a plan and whether a statement
  matches it are a choice. A transaction reads one snapshot, and its first write
  fails if another connection committed since (SQLite in WAL mode). A transaction
  is one step: `ApprovedHasShape`, `NewestInForce` and `RefusedKeepsPlan` say what
  one operation comes to, and an error between two of its writes cannot occur
  here, because the roll-back is part of the step. A request
  takes the time of its check together with the snapshot.
* `CouncilJobs`: one tab, one storage; a second tab or device can submit the same
  analysis again, which `DOCS/system/ANALYSIS_AND_COUNCIL.md:208` lists under
  its limits. `runCouncilForStock` does not look for a run in flight: that a stock
  has one run at a time is the dialog's doing, which disables Run, Confirm, Load
  latest and the saved runs alike while `councilRunning` is set, so that no load
  can clear the flag of a run (`Ready`). A submission's id also names its job. The lock after a 401, the
  loading of earlier runs and what a memo contains are left out.
* `DataRefresh`: FAILED stands for FAILED, PARTIAL and SKIPPED, which the
  scheduler treats alike; a row carries its age, capped where no guard can tell
  two ages apart; statements take no time.

## 3. Runs

| Run | Question | Instance and why it is enough |
|---|---|---|
| `inbox_order` | Are dated signals repeated only by the owner, never started after a newer one that was processed, never stale? | Two bars of one source, three receipts (so one is delivered again, also after clean-up), one crash or error, one retry, clock to 4 with Day = 1 < Week = 2: expiry, clean-up and redelivery all happen |
| `inbox_recovery` | Do the tables implement the lifecycle, and is every signal decided? | A keyed, an undated and a pre-inbox signal; two faults, so recovery itself can be interrupted (its safety properties are those of `inbox_order`, and proved) |
| `queue_answers` | Do polls, records, ignores and overrides keep Exits and purchases right? | Two handlers at a time on an Exit and a purchase of one security, one failure or crash; thread symmetry. Weight management is off: the second prioritisation writes what another poll writes, is part of the other instances, and the theorems cover both |
| `queue_settling` | Does a verdict rest on a later statement, and does a weight reduction wait for other trades? | Two imports (a first, then a correction of its day or a later one) while the policy proposes and withdraws, two requests report by action, a fund changes its mode; reports by alert are covered by the theorems |
| `queue_live` | Is every alert queued, is nothing wedged, no Exit dropped? | A page that polls for ever, another client with decisions, skips, dismissals and the policy's worker, two Exits of one security, one fault anywhere |
| `queue_stale_answer` | finding, below | one purchase, two handlers |
| `queue_exit_expires` | finding, below | one Exit, a decision and a poll |
| `research_recovery` | Once at most, settled for good, never hanging? | One request, two runs the provider could make of it, two recoveries at a time, two faults |
| `research_runs` | Does a job keep its own run, and is no security paid for twice at once? | Any two of three requests, so two about one security or one about each of two; an operator who may enter either run; lost, late and repeated calls, one fault. The limit equals the two requests, so it is reached but refuses nobody; theorem `Bounded` is for every limit |
| `council_submissions` | Do page and proxy keep the promise of `PaidSubmission`: paid once, told the truth, no blind repeat? Does every click and every memo end? | One stock and the memo, two submissions, one reload or sign-out; two consecutive poll errors instead of five and four |
| `plan_approvals` | Do concurrent approvals keep the four months' rule and one shape in force? | Two requests at a time, two plans, three shapes of which one is older than the rule; months 0 and 8 have two days and the others one, so a period can begin on a day that its last month lacks |
| `refresh_leases` | Exclusive leases, returned, fair? | A weekly dataset deaf to its context before a daily one with a manual route, any number of days, one fault |

Bounds: counters that only count (`MaxReceipts`, `MaxAlerts`, `MaxImports`,
`MaxFaults`, `MaxRetries`, `MaxTime`) are constants in the guards. The clock of
`DataRefresh` is not bounded: ages saturate instead, so the run covers any
number of days. Its durations keep the order of the code's (task 12 min, lease
20 min, poll 30 min, cycle 45 min, retry 2 h, day, week), scaled to 2 < 3 < 4 <
5 < 6 = 6 < 7.

Fairness, and why the code gives it:

* inbox: the worker's loop has no exit but the process's end and restarts with
  it; a handler that has the mutex runs on. Senders, the owner and the clock
  owe nothing. Faults are finitely many.
* queue: a handler runs on; Go's mutex hands over to a waiter that has starved
  (strong fairness of `Lock` and `Project`); `lib/polling.ts` polls while the
  page is visible (`Readers`). No answer, statement or alert is owed.
* research: the one worker goes on (it ticks every 15 s and its calls time out),
  the provider ends its runs, two minutes pass. The operator's recovery is not
  assumed, so `uncertain` is where a job may rest.
* council: the page and the proxy give up on a request (45 s, 35 s, 10 s), poll
  loops go on while the page is open, the service's jobs end. Whether an answer
  ever arrives is left open, and reloads are finitely many.
* plans: none is assumed and nothing is claimed to happen.
* refresh: strong fairness of `Tick`, because requests that take no time must
  not stop time in the model; the scheduler goes on; a manual refresh ends.
  `KeepsRefreshing` is claimed once refreshes stop running into their limits:
  while they keep doing so, the first datasets of the cycle really do starve
  the last (four times 12 minutes exceed 45).

## 4. What was found

Two statements of the documents do not hold; the runs show the shortest traces.

* **An Exit expires** (`queue_exit_expires`). `createDecision` deactivates the
  alert before it updates the action (`alerts.go:446`). A poll in between
  expires actions whose alert is inactive, the open Exit too, and the decision
  then finds a terminal action and leaves it EXPIRED.
  `SIGNAL_AND_ACTION_CONTRACT.md:118` says an open Exit cannot disappear by
  expiry. The decision itself is stored: that is what `ExitNeverSilent` keeps.
* **An answer overwrites a report** (`queue_stale_answer`). Ignore and override
  load the action and later update it by id (`security_actions.go:1607`). An
  execution recorded in between is overwritten by IGNORED. Record itself is
  safe, its update names the status it loaded. Theorem `ReportsStand` says that
  this is the whole of it: a report gives way to a verdict, or to an ignore, an
  override or a skip that loaded the action before the report, and to no poll,
  policy, expiry or change of mode.

Behaviours that the code allows, that no document excludes, and that the
properties therefore leave room for:

* **Outranked purchase recorded.** A poll reopens all blocked actions and then
  blocks all but the first of each scope, one statement each. A record request
  has done the same and blocked the purchase behind an unresolved Exit; another
  poll reopens it, and the record request then loads it as OPEN and records it.
* **Verdict without a later statement.** Two decisions by alert load an open
  action. The first reports it on statement S1; statement S2 is imported and
  lists it; the second report replaces the baseline by S2; reconciliation then
  settles it by S2. `VerdictIsLater` therefore leaves out a trade that was
  reported a second time. In the same way such a report, which looks at nothing
  but the id, can put a sale before a statement while a weight reduction of the
  security is under way: `WeightWaits` speaks of rivals that were themselves
  recorded by a conditional update, `NeverReportedTwice` of the actions that
  only such updates report (purchases and weight proposals always).
* **A research job nobody watches.** The panel's first create call waits for
  `researchSubmitMu`; the page reloads and repeats the request, which is
  refused for another job of the security; on a 4xx the panel forgets the id.
  If that other job settles before the first call goes on, the first call
  creates a paid job that only the list of saved runs shows.
* **Two refreshes within the lease.** A scheduled run is stamped with the start
  of its cycle. Begun 12 minutes into the cycle and 9 minutes at work, it looks
  21 minutes old to a manual call, which fails it and starts beside it. So
  `OneAtWork` speaks of the recorded age. A manual refresh that begins and ends
  between the scheduler's look at the latest run and its insert doubles a day's
  refresh, one after the other.
* **An old letter replayed.** A dead letter older than the inbox has no receipt
  and is replayed without the newer-event check, so an old signal can take effect
  after a newer one. `RepeatedOnlyByRetry` and `OvertakenOnlyInDoubt` speak of
  receipts only.
* **An older signal after a newer one in doubt.** A processor may have had its
  effects although the receipt ends FAILED: an answer of 400 or more, a panic, a
  crash, a completion that is not written. The owner's retry then has them again,
  as the message of `recoverWebhookReceipts` warns; and the newer-event check
  looks at PROCESSED receipts only (`webhook_inbox.go:233`), so an older signal
  can still start after the newer one. Both histories of the model count every run of a
  processor (`Invoke`), whatever came of it, and the two properties say exactly
  what remains: a repetition is an owner's retry of that receipt, and a newer
  signal is overtaken only while its receipt is there as PROCESSING, FAILED or
  DISMISSED.
* **Council, the memo.** The look-up begun when the panel was mounted may end
  after a click has stored a newer submission: it removes the newer id and shows
  the older job. A finished memo is stored before its result is fetched, and a
  reload in between drops it. The poll loop never gives up on a result that
  cannot be fetched. `NoBlindRepeat` therefore speaks of stocks.
* **Council, a stock's run.** Once accepted, a run is forgotten by a reload, and
  a click pays for another. After too many poll errors the runner takes the
  stock's latest run, which may be an older one.
* **Plans.** A plan is found COMPLETED before the transaction and approved in it
  by id, so it may have been superseded or reopened in between; `MarkPartial` and
  `Complete` write whatever the status. Marking partial stores no rows, although
  the state table of `DOCS/system/ACTIONS_WORKFLOWS.md` says it does. The
  rebalance panel replaces typed input by the saved draft at the next poll, and
  of two overlapping loads the older may be shown.

## 5. What is proved

All theorems are about the modules above, for every value of the constants that
satisfies the named assumptions (finite bounds are natural numbers, `Nobody` is
no thread, `Lease < Day`, and so on). No theorem assumes fairness.

| Module | Theorem | Of |
|---|---|---|
| `WebhookInboxProofs` | `TypeCorrect`, `AtMostOneAutomaticRun`, `TablesAgree`, `KeepsLifecycle` | `TypeOK`, `AutomaticOnce`, `LetterMatchesReceipt`, `ImplementsLifecycle` |
| `WebhookOrderProofs` | `NeverStartedLate`, `RetriedByOwnerAlone`, `InSourceOrder` | `NoStaleStart`, `RepeatedOnlyByRetry`, `OvertakenOnlyInDoubt` |
| `SecurityActionsProofs` | `TypeCorrect`, `ExitProtected`, `AnsweredStaysAnswered` | `TypeOK`, `ExitNeverSilent`, `NeverRequeued` |
| `SecurityAnswersProofs` | `ReportedOnce`, `SettledLater`, `ReductionWaits` | `NeverReportedTwice`, `VerdictIsLater`, `WeightWaits` |
| `SourceResearchProofs` | `TypeCorrect`, `OnePaidRun`, `OwnRun`, `KeepsPromise`, `Bounded` | `TypeOK`, `AtMostOnePaidRun`, `OwnRunOnly`, `ImplementsPromise`, `SpendingBounded` |
| `DataRefreshProofs` | `TypeCorrect`, `LeasesExclusive` | `TypeOK`, `OneAtWork` |
| `PortfolioPlansProofs` | `TypeCorrect`, `FourMonthsApart`, `RefusedRightly`, `OneInForce`, `ApprovedTogether`, `RefusalKeepsPlans`, `Implements` | `TypeOK`, `ShapesApart`, `LockedRightly`, `NewestInForce`, `ApprovedHasShape`, `RefusedKeepsPlan`, `KeepsPolicy` |
| `CouncilJobsProofs` | `TypeCorrect`, `PaidOnce`, `WaitsForAnswer`, `Implements` | `TypeOK`, `OneJobPerSubmission`, `NoBlindRepeat`, `KeepsPromise` |

Those state the properties of the runs. Nine more state what no run is spent on,
each for every value of the constants:

| Module | Theorem | What it says |
|---|---|---|
| `WebhookInboxProofs` | `SignalsSurvive` | what the signals' lifecycle comes to (`Sound`, `NothingLost`): an acknowledged signal is never lost, taken up again or tried while in question |
| `SecurityAnswersProofs` | `ReportsStand` | what alone overwrites a report (`ReportGivesWay`) |
| `SecurityAnswersProofs` | `OneOutstandingProposal` | of a subject of the weight policy at most one proposal is queued or awaits its statement (`OneProposal`) |
| `SourceResearchProofs` | `SettledForGood` | a request is settled once, and by what its run came to (`Charged`, `Settled`) |
| `DataRefreshProofs` | `OutcomesStand` | a late outcome undoes no newer one (`OutcomeStands`) |
| `PortfolioPlansProofs` | `Rule` | the clamped due date is the four months' rule, for any calendar |
| `PortfolioPlansProofs` | `ThreeChangesAYear` | no four consecutive shapes within twelve months, none withdrawn (`ThreeAYear`, `Kept`) |
| `CouncilJobsProofs` | `RefusalHolds` | no submission shown as refused is taken (`NoFalseRefusal`) |
| `CouncilJobsProofs` | `Truthful` | what the owner was told is true and final (`Honest`, `Final`) |

Two theorems have a hypothesis besides those assumptions. `RetriedByOwnerAlone`
and `InSourceOrder` suppose `KeptLongEnough`: receipts are kept at least as long as a
dated signal can still be begun (`Day + MaxLag <= Week`; in the code a day, a
wait of minutes, and a week).

The arguments:

* **Inbox** (`IInv`). `AutomaticOnce` is not inductive: it must be known that a
  receipt is PENDING only before its first attempt, that whoever is about to
  invoke it has consumed a retry or is the first, and that the mutex holder's
  receipt has the status it left it with. `IInv` says so row by row
  (`RowInv`) and for the holder (`HolderInv`); both safety theorems follow.
  `KeepsLifecycle` shows each step to be a step or a stutter of
  `SignalLifecycle`, from the same invariant and the stage a row stands for.
  `SignalsSurvive` then follows from the lifecycle alone: it is proved of
  `SignalLifecycle` and carried over by the refinement, as are `SettledForGood`,
  `ThreeChangesAYear` and `Truthful` of their abstract specifications.
* **Inbox, order** (`TimeInv`, `OrderInv`). The worker's reading of the clock is
  at most `MaxLag` old (`ClockInv`), and an execution that got past its guards
  was not expired by that reading (`FreshInv`): hence `NeverStartedLate`. A
  signal that was ever handed to its processor still has the receipt it was tried
  under, or every clock reading used from now on is past the signal's day
  (`Remembered`, from `DatesInv`: what clean-up deletes was completed or dismissed
  after the date of its bar). A tried receipt was counted and is not PENDING
  (`CountedInv`), so at the guards a newer one is in doubt or supersedes
  (`GuardsPassed`), and nobody touches a receipt while a processor runs
  (`ProcessorHistory`): `AheadInv`. That the repetition was asked for follows
  from `IInv`: who is about to invoke has consumed a retry for each run before.
* **Queue** (`ExitInv`). That an Exit ends only after a stored decision depends
  on where every handler stands: one past `check` saw an unresolved Exit or
  none, one past `insert` has stored its decision, one at `commit` of an ignore
  saw an action that is no Exit. `ExitTables` states it of the rows,
  `ExitHandlers` of the handlers, `Placed` that a handler stands only at steps
  of its own request. `NeverRequeued` follows from the type invariant and
  `Placed`: the only writes of OPEN and BLOCKED are conditional on the
  status they replace.
* **Queue, answers** (`ReportInv`, `SettleInv`, `WaitInv`). Two lemmas say what
  any step does to one row (`RowHistory`) and to one handler (`HandlerHistory`).
  A handler about to report found the row queued, or reports by alert an action
  that may be so reported (`Found`); nothing answered is queued again, so what
  only conditional updates report is reported once (`Fresh`). Reports by alert
  are counted before they are written: a reported row was counted and is not
  queued, a settled one was reported (`Answered`, `Unreported`), and where one
  report was counted no second write of it is still to come (`Single`). What an import is about to judge was answered on an
  older statement (`Judging`), its baseline does not move later, and so the
  verdicts already given rest on a later one (`Later`). Reports by action hold
  `deploymentFundingMu` to their end (`Holds`; a projection's own unlock is not
  theirs, `Leaves`), so what a reduction found by
  `weightConflict` is still so when it commits (`Clear`). `Looked`: whoever is
  about to ignore, override or skip loaded a row without a report, from which
  `ReportsStand` follows case by case. `OneOutstandingProposal` needs that a
  proposal's action is stored with its alert (`ProposalsQueued`) and that what is no
  longer outstanding never is again (`StaysSettled`). It does not extend to a
  proposal in VARIANCE: a correction of the statement can turn a confirmed
  reduction into one after the next proposal was made.
* **Research** (`IInv`). `ProviderOK`, `RowOK`, `ListOK`, `WorkerOK` with
  `SaveOK`, and `HandlersOK` relate what the worker remembers to the row and
  the row to the provider: a queued request is unknown to the provider, a
  listed running job keeps its run, an outcome about to be written by id alone
  still fits the row. From it follow the single run, the own run, and step by
  step the refinement of `PaidResearch` (`KeepsPromise`). `Bounded` adds
  `ActiveOK`: active jobs are finitely many, at most `MaxActive`, one per
  security, and contain the owner of every run that goes on.
* **Refresh** (`LeaseInv`). Whoever is named by a RUNNING row is at work on it
  and of the same age; whoever is at work and not named is recorded as older
  than `Lease`, because only the overdue are displaced and age only grows.
  For `OutcomesStand`, `LostInv` adds what a row that lost its lease may do: a
  settled row that still names a worker is FAILED and as old as that worker's
  run, and the worker holds no other lease; so the outcome it writes by id
  replaces only its own failure.
* **Plans** (`IInv`). `HasPlan`: a request past its first step names a plan.
  `Ordered`: dates of shapes never decrease and none is in the future.
  `Checked`: a transaction whose snapshot is still current found every shape four
  months old at its own time. Lemma `Rule` relates the code's clamped date to the
  policy in words: the day is not before `NextApprovalAt` exactly when four
  calendar months have passed. `Implements` maps the dates of the shapes to
  `ShapePolicy`; the rest follows conjunct by conjunct.
* **Council** (`IInv`). `Route` follows a submission from the browser to the
  service: a submission whose request is still under way is not paid, one that was
  refused is not under way any more and was not paid, and none is paid twice.
  `JobKnown` relates a job to its payment, `HasId` a click to its submission, and
  `Kept` says that a stock's submission without a known outcome is still the one
  in storage: a click must look it up first. The refinement of `PaidSubmission`
  needs `Truth` (a job is a paid one, and so is any the owner was told of) and
  `Held`: whatever the page may still ask about was not forgotten by a sign-out,
  so what it learns is still its owner's. `ToldHistory`, `PaidHistory` and
  `KeyHistory` list the only steps that tell, charge or submit.

Only model-checked are the eight liveness properties (`EverySignalDecided`,
`EveryAlertQueued`, `ReleasedInTheEnd`, `EveryJobDecided`, `LeaseReturned`,
`KeepsRefreshing`, `ClickEnds`, `MemoSettles`): fairness, ENABLED and induction
over data are out of the prover's reach. Every safety property of a passing run
has its theorem.

## 6. What is not modelled

Most of the repository's TypeScript renders: tables, panels and charts, help and
demo data, typed wrappers of the ledger's routes. It keeps no state that outlives
a component, and what it computes it computes from one answer. Arithmetic on one
read (weights, momentum, themes, sizing, unit matching,
performance) is a choice of outcome where it touches a modelled component;
fetching, rendering, formatting, start-up, migrations, development tools and
access control are left out. The components in section 1 without a module are
listed in `PROJECT.json` with the reason. Observations made while reading them,
which the next modules are for:

* Overlay: the summary mutex is held by two of the callers of
  `syncOverlaySignalStateAndEvent` only; looking up, superseding and creating
  an event are separate statements and no index forbids two pending ones.
  `reconcileOverlayStage1CashConfirmation` reports a confirmation whether or
  not it was written. The Q4 crisis is four writes.
* Signals: a re-entry is admitted by one statement and applied by a later one;
  ETF allocations are deleted and inserted row by row; the regime, its
  proposals and its alert are separate writes; connection registration runs in
  a goroutine of its own after the receipt completed.
* News: a job's failure is written with the context that may have expired, and
  nothing ends a RUNNING job after a restart.
* Front end: `lib/shared-api-reads.ts` keeps no order between a read that began
  before a write and one after it; `lib/polling.ts` forgets a refresh under way
  when its last listener leaves.

## 7. Plan

What would come next, in this order:

1. `PortfolioOverlay`: signal state, events and stages under webhooks, sync and
   operator; abstract specification: one open transition at a time, from the
   last applied exposure to the current one. The code does not keep it for
   callers outside the summary mutex, so the work starts with what it does keep:
   a stage is applied to the event it was computed for.
2. `DeploymentFunding`: class cash, pending movements, commitments, imports and
   corrections (`statement_revisions`). To prove: commitments never exceed the
   statement's cash plus what has been confirmed.
3. `PositionStates`: BUY, SELL, stopped and waiting for re-entry, composed with
   `WebhookInbox` as the processor's effect.
4. `ExchangeAssignment`, `BackupClaim`, then the news jobs.

## 8. Running

    tlc -workers 2 -config WebhookInbox_order.cfg MCWebhookInbox
    tlapm WebhookInboxProofs.tla

Each configuration names its module by its prefix (`SecurityActions_*.cfg` runs
`MCSecurityActions`, and so on). Every run ends within five minutes on two
workers. `SecurityActions_stale_answer.cfg` and
`SecurityActions_exit_expires.cfg` are expected to end in a counterexample.

# Project Gekko in TLA+

Gekko is a personal trading agent. A scheduled run asks language models for a
trade, writes it down as a *proposal*, and a person approves it on Slack or on a
dashboard (or a strategy that has earned it executes by itself); an executor
takes it to a broker; every decision lands in a hash-chained audit log. This
directory models the parts of `src/src/gekko` whose correctness depends on the
order of events, checks them with TLC and proves what matters most with TLAPS.

## 1. The system

| component | state | operations | talks to |
|---|---|---|---|
| proposal state machine (`approval/proposals.py`) | `proposals` rows: status, mode, payload, expiry | `transition_status`, `approve_proposal`, `reject_proposal` | called by every handler, inside the handler's transaction |
| click dedup (`approval/dedup.py`) | `slack_action_dedup` | `claim_action` | first statement of every button handler |
| Slack buttons (`approval/slack_handler.py`) | none | approve (with first-live divert), reject | state machine, executor |
| dashboard (`dashboard/routes.py`) | none | approve, reject, resize-and-approve, live confirm, promote, demote, kill | state machine, executor, trust ladder, kill switch |
| expiry sweep (`approval/expiry.py`) | none | expire overdue rows, one transaction each | started every 60 s by `scheduler/jobs.py` |
| agent run (`agent/runtime.py`, `agent/proposal_writer.py`) | `proposals`, `strategy_metadata` | write a proposal, auto branch, cost ledger | state machine, executor, anomaly reflex |
| anomaly reflex (`anomaly/evaluator.py`) | reads events and strategy | cancel orders, reject pending proposals, demote | state machine, broker, trust ladder |
| executor (`execution/executor.py`) | a coroutine per approval | status gate, market hours, OrderGuard, place, record | broker, state machine |
| fill stream (`brokers/stream.py`, `on_fill_event`) | a websocket in a thread of its own | record a fill, stamp the first live trade | state machine, audit log |
| broker adapter (`brokers/`) | orders, at the broker | place, cancel, list | |
| OrderGuard (`execution/orderguard.py`, `execution/checks/`) | reads everything | about ten checks before an order | kill switch, broker |
| kill switch (`execution/kill_switch.py`) | `users.kill_active` | set the flag, cancel open orders | OrderGuard, broker |
| trust ladder (`strategy/`) | `strategy_metadata.trust_level` | streak, promote, demote | audit log, anomaly reflex |
| cost ceiling (`agent/cost_ceiling.py`) | `llm_cost` events | check before a run, record after a call | audit log |
| quiet hours (`approval/quiet_hours.py`) | none | is a time inside the window | notifications |
| audit log (`audit/`) | `events`, a hash chain | `append_event`, `walk_chain` | everybody |
| database (`db/`) | one SQLCipher file per user, WAL mode | one write lock, five seconds of busy waiting | everybody |

What is hard here:

* **Everybody changes the same row.** Eight parties move a proposal, in tasks of
  one event loop, in the loop of the fill stream's thread and in separate `gekko`
  commands. `transition_status` reads, decides and issues an UPDATE without a
  status guard; what protects the row is only *which statement comes first* in
  the caller's transaction (section 3).
* **The executor reads early and acts late**: it loads status and quantity once
  and submits after a dozen network calls.
* **The broker answers when it likes**: a fill can overtake the transaction that
  records the submission; a call can fail, or be answered with an error, after the
  order has arrived.
* **Two locks around the log**: a per-process `asyncio.Lock` in `append_event` and
  SQLite's write lock, taken in either order.
* **Ten checks, ten awaits**: OrderGuard reads the kill flag, positions, account
  and event log one after the other; kills, fills and other orders happen between.
  A check that fails to get a quote or a sector goes on without it.
* **Crashes**: nothing at startup looks at rows left APPROVED or EXECUTING.
* **Autonomy is read once**: a run reads the rung of the trust ladder and approves
  its own proposal transactions later; the reflex cancels, rejects, demotes and
  records in four; an edit compares, saves and demotes in three.
* **The ledger lags the spending**: a query's cost is entered when it is over, so
  runs that start together pass the ceiling together; and every run of the server
  shares one module global that says whose budget a tool charges.
* **Two sources for one number**: a book's worth is positions read at the broker
  plus fills read from the log, and the log hears of fills late, repeatedly
  (an update repeats what the order had filled before) or never.

What makes each component correct: an order needs a consent, in the approved size,
once; a decision counts once and the first counts; the trail explains the row; an
overdue row is closed and an approved one is taken further; the chain verifies, and
a transaction is in the log with all its events or with none. A kill holds back
whoever has not passed its check, and its tally vouches for the rest; an order that
meets no other keeps every cap its checks had the figures for, and several together
overrun the daily count by less than their number. A strategy is automatic only on a
check that found the streak; after a demotion only runs that had read the rung
before trade by themselves; a material edit and a lasting drawdown end it. The
ledger overruns the ceiling by no more than what is under way; a run charges its own
budget; an alert whose date is written was sent, or something failed. A fill is in
the log once, with what it cost; a drawdown between two calm readings is a real one;
the digest says what happened to it.

`PROJECT.json` lists the hazards at their lines, with the properties that would
catch each.

## 2. Modules

| module | models | source |
|---|---|---|
| `ProposalStates` | the lifecycle table and the decision `transition_status` takes over it; no state | `approval/proposals.py` |
| `ProposalContract` | abstract: what the pipeline promises about a row and its order | |
| `ProposalLifecycle` | rows, dedup claims, trail, broker, and every party that moves a row | `approval/`, `dashboard/`, `execution/executor.py`, `brokers/`, parts of `agent/`, `anomaly/` |
| `AuditLog` | the events table, its hash chain, the two locks, transactions by shape | `audit/`, `db/` |
| `OrderChecks` | what each blocking check of OrderGuard refuses, as a predicate on what it reads; no state | `execution/checks/` |
| `OrderGate` | executors on their way through the checks, the broker's book, kill, unkill and sweep | `execution/`, the kill commands of `dashboard/`, `slack/`, `cli.py` |
| `TrustLadder` | one strategy's rung, the streak scan, promotion, demotion, edits, runs that read the rung, the drawdown reflex step by step | `strategy/`, `anomaly/evaluator.py`, `scheduler/jobs.py`, the strategy forms of `dashboard/` |
| `AgentRun` | runs from gate to answer, the cost ledger, the alert dates, the shared tool context | `agent/` |
| `QuietHours` | the quiet window on the clock; no state | `approval/quiet_hours.py` |
| `DayBook` | fills on their way into the log, the start-of-day snapshot, the drawdown, the evening digest | `brokers/stream.py`, `on_fill_event`, `anomaly/evaluator.py`, `reporter/daily_pnl.py` |
| `*_proofs` | the theorems about each component | |
| `ProposalRaces_proofs` | more about `ProposalLifecycle`: what holds when named parties are absent, and the refinement of `ProposalContract` | |
| `Sums_proofs` | what a fold over a finite set computes, for the sums of shares and money | |
| `MC*` | instances for TLC | |

The state machines meet at two points. `ProposalLifecycle` takes it that an
audit event commits with its transaction or not at all, and lets `FillDropped`
lose a fill; `AuditLog` is where one sees how a transaction can be lost to the
log's locks. What is one step `ExecRefuse` or `BrokerAccept` of an executor in
`ProposalLifecycle` is `OrderGate`'s subject. The auto branch is there a race for
the row, in `TrustLadder` a race with the rung. `TrustLadder` takes the drawdown
as a fact (`loss`), `DayBook` says how the program arrives at it, and `DayBook`
extends `QuietHours`, which the digest asks. `AgentRun` ends where a proposal begins.

A definition marked *faulty variant* is no part of a model. It stands before the
definition it is a variant of and puts one plausible mistake into it (a dropped
guard, a missing event, a swapped order), so that the runs can be seen to notice.

### State and actions against the code

`ProposalLifecycle`: `status`, `mode`, `qty`, `due` are columns of `proposals`;
`claims` is `slack_action_dedup`; `trail[p]` is the set of types of the committed
events whose payload names p, by proposal, decision or client order id (a resize
writes `edit_size`, which names none and so is in no trail: `NoOrderWithoutConsent`
reads a resize off the row, and `AuditExplainsStatus` excepts the row it left
APPROVED); `approvals[p]` is how many approvals; `stamped` is
`strategy_metadata.first_live_trade_confirmed_at`; `order`/`orderQty` is what the
broker has under p's client order id; `feed` the trade updates on their way.
`denied` observes the submissions answered with an error. An `APIError` is a
`BrokerOrderError` whether the broker has turned the order down (`ExecRefuse`), has
it and said otherwise, or cannot find the order it calls a duplicate (both
`ExecDenied`): in all three the executor goes on to write FAILED. `ExecLost` is what
ends an executor without a word: another exception, before or after the order has
arrived, or a closing transaction that is lost.
`exec[t]` is one `execute_proposal` coroutine with what it has read; `confirm`,
`sweepList`/`sweepRow`, `doomed`, `auto`, `fill` are the local variables that the
live-confirm page, the sweep, the anomaly reflex, the auto branch and
`on_fill_event` carry across an `await`. `raised` observes executors that let an
exception escape past their gate. Handlers are named after themselves
(`SlackApprove`, `DashReject`, `EditSubmit`, `SweepWrite`, `ExecRecord`, ...).

`AuditLog`: a transaction is the sequence of statements it still has to run
(`todo`), `"dml"` for a row of another table and `"append"` for `append_event`,
which is two actions, `AppendRead` and `AppendInsert`. `"dirty"` is an `append_event`
in a session that holds a changed object: it takes the `asyncio.Lock` (`DirtyLock`),
and its SELECT first flushes the object, which takes the write lock (`DirtyRead`).
Promotions, demotions, ceilings, the first-live stamp and credentials are of that
kind. `dbLock` is SQLite's write
lock, `appendLock[d]` process d's `asyncio.Lock`, `bound[d]` the event loop that
lock has bound itself to; `doing` and `ended` remember which transaction had which
shape and how it ended, for `AllOrNothing`. SHA-256 over canonical JSON is taken to
be injective: a hash *is* the event it names. The shapes of transaction the code has
are listed at the top of the module with the callers they stand for.

`OrderGate`: `pc[o]` is how far `execute_proposal` has got with order o, one place
per check that reads something which can change; the pure checks share the step
of their neighbour. Each of the checks that price an order or look up a sector
chooses its own quote and its own sectors (`Quotes`, `Lookups`): where the code
swallows the failed call it has the quote 0 and no sector, and goes on; where nothing
catches the failure (`CallsUnguarded`) the executor ends (`CallRaises`). What the
checks of a lone order went without is remembered in `unread`. A submission is
accepted, refused, lost, or answered with an error although the order is in the book
(`PlaceDenied`). `book` is the broker's order book, `submitted` and `seen` are
the `order_submitted` and `fill` events of the day, `killActive` is
`users.kill_active` and `banner` its copy `app.state.kill_active`. A command
`cmd[k]` is issued, commits its flag (`Flip`, `Lift`), lists and cancels; `listed`,
`calls` and `claimed` are what its sweep has fetched, the cancels without an
answer, and the orders its tally counts. `stragglers`, `slipped`, `lifted`,
`blind`, `crowd`, `peak` and `unread` observe; no guard reads them.

`TrustLadder`: `trust` is `strategy_metadata.trust_level` (`"none"` without a row),
`trail` the events `compute_clean_streak` scans, `config` the watchlist and caps of
the newest snapshot. `asked[q]`, `demoter[d]` and `save[e]` are a promotion, a
demotion by hand and a save of the edit form between their steps, with what each has
read, `place`, `prop` and `book` a run, its proposal and its order, `reflex[v]` and
`listed[v]` one `evaluate_drawdown` with what it has fetched, `baseline` and `loss`
the day's snapshot and whether the book stands a threshold below it. `grant`,
`slip`, `stragglers` and `unled` observe.

`AgentRun`: `ceiling` and `flagged` are columns of `users`, `ledger` the sum of
today's `llm_cost` events; `place[r]`, `mode[r]`, `news[r]` are how far
`trigger_strategy_run` has got and what the gate answered; `context` is the module
global `_CONTEXT`, `charged[r]` the calls in r's `BudgetTracker`, `tool[r]` the budget
its tool call has fetched. The last five variables observe. A query costs something
between 0 and `Cost`; what a model answers is a choice among the outcomes.

`DayBook`: `position` and `left` are the broker's, `feed` holds trade updates,
`logged[o]` sums the fill events of order o, `baseline` is the snapshot event,
`eval[v]` an evaluation with the two readings it compares, `digest` the evening job.
A reading carries, beside what was read, what the book was worth then and whether
the log was in step; no guard looks at that.

## 3. Granularity

SQLite gives one transaction at a time the write lock, from its first INSERT or
UPDATE to its commit. SELECTs before that are plain reads of the last commit
(pysqlite does not open a transaction for them) and SQLAlchemy's identity map
never refreshes an object it has loaded. Hence:

* A handler whose first statement is an INSERT - `claim_action` of the Slack and
  dashboard buttons, `append_event` of the executor's closing transactions -
  reads the row under the write lock. It is **one action**.
* A handler that SELECTs first - sweep, live-confirm page, anomaly reflex, auto
  branch - is **two actions**: a read that remembers the status, and a commit that
  overwrites whatever the row has become. `on_fill_event` appends first but has
  looked the row up before; it is two actions too, three with the stamp.
* A ValueError rolls the transaction back, the dedup claim included: no step. In
  the executor's closing transactions it takes the audit event with it and
  escapes: `raised`.

In `OrderGate` each check acts on what it has just read, and the broker is one
atomic book: a listing shows what is open at one moment, and a cancel succeeds on
an open order or not at all.

In `TrustLadder` a save, the reflex and a run take one step for each of their
sessions; a promotion and a demotion read the row in one step and write it in
another (`PromoteRead`, `HandRead`, `SaveFind`, `ReflexFind`). SQLAlchemy leaves a
column out of the UPDATE whose value is what was read, so a demotion that has read
another rung than auto writes its event and nothing else. In `AgentRun` the gate's
reads of user row and ledger are one step, the UPDATE of the alert dates is a second
and the message a third; a run that read before midnight writes yesterday's date
(`stale`). Tool calls of one turn come one after the other, and an agent run skipped
for quiet hours changes nothing. In `DayBook` positions and events are read in two
steps, the stream's updates are handled in their order, as its callback is awaited
one at a time, and the evaluator's UTC day and the digest's New York day begin
together: they agree while the market is open.

An `await` between two transactions is always a boundary between actions.
Formatting, cards, messages and logging change no state and are left out.

## 4. Runs

All bounds are CONSTANTS of the instances.

| run | instance | shows |
|---|---|---|
| `life_races` | one proposal, two executors, one tab, every actor, network failures, one crash; 2.9 M states | `TypeOK`; an order needs consent (`NoOrderWithoutConsent`) and has the row's size (`OrderHasApprovedSize`); the trail explains the status (`AuditExplainsStatus`); EXECUTING is backed by an order |
| `life_contract` | two proposals; Slack and one live-confirm tab, network failures, one crash; the stream delivers both modes | the pipeline implements `ProposalContract`; rows move along the table; a rejected proposal never trades; the first live trade takes two approvals; what escapes an executor leaves the row where its approval put it (`EscapesLeaveTheRow`); one executor each (`OneExecutor`); a FAILED row has an order only where the broker's answer was an error (`FailedOrderWasDenied`) |
| `life_fair` | one proposal, every actor, no crash or network failure, fair | an APPROVED row has an executor (`ApprovedIsOwned`) and is resolved; an overdue row is closed |
| `audit_chained` | three sessions in three loops and two processes; transactions that hold the write lock when they read the last hash, by a row written first or by the flush in `append_event` | the chain is intact (`ChainIntact`) |
| `audit_all_shapes` | the same, all shapes, slow disk, fair | no link names a rolled back event (`LinksBackwards`); a transaction leaves all its events or none (`AllOrNothing`); every transaction ends |
| `gate_day` | two buys in one sector that fit under the caps one at a time, one trade a day; a Slack kill, a dashboard unkill; every failure, unread quotes and sectors among them, one crash, fair; 1.2 M states | an order placed under a kill had passed the check when it committed (`KillStopsOrders`); a clean tally leaves only such orders open (`SweepLeavesStragglers`); the overrun of the daily count (`DayTradesBounded`); a lone order keeps the caps its checks had quotes and sectors for (`LoneOrderKeepsCaps`); a committed kill reports (`KillEnds`) |
| `trust_ladder` | one run, one promotion, one demotion by hand, two edits that may race, two configurations, threshold 2, a scan of 3 rows, a log of 3 and what is under way; one crash; 12.9 M states | auto rests on a check that found the streak (`AutoWasEarned`); after a material edit the rung is not auto (`MaterialEditDemotes`) |
| `trust_reflex` | one run, the tick with positions, orders and cancels that fail, threshold 1, a log of 3 and what is under way; one crash; fair; 0.9 M states | after a demotion only stragglers execute by themselves (`DemotionHoldsBack`); a lasting drawdown is answered (`DrawdownIsAnswered`) |
| `agent_budget` | two runs at a time from Slack and the command line, one tool call each, a ceiling changed and unusable, failing queries and entries, a crash; 4.3 M states | the ledger's overrun (`OverrunIsBounded`), own budgets (`ChargesItself`), alerts (`AlertIsNotForgotten`), and that nothing sends a run back (`RunAdvances`) |
| `book_day` | a buy of two shares and a sale of one, in parts or whole, a falling price, one evaluation, one midnight, a clock of two hours, every mishap; 4.0 M states | whole fills are in the log once (`FillsCountOnce`); calm readings are right (`CalmReadingsAreRight`); the digest is honest (`DigestIsHonest`) |

Two executor slots are enough for every pair of dispatches the claims of one
proposal allow to overlap; one proposal is enough where nothing relates two
(`stamped` is what does: the contract run has two). One crash shows every state
a second could start from, for the process keeps nothing else. Three sessions
are a reader, a competitor, and one in another process. Two orders are one under
the sweep and one on its way, or two that count together; the submission lost
after it reached the broker is what lets the second order come to the exposure
caps with the daily count unspent. A second, overlapping kill multiplies the
states by thirty and is left to the proofs.

One run slot is enough on the ladder: runs meet only in the rung, and what two could
do one does twice. The bound on the log is on what is begun: whatever has begun at
three events still adds its own, so that a log holds two approvals, a stop and more,
and the scan limit of three makes the scan end before the log does. Two forms are
one save and the one that takes its version number; which form is which does not
matter, so the run takes them as symmetric. Two agent runs are one that passes the
gate and one that enters its cost meanwhile, or one that takes over the other's tool
context; two slots start again and again, the ledger is bounded by the property
itself. A fill in two parts repeats the first part once, which is the case; on a
clock of two hours there are windows that wrap, that do not, and that are empty, and
`WindowIsArc` covers every other clock.

`life_contract` is restricted on purpose. With the dashboard, the sweep, the
reflex or the auto branch present its properties are false of the code, as the
next section shows; with Slack and the confirmation page alone they hold.
Two survive the sweep and the reflex, `OneExecutor` and `FailedOrderWasDenied`:
`Life_overwritten.cfg` checks these with both parties let back in and three executor
slots (13 616 states).
Which party each property can bear is proved in section 6.
Likewise `life_fair` leaves crashes out: nobody picks an APPROVED row up again.

### Disagreements with the code's own words

Two runs check one sentence of a docstring or comment and end in a counterexample.

| run | sentence | what happens |
|---|---|---|
| `agent_v_spend` | `agent/runtime.py:628`: every run deducts from the daily pool, the halt is absolute | a decision's stream is left at the tool call, before the message with its cost: a successful decision enters 0, and spending goes on past the ceiling |
| `book_v_loss` | `anomaly/evaluator.py:337`: the reflex only fires on losses | the updates of an order filled in parts are cumulative and each becomes an event; the sum counts the first part twice, a buy at a constant price looks like a drawdown |

The following are not among the listed runs; each has a small configuration that
names the sentence's property, on which TLC stops with the counterexample (run it
with the MC module of its component).

| sentence | what happens | configuration |
|---|---|---|
| `approval/expiry.py:20`: first write wins | the sweep reads PENDING, Slack approves and commits, the sweep's UPDATE makes the row EXPIRED; the executor is at work | `Life_v_sweep.cfg`, `MovesAlongTable` |
| `execution/executor.py:509`: never raises past the gate | APPROVED_LIVE has no edge to FAILED: the refusal of a live order raises, its event is rolled back, the row stays | `Life_v_live_stuck.cfg`, `ExecutorNeverRaises` |
| `dashboard/routes.py:361`: a first live trade is diverted | the dashboard approve never diverts | `Life_v_first_live.cfg`, `FirstLiveTakesTwo` |
| `execution/executor.py:889`: EXECUTING becomes FILLED | a fill handled before the executor's closing transaction leaves the row EXECUTING for ever, under full fairness | `Life_v_fill_race.cfg`, `FilledIsRecorded` |
| `execution/executor.py:821`: "Order placement failed" | the broker has the order and answers with a 5xx, or calls it a duplicate and cannot find it: the row says FAILED, the order is open | `Life_v_failed_order.cfg`, `FailedHasNoOrder` |
| `test_audit_chain.py:278`: the lock prevents two equal prev_hashes | two append-first transactions read the same committed tail | `Audit_v_fork.cfg`, `ChainIntact` |
| `_hard_caps.py:18`: without a sector the other three caps suffice to bound exposure | without a quote a market order counts for nothing in each check that asks for one, without a sector the sector caps are skipped: a lone order is placed over the caps | `Gate_v_unread.cfg`, `LoneOrderKeepsEveryCap` |
| `README.md:330-340`: with a live order open, all open orders are cancelled | the sweep's broker is the paper account's: the tally is clean and the live order stays open | `Gate_v_live_orders.cfg`, `KillCancelsAllOpen` |
| `_promote_auto_blocked_modal.html.j2:30`: after a breach the count restarts from the next clean approval | the scan stops at the cap rejection with a reason that makes the strategy ineligible, however many approvals follow it | `Trust_v_streak.cfg`, `StreakRebuilds` |
| `dashboard/routes.py:2529`: a demotion is always safe and flips the badge immediately | a demotion that read the row before a promotion was written finds no rung to lower: its event is the newest, and the rung is auto | `Trust_v_stale.cfg`, `DemotionIsSafe` |

Further hazards of the same kind: an approve on the dashboard and one in Slack both
claim, for the claim includes the source, and two executors run (the broker's client
order id keeps it at one order; but when one submits and the other is refused, the
row says FAILED while the order is open, against `FailedOrderWasDenied`); a
transaction that has written a row holds the write lock and waits for the
`asyncio.Lock` of one that appends first or flushes inside `append_event`, which waits
for the write lock, until the busy timeout fells the second of them
(`Audit_v_crossing.cfg` has two threads of one process lose one, against
`NoAppendIsLost`); two posts of the live-confirm form both pass its status
check; the dashboard's kill banner does not follow a kill from Slack or the command
line, and `/kill/state` calls the sweep complete while it runs; the stream
subscribes to the paper account only, so fills of live orders never come
(`StreamModes`, `Streamed`); the fill stream's thread brings a second event loop to
the `asyncio.Lock` (`WrongLoop`). A server that is down at 09:30 takes no snapshot,
and the reflex has no denominator for the day. When Slack raises, the digest's entry
is not written, although the comment at its place says it always is. A strategy has
one rung for both its modes: what it earned on paper it may use live.

## 5. Fairness

The scheduler starts the sweep every minute and the event loop runs every coroutine
that is ready: weak fairness of the sweep, each executor, the reflex's write, the
auto branch and `on_fill_event`, and in `AuditLog` of each session's next statement.
In `OrderGate` it is each command, whose list of orders answers or raises and whose
wait for the cancels ends after four seconds; the cancels themselves need never
answer, and that a kill ends asks nothing of the executors. In `TrustLadder` it is
the tick alone: APScheduler starts it every five minutes and its calls return or
raise; runs, fills and people owe nothing. `AgentRun` and `DayBook` assume none. The
operator, the broker, new runs, network failures and crashes owe nothing; the clock
need not move, and the properties that need it assume an overdue row.

## 6. Proofs

The theorems hold for every set of proposals, slots, tabs, actors and stream
modes, and for any number of crashes, writers and transactions. They rest on the
named assumptions on constants (distinct sentinel values, `Home`, `Loop`, `Shapes`
of the right kind, quotes, orders and caps as the schemas and the settings form
allow them: `MarketAssumption`, `CapsAssumption`); a theorem that needs more says so
in its ASSUME, by the name of a definition that says which parties are absent
(`OneSurface`, `OneTab`, `NoOverwriters`, ...) or that accounts have equity (`Funded`).

**ProposalLifecycle.** `TypeCorrect` is proved in five lemmas, one for each part
of `TypeOK`. The four safety properties are not inductive: whether an executor may
submit depends on what it read long ago. `IInv` adds that an executor past its
gate works for a consented proposal that has left PENDING and whose quantity is
the one it read; that a task in `placed` has an order; that an order's row has
left PENDING; and that every trade update is about an order. A consent is an approval
in the trail or, as its event names no proposal, a resize in the row. Three facts about
single steps carry the argument: `TrailGrows` (no event disappears), `LeftForGood`
(no overwrite brings a row back to PENDING, and only a PENDING row is resized) and
`OrderOrigin` (a new order comes from an executor past its gate). From these:
`OrdersNeedConsent`, `OrdersKeepSize`, `AuditExplains`, `ExecutingIsBacked`, with
`TrailIsAppendOnly` beside them.

**ProposalRaces.** The remaining properties of the pipeline are false with every
actor present, and each theorem says whose absence is enough:

| theorem | without | and false with |
|---|---|---|
| `FirstLiveNeedsBoth` | the dashboard's approve and resize | either (`Life_v_first_live.cfg`) |
| `TurnedDownIsFinal` | sweep, reflex (`NoOverwriters`) | either (`Life_v_sweep.cfg`) |
| `OneExecutorEach`, `FailedOrdersWereDenied` | a second place to approve from (`OneSurface`), a second tab (`OneTab`) | Slack and the dashboard together |
| `MovesAreEdges` | sweep, reflex, a second tab, clicks beside an auto branch (`AutoAlone`) | the sweep (`Life_v_sweep.cfg`) |
| `EscapesChangeNothing`, `PipelineKeepsContract` | a second surface, a second tab, sweep, reflex | |
| `OnlyLiveRefusalsEscape` | these, and lost calls | |
| `ApprovedHasOwner` | lost calls, crashes | a crash: nobody picks the row up |
| `DecidedForGood` | nobody | |

They share an invariant, `Known`: what absent parties have not done (`Absent`) and
which rows tasks, tabs and branches can hold (`HeldRows`). `OneAtWork` is the core
of the rest: an approval's claim and its executor go together, so while one is at
work no second claim can commit; `Unordered` carries it to the broker, for an
executor that refuses has not submitted, unless the broker answered its submission
with an error. That error is the one way to a FAILED row with an order, and the
contract's FAILED step allows it: `ProposalContract` knows which orders were
`denied`. `Unraced` says that no two parties hold a status they mean to overwrite,
and `Orderly` that an executor past its gate still finds the row where it left it;
with both, each step of the pipeline is a step of `ProposalContract` or a stutter
(`RowKeepsContract`, one lemma per party), and what escapes an executor changes
nothing. `OnlyLiveRefusalsEscape` turns the counterexample of
`Life_v_live_stuck.cfg` round: the missing edge from APPROVED_LIVE to FAILED is the
only one missing. `ApprovedHasOwner` needs that of several executors of one row one
can still finish (`OwnedByOneWhoFinishes`).

**AuditLog.** `NothingDangles` holds for all shapes: what somebody has read stays
visible to him (`SeesWhatItRead`). So does `LogIsWhole`: the rows of an open
transaction are its events so far and are dropped with it, those of an ended one are
as many as its shape has or none (`Whole`). `LockedReadsChain` is about the shapes
that hold the write lock when they read the last hash, because they have written a row
or because the read itself flushes one: whoever holds a hash then holds that lock
(`OnlyHoldersRead`), so the hash stays the last. That is the discipline the
append-first callers break. That no append is lost does not follow: the callers that
flush inside `append_event` take the two locks in the other order.

**Sums.** Positions, cash and the day's flow are sums over sets, folds in an order
that CHOOSE fixes. The provers cannot use an induction theorem that takes a
predicate, but they can use that a set of finite sets has a smallest member: each
induction is an argument about a smallest counterexample (`SmallestCounterexample`).
So the fold's recursion has a solution and only one (`FoldExists`, `ComputedAlike`),
integers add up to an integer (`SumIsInt`), any element can come first
(`SumWithout`), and a change of one value changes the sum by as much (`SumChanges`).

**OrderGate.** For any number of orders, commands and crashes. What an executor may do is
summed up once (`ExecutorMoves`): past the kill check only with the flag down, past
the count only with trades left, into the book only from `place`. On that rest
`KillHolds` (with the flag set everybody past the check is a straggler, with the
flag down nobody has slipped) for `KillHoldsOrdersBack`; `SweepHolds` (a kill in
force keeps the flag set, what is open it has listed or is a straggler's, what is
claimed is cancelled, what is not placed is not in the book) for
`CleanSweepsAreClean`; and `TradesHold`, which counts the submissions together with
the executors on their way to one, for `OverrunIsBounded`. `LoneOrdersKeepCaps`
needs `Fits`: while an order that never met another is past a check and not yet
filled, what that check found is still true of the positions as they are now, since
the only order that could be filled meanwhile is itself. What a check went without is
in `unread`, and the cap it then did not check is not promised. The fill then adds what the
shares cost at the market (`BuyAdds`, `TotalAdds`), which is no more than what the
checks counted (`BuyIsCovered`: a limit buy is filled at its limit or below, a market
buy whose checks had their quotes at the quote, and the price check refuses an order
without a price). It assumes `Funded`: without equity
`_portfolio_caps.py` and `_hard_caps.py` skip the percentage caps.

**TrustLadder.** `EligibleIsEarned` says what the scan is worth: eligible means that
enough approvals have no stop after them, and `PrefixStays` that this remains a fact
about the log as it was. So every promotion under way rests on a check that found
it (`RequestsFound`), which is what `AutoIsEarned` needs. For `DemotionTakesEffect`
whoever is between reading auto and approving is a straggler unless the rung is
still auto (`OnTheWay`). `EditsDemote` needs that a save which found the rung lowered
already owes nothing more (`EditsSettled`).

**AgentRun.** `EveryStepAdvances` goes through the steps of one run and what others
may do to it. For `OwnBudget` the invariant says who has had company, whom the
context belongs to and whose budget a call under way holds; for `AlertsAreHeard`, who
is about to write a date or to send the message for it. `LedgerIsBounded` counts the
pairs of run and phase that still owe an entry: the gate lets nobody owe beyond the
ceiling, and an entry costs its pair.

**DayBook.** `WindowIsArc` holds for every clock: the comparison at the end of
`_resolve_quiet_hours` is membership in the arc from start to end. An order with one
fill is either on its way, with nothing entered, or entered and gone from the feed
(`Traced`); from that `WholeFillsAreCounted`, and that a log in step holds the day's
cash (`InStep`). A reading half taken has the book's worth as positions and cash
(`ReadingOK`), so `InStep` at the second read gives `CalmReadings`, and at the digest
`HonestDigest`. `BooksAreTyped` is about shares and money alone; with `SumIsInt` it
gives `TypeCorrect`, readings and digest included.

**Model-checked only.** Everything with fairness, which is beyond TLAPS:
`OverdueIsClosed` and `ApprovedIsResolved` of `life_fair`, `TransactionsEnd`,
`KillEnds`, `DrawdownIsAnswered`. Every invariant and every action property of the
passing runs is a theorem.

## 7. Plan

1. `ProposalLifecycle`, `AuditLog`, `OrderGate`, `TrustLadder`, `AgentRun`,
   `QuietHours`, `DayBook`: done, each with its proofs.
2. The refinement of `ProposalContract` and the properties under restricted actors,
   as theorems: done.
3. The round trips of `check_pdt` over enumerated days and fills against a
   reference definition; the kill banner against the flag.
4. `TrustLadder` with the fills of `DayBook` in place of `loss`, so that a phantom
   drawdown and the demotion it causes are seen in one behaviour.

## 8. Not modelled

Language-model calls, prices, templates and cards (I/O and formatting); the vault,
configuration and schemas (no protocol); rendering of dashboard pages and argument
parsing of commands; the retired Slack edit stubs, which only answer with a message;
the per-strategy schedule, which nothing in `src/` registers; the table that says
which category of message bypasses quiet hours. Of OrderGuard: the NYSE calendar
(one flag that falls once), the wash-sale note on a fill, and quotes that move
during the day. In `ProposalLifecycle` a partial fill is followed once: later ones
repeat the same step; `DayBook` follows each. Of an agent run: the content of
research and answers, parallel tool calls within one turn, a user row that is
missing. The digest's scan of fills ends at 1000 rows and a day may get a second
snapshot; neither happens in a day this small. The trust ladder follows one strategy
with one mode.

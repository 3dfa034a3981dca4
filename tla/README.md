# Verification of ScalpTnAaa

TLA+ models of the live-trading system in `src/` (GoldScalperPro: a trading
robot for XAUUSD over an MT5 bridge, and the Telegram panel that operates it),
the TLC runs that check them on small instances, and theorems about them that
TLAPS proves for every instance.

The robot trades real positions on its own.  What can hurt is not the quality
of a signal, which is a matter of data, but the machinery around it: a risk halt
that is forgotten, an operator's command that is lost or executed twice, a
candle that is traded twice, a stop that moves the wrong way, an order sized by
a misread report, a connection that never comes back, a message nobody gets.  All
of this is asynchronous, is shared between two processes, and has to survive
outages and restarts; that is what is modelled.  The decision itself is modelled
as rules over the facts it compares, because two parts of the program apply the
same rules and must agree.

1. [The system](#1-the-system)
2. [Modules](#2-modules)
3. [Runs](#3-runs)
4. [Where code and documents disagree](#4-where-code-and-documents-disagree)
5. [Proofs](#5-proofs)
6. [What is not modelled](#6-what-is-not-modelled)
7. [Plan](#7-plan)

## 1. The system

Two Python processes, usually on different machines, and three stores.

* The **robot** (`live_trading/`): one asyncio loop that holds an HTTP server
  (`server.py`), a supervisor that starts an engine whenever there is none, and
  the engine itself (`trading/live_loop.py`, `GoldScalperLive`).  A tick of the
  engine processes the operator's commands, manages trailing stops, reconciles
  closed trades and looks for closed candles; every awaited call gives the HTTP
  handlers a chance to run in between.
* The **panel** (`telegram_panel/`): a Telegram bot, its services and a small
  database.  It never talks to the broker; it sends commands and shows what the
  robot wrote.
* **Redis**, shared by both (commands, robot state, the guardian's state, entry
  claims), **files** on the robot's disk (the same things, for a deployment
  without Redis), and the **broker** behind a REST bridge.

### Inventory

| Part | State it keeps | Operations | What is hard | What makes it correct |
|---|---|---|---|---|
| Risk guardian (`risk/guardian.py`) | peak equity, day window, halt, manual baseline, limits; a copy in Redis and one on disk | `initialize`, `check`, `reset_halt`, `restore_state`, `_save_state` | two copies with different fates, days that roll over only when somebody looks, resets by request id | a halt stays until reset or midnight, survives restarts; limits are measured from the right window |
| Engine (`trading/live_loop.py`) | paused flag, bar cursors, attempted signals, trailing baselines, trade history | `start`, `_run_loop`, `_on_new_bar`, `_process_commands`, `_safe_entry_order`, ... | stages with time limits; whatever is awaited, others run | follows the guardian; at most one order per candle and entry per tick |
| Command channel (both `redis_ipc.py`, `state_writer.py`, `robot_service.py`, `server.py`) | a dictionary in Redis, a command file in two formats | send over three channels in turn, poll, act, clear | read-change-write without transactions, lost answers, an engine that dies between action and clearing | a command is acted on, once |
| Entry order path (`_safe_entry_order`, `mt5/executor.py`, `redis_ipc.py`) | claims in Redis, the engine's memory of its attempts | claim, place, mark | ambiguous answers, a bridge that lags, overlapping engines | never two orders for a candle; position cap; one direction |
| Supervisor and HTTP (`server.py`) | failures so far, engine reference | restart with back-off, `/command`, `/force-resume`, `/snapshot` | acts on the engine between two awaits of a tick | an engine that ends is started again |
| Trade history, trailing stop | rows, baselines, stops at the broker | record, reconcile, sync with broker history, move stops | persisted in parts, merged by ticket, requests that answer late | closed trades are recorded once; a stop never moves back |
| Candles (`mt5/connector.py`) | none | quote for the time, four endpoints, filter of closed candles | endpoints and clocks that disagree | only closed candles are decided on |
| MT5 connection (`mt5/connector.py`) | session id, state, lock, grace period, watchdog | connect, health check, invalidate, disconnect, retried requests | three callers reconnect at once, a failed handshake restores old values, stages are cancelled anywhere | one handshake at a time; it does come back |
| Report of the symbol (`mt5/connector.py`, `aggregate_risk.py`) | last tick size | fetch, normalise, check | sections, units, currencies, retries | an order is sized by what the broker means |
| Sizing and risk budget (`risk/capital_manager.py`, `aggregate_risk.py`, `entry_guard.py`) | none of their own | stop and target, re-anchoring, volume | positions and quote read before an await, late requests | the total risk stays under its limit |
| Decision and signal engines (`signals/`), entry policy | candle cursor, last entry (in the engine) | patterns, trend, regime, gates, plan | the same policy applied twice with different inputs, a candle found late, quotas after restarts | engine and order boundary agree; quotas and cooldowns |
| Panel: event bus, heartbeat, notifications | two bounded queues, known tickets, claims | publish, poll, claim, deliver, retry | a claim before delivery, polls that read less, restarts | a trade is announced once, and silence has a reason |
| Panel: sessions, rate limit, handlers, storage | sessions in a database, request times | create, renew, expire | sliding windows | - |
| TypeScript backtester, bridge image, UI artifacts | - | - | no shared state with the live system | - |

They interact as follows: panel -> *command channel* -> engine -> *guardian*
(`_process_commands` calls `reset_halt`, `update_risk` writes its limits);
engine -> guardian on every bar (`_on_new_bar` calls `check` before anything
else); `/force-resume` -> guardian and engine directly; closed candle ->
*decision* -> *entry path* -> sizing, Redis claims and the bridge; supervisor ->
`start` -> *restore_state*; every call of the broker -> *connection*; engine
-> state file and Redis -> *heartbeat* -> event bus -> notifications.

`PROJECT.json` lists the hazards of this code one by one, at the line where each
bites, with the properties that would notice.

## 2. Modules

```
Guardian            methods of RiskGuardian as operators on [mem, disk, redis]
  RiskControl       everybody who calls them: start, bars, commands, HTTP, crashes
    MCRiskControl   small accounts and limits        (TLC)
    RiskControlProofs                                (TLAPS)
CommandChannel      panel, Redis, HTTP, file, polling loop
    MCCommandChannel                                 (TLC)
    CommandChannelProofs                             (TLAPS)
EntryProtocol       what the entry path promises for a signal (abstract)
EntryOrder          bars, gates, claims, order requests, broker, bridge
    MCEntryOrder                                     (TLC)
    EntryOrderProofs                                 (TLAPS)
TradeLedger         stops, baselines, history rows, their copies, the broker's deals
    MCTradeLedger                                    (TLC)
    TradeLedgerProofs                                (TLAPS)
Connection          the session at the bridge: lock, handshake, requests
  EngineLoop        supervisor, start, stages with time limits, watchdog
    MCEngineLoop                                     (TLC)
    EngineLoopProofs                                 (TLAPS)
Sizing              stop, target, re-anchoring, volume: operators
  RiskBudget        lists, orders, fills, trailing stops, late requests
    MCRiskBudget                                     (TLC)
    RiskBudgetProofs                                 (TLAPS)
  PriceAction       the candle patterns of a window
  Market            trend and regime from the facts compared
    EntryPolicy     both: votes, gates, confidence, plan, policy at the boundary
  SymbolSpec        the broker's report of the symbol
  CandleFeed        which candle is found to be the last closed one
      Decisions     the three: candle, decision, boundary, order
        MCDecisions                                  (TLC)
        DecisionsProofs                              (TLAPS)
Notifications       heartbeat, event bus, claims, delivery
    MCNotifications                                  (TLC)
    NotificationsProofs                              (TLAPS)
```

The systems are modelled apart because they share little: of the guardian
the command channel needs only that a resume may be refused, the entry path
only that a bar may be dropped, the ledger only that an entry may be made or
not, the engine's life only that a stage makes requests, and the panel only what
the robot has published.  These are choices there.

`CommandChannel`, `EntryOrder`, `TradeLedger` and `Connection` have a constant `Worlds` and a
variable `world` that is chosen once: which things may go wrong in this
behaviour.  A run can then ask one question of several deployments, and a theorem
holds in all of them.

### Guardian and RiskControl

`Guardian` translates the methods of `guardian.py` into operators that take and
return `s = [mem, disk, redis, behind]`: the object's fields, `guardian_state.json`,
the Redis key, and which of the two has not got the last copy.  A save tries both,
and each may fail on its own without anybody being told (`up` is the set of places
that take a write).  They are synchronous, so a handler that calls several is their
composition, and `RiskControl` has one action per handler: `StartRestored`,
`StartFresh`, `StartBlind` (`start`), `Bar` (`_on_new_bar` up to the halt),
`PauseCommand`, `ResumeCommand`, four outcomes of RESET_GUARDIAN, `UpdateRisk`
(`_process_commands`), `ForceResume` (`server.py`), and what the environment
does: `EngineStops` (the process goes on, and its server still knows the object),
`ProcessDies`, `Redeploy` (another disk, perhaps another account), `PlacesChange`
(which places work), `Tick`.  An engine that pauses itself on a bar still processes
the other bars of its tick (`lateBars`).

`now` counts ticks, `TicksPerDay` of them a UTC day.  `FreshFor` and `RedisTtl`
are the 26 hours for which `start` accepts a copy and the 27 for which Redis
keeps it.  Balances and equities are whole units, percentages are compared by
cross multiplication; the float tolerance of 1e-9 is left out.  Of the balance at
the opening of the session only its sign is kept (`session`): it is compared with no
limit, but a copy in which it is zero is not restored.  `behind` is a history
variable.  Left out: bars of a tick that began before midnight and ends after it in
a paused engine.

### CommandChannel

A dictionary is the set of commands it holds, one per key.  An action is what
runs between two points where another process or task can get in between:
`SendGet`/`SendSet`/`SendSetLost` (panel, Redis), `HttpAccept`/`HttpFails`,
`FileRead`/`FileWrite`/`FileElsewhere` (panel, last resort), `Poll`, `Act`,
`ClearGet`, `ClearSet`, `ClearReread`, `ClearWrite` (robot), `EngineDies`.
`SendSetLost` is a write that lands while its answer gets lost: the panel takes it
for a failure and sends the same command over the next channel.  When that happens
to the robot's own write there is nothing more to model, because
`clear_command` ignores what `redis_clear_command` returns
(`state_writer.py:446-458`): it is `ClearSet`, and then Redis is away.  A write
whose answer got lost has landed at once or not at all; one that lands later, over
a newer dictionary, is left out.  `HttpAccept`
treats the handler's Redis mirror and its file append as one step: the handler
and the polling loop run in one thread and neither call yields.  (A write of the
panel that falls between GET and SET of the mirror is left out: it takes a
command whose send over Redis failed together with one whose send works.)  The history
variables say why a command may legitimately be repeated or lost; the properties
are that nothing else repeats or loses one.

### EntryProtocol and EntryOrder

`EntryProtocol` is the promise: for every signal a claim that is made once, at
most one request, one decision of the broker, one final outcome that never
says SUCCESS of a request that was not accepted.  `EntryOrder` is the code: an
engine polls bars (`Poll`), evaluates them, longest timeframe first
(`Evaluate`, `Skip`; the history it fetches may end with a newer bar than the poll
saw, and then the cursor goes on to that one), checks position and memory (`Confirm`, `SeenAtBroker`,
`Drop`), claims and sends (`Send`, `ClaimTaken`, `ClaimFails`) and learns the
answer or none (`Placed`, `NotPlaced`).  `Broker` accepts or refuses a request at
any time, also long after the engine gave up on it, and the bridge may report a
position late or drop it for a while (`world.lag`).  Several engines stand for a
deployment that starts the new container before the old one ends.

What a strategy makes of a candle is a choice, and so is every gate that can
only drop a signal.  A poll answers per timeframe, with a bar or without one
(`Polls`): it may fail, and in a world that is `stale` it may show any older bar,
as a bridge does that has not synchronised its history.  The guard of two hours
refuses only bars that are older than all those of the model.  A request refused before it leaves the executor is a request that is
sent and refused.  Hedged positions are off, as they are by default.

### TradeLedger

What the engine knows about its positions is in two places, the rows of
`trade_history` and the baselines in `_trail_baselines`; both are copied into the
state file and into Redis (`Save`, `_write_state`) and read back at a start.
`pc` is the stage the engine is in; the stages are the handlers:

| `pc` | Actions | Code |
|---|---|---|
| `off` | `Start` | `start`: the write of the empty state, then the two loads |
| `sync` | `Sync`, `SkipSync` | `_sync_broker_trade_history` |
| `trail`, `quote`, `modify` | `SkipTrail`, `ReadPositions`, `NoQuote`, `Decide`, `Modified`, `NotModified` | `_manage_trailing_stop`, split where it awaits the bridge; the trailing rules are `Restored`, `Observed`, `Candidate`, `ShouldApply` |
| `reconcile` | `Reconcile` | `_reconcile_closed_trades` |
| `running`, `commands`, `bars` | `BeginLoop`, `Proceed`, `Idle`, `CloseByCommand`, `Enter`, `NoEntry` | the rest of a tick, as far as it touches positions, rows or copies |

`Stop` is every way in which an engine ends, with or without a last save, and
`Close` is the broker or an operator at the terminal.

Prices are measured from the entry in the direction of the position, so a
position is a BUY with its stop at `-Risk`, and a SELL is its mirror image.  It is
filled at the price that was asked for, which is also what the code takes for
its baseline.  A row keeps what the handlers ask of it: position, whether it has
the stop of the order, whether it has an entry, whether it is closed.  The list is
sorted by time stamps of two clocks (the engine's and the broker's), so where the
code takes the first or last row of a position, or drops the oldest of 50, the
model takes or drops any: what holds here holds for every order.  A change of
a stop whose request ended without an effect is never made later here; changes that
come late are in `RiskBudget`.  A close by parts is not modelled: any deal that
closes marks the row, as in the code.  The second look at the stops
after a reconnect is a tick of its own.  `reached` is a history variable: the
highest quote the engine has seen for a position, which survives what the engine
forgets.

### Connection and EngineLoop

`Connection` is the module-level state of `connector.py` and what a task does
between two awaits: `call[t].at` names the answer task `t` waits for.
`_connect_unlocked` is `ConnectExAnswers`, `Ready`, `NotReady`, `Undone`,
`CleanedUp`; it remembers the session it found (`prev`, `was`) and puts it back when
it fails.  A request (`Send`, `Answered`, `Invalidated`, `RequestFails`) forgets the
session when it fails.  `lost` is a history variable: sessions the robot dropped
without closing them.  `Cancel` is an await that is cut off: a `/ConnectEx` or a
`/Disconnect` may still be carried out at the bridge, so the first may leave a
session there that no one has read the id of.

`EngineLoop` adds the supervisor, `start`, the stages of a tick and the watchdog.
`_check_new_bars` polls all timeframes at once with `asyncio.gather`
(`live_loop.py:1170-1176`): the request of the first is the engine's own, each other
one is a task of `Pollers`, and the stage is over when all are.  They contend for the
lock like engine and watchdog, and are cancelled one after another when the stage
takes too long (`PollCancelled`).
A `restart_engine` command clears `engine.running`, which is read at the head of the
loop, so `Head` goes on to the next tick or to the end.
`StageTimeout` is `_run_stage`: whatever the engine awaits is cancelled
(`Cancel`), with the effect of its `finally` clauses; `start` has no such limit.
`ProcessDies` empties memory and leaves sessions at the bridge.  From the moment
`calm` holds, which the model chooses, the bridge answers truthfully and nothing
dies; handshakes may still take longer than a stage may.

### Notifications

Robot, heartbeat, bus, service and the Telegram servers.  `CheckState` and `Poll`
are the two halves of `_check`; `TakeEvent`, `Handle`, `HandlerFails` are the worker
of the bus; `Claimed` and `Enqueue` are `notify`; `TakeJob`, `Sent`, `SendFails` are
the worker of the service, one attempt at one chat each.  Two kinds of event stand
for all: a trade was opened, which is claimed in Redis by its ticket, and the link
was lost or restored, which is not claimed.  A poll may read any part of what was
published.  A send that fails may have arrived, also because what is logged after
it fails within the same `try` (`notification_service.py:213-230`).

### Sizing and RiskBudget

`Sizing` has the arithmetic of an order in whole points and lots: the stop of the
decision (`StopPlan`), the age of its price (`Fresh`), the broker's distances
(`Required`), stop and target at the last quote (`Rebased`), whether these can be
sent at all (`Sendable`, which is refused for another reason than a reward that is
too small, `Rewarding`), the volume under the limit of a trade and the limit on the
total (`Lots`).  `RiskBudget` reads the
list of positions, then sizes, then sends, while prices move, fills arrive, stops
trail and requests time out and are carried out later.  Every position has a stop:
the code refuses any entry while one has none
(`OPEN_POSITION_RISK_UNVERIFIABLE`).

### PriceAction, Market, EntryPolicy, SymbolSpec, CandleFeed and Decisions

`PriceAction` reads a window of candles: engulfing, pin bar, strong candle,
breakout with retest and pullback, inside bar, fake breakout, overextension.  The
code spells each rule out for bulls and bears; here it is written for a side.
Pivots and zones are given.  `Market` makes trend and regime of the facts the code
compares.  `EntryPolicy` follows `run_decision_engine`: who decides the direction,
the votes, the gates in their order, confidence, quality, the plan; and
`evaluate_active_entry` and the strong-trend test, which the order boundary repeats.
`SymbolSpec` is the way of a report: three sections, retries, a tick size
remembered from earlier, extended volumes, currencies, the setting as the last
resort.  Whatever unit a volume arrives in, the code divides it by the scale, as
a float, and looks only for what is too large afterwards; the model counts volumes in
a unit so small that this division is exact, and reports may give some volumes in
plain lots (`Plain`).

`CandleFeed` is `fetch_candles`: a quote gives the broker's time or none, up to four
endpoints are asked in turn, a broken request is tried once more over a new
session, and of the candles that come back those whose end is in the past are kept.
Candles are stamped by the broker's clock and taken for UTC; so is the time of a
quote, unless it names its zone: then it is turned into UTC, and is no longer on the
clock of the candles.

`Decisions` composes them: candles close (`CandleCloses`), the first one found is a
baseline (`Baseline`), later ones are decided on (`Evaluate`) or lost when the second
request is older than the first (`Lags`); the order boundary refuses, stops or sends
(`Submit`, `Stopped`), and the order is answered or not.  `opened` holds every entry
made, `rows` what the history has of them: a restart loses rows, and so do moves of
stops, which push older rows out of the fifty.  That a candle is entered once is
`EntryOrder`'s.

## 3. Runs

Each takes from a few seconds to three minutes.  A run that turns deadlock
checking off has behaviours that end: every command sent, every candle
traded.

| Run | Question | Bounds, and why they are enough |
|---|---|---|
| `risk_control` | Over three UTC days, with two reset requests: baselines of the right day; limits enforced by whatever bar comes; halts lifted by nobody else; peak lowered only on request; "applied" receipts true; a forced resume undone by the next bar | two ticks a day, so that a copy can be stale and a reset can meet the same and another day; three accounts: level, 5 % lost, and a pullback of 10 % without a booked loss, against limits of 3 % and 8 % |
| `risk_restarts` | Redis and the file fail, each on its own; redeploys without a disk, two accounts, an account that has lost everything, starts that cannot identify themselves: what is in memory is in every place that took the last save, and a restart keeps it where the place that is read first did | two days, so that a window can be opened at a balance of zero; two account figures, level and nothing left; the broker accounts are symmetric, and no property is a liveness property, so the symmetry is sound |
| `channel_redis` | Redis always works: each command acted on once, unless a panel write raced with a clearing, and in the end acted on | three commands, two of one key, one that a pause defers; one tick of life, so that expiry meets every step |
| `channel_outages` | Redis fails on either side, the engine dies; the panel is on another machine, or on the robot's, where both update one command file: nothing is repeated or lost without a cause | two commands: one gives the loop away while it is executed, one has a key the file does not know |
| `entry_shared` | Two engines on one Redis, everything fails and old bars are shown as new: no candle is traded twice, and the path implements `EntryProtocol` | two candles, three requests, one timeframe |
| `entry_alone` | One engine without Redis that gets its answers: one entry is made a tick although the bridge lags or serves old bars; without crashes and lag, cap and one-way rule | three labels for two timeframes ("M1" and "m1" are the same), so that a tick can bring more bars than there is room for; two candles of the shorter one and one of the longer, both directions; two worlds, in one of which engines die and the bridge lags, in the other the history ends with old bars |
| `trade_ledger` | A position over its life, while the bridge lags, answers get lost, the history is full, Redis fails and engines restart: the stop never moves back and leaves its place only after one risk unit; the baseline is right while the row of the order is there; it is recorded closed only when it is, and in the end it is | one position, since positions meet only in the 50 rows and which of these goes is a choice; a risk of two, quotes on both sides of it, ATR distances that give a candidate behind and ahead of the stop, and a minimum step that some of them miss |
| `risk_budget` | Two entries, their fills and trailing stops, with price moves at every await, lists that leave positions out, requests that are carried out late: the open risk stays under the limit but for worse fills and positions no list showed; a stop goes back only by a late change, and never to a new loss | two orders, because the second is the one that must see the first; prices around a stop, broker distances that widen a plan and some that do not, one late change |
| `engine_loop` | Engine, a second timeframe and watchdog share the session of a bridge that drops sessions, lies or does not answer; stages are cut off at any await, processes die: one handshake at a time, sessions leak only for the listed reasons, an engine that is down leaves nothing running, and once the bridge answers the engine works again | three tasks: the engine with the first timeframe (a restart command runs in it too), one more timeframe, the watchdog; two session ids, of which one nobody names is used again; two attempts where the code has twelve, one where it has three; two worlds: a tick polls both timeframes at once, or the bridge becomes calm, so that work returns is checked of one timeframe |
| `panel_notifications` | One trade and two changes of the link on their way over both queues to two chats, with partial polls, Redis away, failing handlers and sends, and a panel stopped, killed and started again: announced once in a life, repeated or silent only for the listed causes, in order, and settled in the end | queues of one, so that both are full and hold something; two attempts; two lives, so that a claim meets a fresh memory |
| `decisions` | Candles close, are found late or out of step, decided on and taken to the boundary: no open candle is decided on while the time is known on the clock of the candles; engine and boundary agree; a plan loses its reward only for the stated causes; quota and cooldown; sizing by what the broker means | windows of three candles over five prices and four kinds of pivots, all consistent combinations of facts, seven circumstances (session, lateness, room to the next level); eleven reports over two requests, one of them with its smallest volume and step in plain lots; every answer of the endpoints, with a broker one candle behind UTC (the side on which the robot's clock is ahead of the candles); four candles in two sessions, two lives, two entries, which is what quota and cooldown compare |
| `halt_lost_at_restart` | a statement of the repository that the code does not keep: section 4 | the smallest that shows it |

Properties worth a word:

* `LimitsEnforced` asks in every reachable state what the next bar *would* do with
  every account figure, so a bar that changes nothing is asked as well.
* `Durable` is about both places and each on its own: one that took the last save
  has what is in memory.
* `RestartKeepsRiskState` has the copies' reach as its premise: the place that a
  start reads first (Redis if it answers, else the file) took the last save, which is
  not too old.  What happens without that premise is `halt_lost_at_restart`.  And
  none of the figures the guardian was opened with is zero, since `restore_state`
  refuses such a copy.
* `RepeatHasCause` and `LossHasCause` do not say that commands are handled
  exactly once, because they are not.  They list the ways: cleared too late or
  in one store only (`uncleared`), stored over one channel and sent over another as
  well (`copied`: mirrored, or stored with an answer that got lost), a write based on
  an old read
  (`raced`), cleared with an earlier command of the same key (`swept`),
  expired, replaced or never stored where the robot looks (`gone`).  With a
  Redis that works only `raced` is left for a repetition (`OnceUnlessRaced`).
* `AtMostOneOrder` needs no assumption about answers, the bridge or crashes, and over
  a shared Redis none about the bars that are shown.  A single engine without Redis
  has only its memory and its cursors: there either no restart or no old bar may
  come in between (what happens otherwise is `RestartReplays.cfg`).  `entry_shared`
  checks the first half; the second is proved with it.
  `OneEntryPerTick` needs answers; `CapKept` and `OneWayKept` need answers and a
  bridge that reports at once: those are the assumptions the code itself makes.
* `OneRiskFirst` and `StopNeverBack` hold although the engine may forget a
  baseline and guess it again from a stop that has moved (`risk_forgotten`): a
  guess can only be too small after the stop has moved, and a stop only moves
  after one original risk was reached.
* `ClosedIsRecorded` is about the row of the order, which `Sync` may pass over
  when it updates the last row of a position.

* `WithinBudget` states the budget the code can keep: README.md:133 of the
  repository promises 2 % and says nothing of fills.
* `StopGoesBackLate`: `TradeLedger!StopNeverBack` is about requests that end, this
  one about requests that are given up and carried out later.
* `WorksAgain` is a response property under interference: the handshake may always
  take longer than the stage that asked for it, so it rests on `start`, which has no
  limit.
* `BoundaryAgrees` compares two authorities over one decision.  An entry that the
  decision engine approves and the boundary turns down would be a silence that
  nobody notices.  The equality is not visible in either module: the engine works
  with the reading of the window, the boundary with the fields of the decision.
* `ClosedCandlesOnly`: that a candle is closed is decided by a quote that was read
  before the history, and the history may come from any endpoint.
* `RewardLost` lists when the reward is lost between decision and order.  In a range
  and in high volatility it always is when there is a spread, which is an observation
  in section 4.
* `RangeQuota` is about the rows there are; what a restart does to it is
  in section 4.

`TypeOK` of `RiskControl`, `CommandChannel`, `EntryOrder`, `TradeLedger`, `EngineLoop`
and `Notifications` is proved and no run is spent on it.

### Fairness

`RiskControl!FairSpec`: weak fairness of processing a bar.  Candles keep closing
while an engine runs unpaused and the loop polls them; pausing disables the
action, so nothing is claimed of a paused engine.  `UnattendedSpec` is the same
without an operator.  `CommandChannel!FairSpec`: weak fairness of the robot's step
(the loop polls for ever, and each of its steps ends, with or without Redis) and
of the next step of a send that has begun (each attempt has a timeout).
`TradeLedger!FairSpec`: weak fairness of the engine's steps (the loop goes on, and
no pause lasts for ever: a paused engine reconciles nothing), and strong fairness
of an answer with a close history for a closed position: the bridge may fail to
give it any number of times, but the code asks again at every reconciliation.
`EngineLoop!FairSpec`: strong fairness of the engine's step, of the watchdog's step
or the end of the grace period (tasks of one event loop in which every await has a
time limit, and a clock), and of the steps that end a stage's work (a stage makes
finitely many requests).  Strong, because a task is disabled while the other one
is between two awaits.  Nothing is said of the pollers.  Only `WorksAgain` needs it,
and it assumes nothing of the bridge until `calm`.  `Notifications!FairSpec`: weak fairness of the two workers,
which wait for their queues for ever and whose sends have time limits, and of the
end of a process that is stopping.
Nothing is assumed of operators, connections, crashes and the clock of the day.

## 4. Where code and documents disagree

One is checked by a run whose counterexample is the disagreement; ten more have
a configuration beside the runs that ends in its violation, by
`tlc -config <configuration> <module>`.

* `halt_lost_at_restart`: a halt saved while Redis was away is on disk only; the
  next start asks Redis first and finds an older, healthy copy
  (`live_loop.py:846`, against 814-815).
* `DailyHaltStays.cfg` (`MCRiskControl`): a daily halt pauses the engine; a paused loop does not
  process bars, so nobody looks at the new day and the halt stays
  (`live_loop.py:999`, against `guardian.py:6-7` and the operations guide).
* `PauseThenResumed.cfg` (`MCCommandChannel`): a resume that came together with a pause stays queued
  and lifts the pause at the next poll (`live_loop.py:3021`, against its comment at
  3010 and `audit_reports/REGRESSION_REPORT.md:154`).
* `OppositeInTick.cfg` (`MCEntryOrder`): tick flag and last direction are set only by an answer
  with a ticket; if the answer is lost and the bridge lags, the next timeframe of
  the tick sends the opposite order (`live_loop.py:2188`, against 2153-2155).
* `RestartReplays.cfg` (`MCEntryOrder`): without Redis, a start that is shown an
  older bar sets its cursor to it, and the bar after, already traded, is new again
  (`live_loop.py:1224-1235`, against its comment at 1225-1228).  The guard against
  stale bars lets anything of the last two hours pass.
* `RiskForgotten.cfg` (`MCTradeLedger`): a start writes a state without rows and baselines before it
  reads both back, so a restart forgets them; the baseline of an open position
  then comes from the stop it has by now (`live_loop.py:721`, against 4004-4005).
* `RangeQuotaReset.cfg` (`MCDecisions`): the rows that restart forgets are also what
  the quota of RANGE entries is counted in, so it starts again
  (`live_loop.py:721`, against 1975-1978, "so a Render restart cannot reset the
  limit").
* `FreshSessionReplaced.cfg` (`MCEngineLoop`): a status check that was sent before
  another task's handshake and is answered after it marks the new session as down,
  outside of the lock (`connector.py:504`, against 303-306).
* `PlainLots.cfg` (`MCDecisions`): a volume that arrives in plain lots is divided by
  the scale like any other, which leaves a hundred-millionth of it: positive, and not
  too large, so it is accepted, and orders are sized and floored by it
  (`volume_units.py:42`, 54-61 and `aggregate_risk.py:195`, against the "fail-closed
  reason for implausible converted lot constraints" of `volume_units.py:53`).
* `MutedStillSent.cfg` (`MCNotifications`): the upsert of a notification setting
  never finds its row, because the column of its conflict is NULL, so switching
  adds rows and the oldest stays in force (`notification_repo.py:49`, against
  `notifications_handler.py:32-33`, "Changes take effect immediately").
* `OldTradeAnnounced.cfg` (`MCNotifications`): the first poll of a panel may read
  nothing because its store is out of reach; the second then announces positions
  that were open all along (`heartbeat.py:159-162`, against 65-67).

Others the models show but no configuration is spent on:

* UPDATE_RISK does not save the limits it sets (`live_loop.py:3239`); a restart brings
  the older ones back unless something else saved in between, against
  `guardian.py:513-514`.
* A guardian that is initialised late, on a bar, does not look at the balance it is
  given (`live_loop.py:1575-1580`); if that was zero, `restore_state` refuses every
  later copy (`guardian.py:339-341`), with the halt that is in it, against
  `live_loop.py:814-815`.
* Without an account summary at start, the state of another account is
  restored (`guardian.py:322`, against `live_loop.py:819-820`).
* POST /force-resume calls `reset_halt()` without figures, which refuses: the
  engine runs with its halt (`server.py:491`, against 458) until the next bar
  pauses it again (`ForcedResumeIsRepaused`).
* A reset refused on the day after a daily halt has lifted the halt by the
  rollover it performs, and is answered "current halt was left intact"
  (`live_loop.py:3163`).
* While Redis is up, the second half of `clear_command` reads Redis and not the
  file, so a command posted over HTTP stays in the file (`state_writer.py:454-455`).
* `clear_command` leaves a dictionary where both writers expect a list: the next
  append starts from an empty one (`server.py:423`), and the dictionary has no
  timestamps, so what is in it never becomes stale (`state_writer.py:401`, against
  28-29).
* After a restart a position whose stop is exactly at its entry has no baseline
  (`live_loop.py:2345`), and without one its stop is never moved again
  (2410-2434).
* A bridge that leaves a position out of one answer makes the engine drop its
  baseline (`live_loop.py:2395`), and with it that breakeven was armed and how
  high the price has been.
* Three more requests are awaited between the capacity check and the order
  (`live_loop.py:3495`, against the "atomically" of 3369).
* A breakout entry of a RANGE without a level to aim at is approved and never sent:
  its reward is exactly the least one (`decision_engine.py:802`, 881-882), and the
  boundary measures it after the spread (`live_loop.py:3625-3654`), although
  `decision_engine.py:650-655` lets it pass.  HIGH_VOLATILITY is the same (2.0 and
  2.0), where its filter is on.
* A quote without a time makes the robot date candles by its own clock
  (`connector.py:746-756`), one whose time names its zone by UTC (`connector.py:189`).
  With a broker ahead of UTC it then finds an old candle, and
  the new one is lost; with one behind, it takes the open candle for a closed one.
  The two hours after which a candle is stale are measured between the broker's
  clock and UTC as well (`live_loop.py:1202`, against "relative to UTC wall-clock
  time").
* `start` takes the broker's suffixed name for the symbol (`live_loop.py:741-761`;
  `connector.py:1760` calls suffixes common), but the entry policy allows exactly
  "XAUUSD" (`active_entry_policy.py:16`): such an account never enters.
* While no report of this process has had a tick size, the setting is combined with
  the broker's tick value and only logged (`connector.py:1871-1892`).
* The memory of the last entry is the process's, and only an answered order sets it:
  restarts and lost answers end the cooldown (`CooldownKept` says so).
* `decision_engine.py:492` says counter-trend trades need three confirmations; one
  vote of price action that stands alone is enough.  RANGE_ENTRY_FILTERS_ENABLED
  (README.md:127) is diagnostic, RANGE_RISK_PERCENT is 0.5 in the settings and 0.25
  at README.md:126, REQUIRE_PRICE_ACTION has no effect, and
  `_target_room_block_reason` is never called.
* The limit of 2 % on the combined risk (README.md:133) is exceeded by worse fills and
  by positions a later sizing did not see.
* A send that arrived is repeated when its log fails, and when the log of the last
  failure fails the remaining chats are given up
  (`notification_service.py:213-247`).
* ROBOT_PAUSED, ROBOT_STOPPED and ROBOT_STARTED have no subscriber
  (`bot.py:314-319`, against `heartbeat.py:128-129`).
* A request of an old session that fails late makes the robot forget its new one, which
  stays open at the bridge (the sessions of `lost`).
* `start` returns None after a loop that ended well, which the supervisor takes for a
  failure, so its back-off never starts again from the beginning
  (`server.py:576-677`).

## 5. Proofs

`tlapm` checks every leaf of eight modules. The assumptions are those named in the
modules (`AccountsAssumption`, `LimitsAssumption`, `ClockAssumption`,
`CommandsAssumption`, `EntryAssumption`, `LedgerAssumption`, `ConnectionAssumption`,
`NotificationsAssumption`, `CandleAssumption`, `BudgetAssumption` and so on): they say
what the constants are, and nothing about the behaviour. TLC evaluates each of them on
the values of its runs. The one with more in it is `ReportAssumption` of `Decisions`,
about the broker: what arrives of its reports may be late, broken, in part or in
another currency, or with volumes in plain lots, but a value that can be read is this
broker's (`Truthful`). Two
theorems have a premise
about the deployment (`OnceWithoutRaces` and `ImplementsProtocol`), which is given
below.

**Risk control** (`RiskControlProofs`), for all accounts, limits, requests, clocks,
outages and redeploys, whichever of Redis and the file takes a write: every property
of its passing runs.  `Durable` says that a place that took the last save agrees with
memory; `BaselineConsistent` is about active baselines, but `check` and
`restore_state` move inactive ones, so memories and copies must be *good*: an inactive
baseline is blank (`BaselineOK`).  The invariant is

    IInv == Scalars /\ GuardianTyped /\ Durable

The argument follows the code: each method is characterised once, by what it
leaves of the halt and the day and by `Kept` -- well formed, and either untouched
or saved in every place that works -- then each handler as a composition
(`SavedTransitive`), then the actions.  `HaltAlwaysSticky` and `PeakOnlyReset` follow
from `IInv` and the same lemmas.  `LimitsAlwaysEnforced` asks what the next bar would
do: `check` measures both losses against the baseline of today, and that the stored
day is today's needs `OnTime` -- no copy is of a day ahead of the clock -- which joins
the invariant (`RiskInv`).  On it rest `AppliedIsInForce` and `RestartKeepsRisk`: while
no engine runs, memory is what the last one knew, so a place that `Durable` speaks of
brings it back.

**Command channel** (`CommandChannelProofs`), for any commands, keys, outages,
crashes and lifetimes: `TypeCorrect`, `NoRepeatWithoutCause`, `NoLossWithoutCause`.
A command is in many places at once: two stores, the reading of the robot, and the
readings of panel writes that are half done.  What makes the causes complete is

    Spent == what was acted on and has no cause to come back is nowhere, or is
             just being cleared
    Kept  == what came is stored, was acted on, or is gone for a cause

with `Origin`, that nothing is anywhere that was not sent, or stored by a send that
has not ended: by a write to Redis or a request over HTTP whose answer got lost.  Every step is a move of the panel or of the robot on the stores
(`PanelMoves`, `RobotMoves`), and the invariant is kept by moves.
`OnceWithoutRaces` has the premise `~Outages /\ ~Crashes`: then no file is ever
written (`Direct`), the robot works through each clearing (`Steady`), and the clearing
leaves nothing behind but what a panel write brings back (`OnceSpent`).

**Entry path** (`EntryOrderProofs`), for any number of engines and timeframes:
`TypeCorrect` and `NeverTwoOrders` (`AtMostOneOrder`).  That no candle is traded twice
is not inductive.  The invariant adds `Reserved` (with Redis, every request's signal
is claimed), which is all that engines over a shared Redis need; and for a single
engine without it `NotAhead` (no cursor and no order is ahead of the closed bars),
`Untried` (what is about to be sent was not attempted) and `Remembered`: as long as
nothing dies, every request is in the memory of attempts; and as long as the history
ends with the last closed bar, no cursor will come back to a bar that was traded
(`DoneWith`, `StaysDone`), also not after a restart, when the first bar an engine
sees only sets its cursor.  With both restarts and old bars neither holds, and
the code does trade a candle twice.

`ImplementsProtocol` is the refinement, for engines that share Redis
(`Shared`): initial states map to initial states, and each action to the action
of `EntryProtocol` its code stands for or to a stutter.  The map reads claims and
orders, so the steps need `ProtocolInv`: an engine that waits for an answer has a
claim without an outcome for it, and no claim or order is for a signal outside the
protocol's.

The last part of `EntryOrderProofs` has the limits: `OneEntryATick` (under answers),
`CapAlwaysKept` and `OneWayAlwaysKept` (under answers, without crashes and lag).
These conditions are part of the properties.  The invariant says
when an engine's flag for this tick is raised (`TickOK`), and that, as long as nothing
has gone wrong (`Calm`), the engine sees every position (`NothingUnseen`) and what it
is about to ask for fits beside them (`RoomKept`, `SideKept`).

**Trade ledger** (`TradeLedgerProofs`), for any number of positions, any prices,
distances and worlds: every invariant of the run (`TypeCorrect`, `OneRiskAlwaysFirst`,
`OnlyClosedAreRecorded`, `EntryRowAlwaysFixesRisk`) and the action property
(`StopsNeverBack`).  None of the four safety properties is inductive, for two
reasons.  A start brings back rows and baselines from Redis, so what is claimed of
memory must hold of that copy, in one predicate for both (`Good`: rows that say
closed are right, baselines agree with the row of the order, and a baseline that is
too small or armed belongs to a position that has seen its first risk unit).
And the engine moves a stop to a value it computed from a reading three steps
earlier, so the reading must still be true (`StopsRead`), the request must not be
a step back (`StopsAsked`), and the two stages must exclude each other (`Stages`).
The proof goes through the trailing rules first (`RestoredIsBase`,
`ObservedIsReal`, `CandidateIsStop`, `AppliedIsForward`), then the larger actions
one position at a time (`Decided`, `Reconciled`, `Synced`), then stops, memory and
copies separately.

**Connection and engine loop** (`EngineLoopProofs`), for any number of session ids,
attempts and timeframes polled at once: `TypeCorrect`, `HandshakesUnderLock`, `SessionsAccounted`,
`QuietBetweenEngines`.  A task may be cut off at every await, so the claims must hold
in the middle of each call.  `LockUsed` says that who has the lock is in the
handshake, closes a session, or was just handed it; `Accounted`, that every session
is in force, known to a task or lost for a listed reason; `OpensAlone`, that while
one task opens a session nobody else puts one in force; `StageOK`, what is idle
between two engines; that an engine ends only when its pollers are out is part of it
(`PollersOut`).  Every step of the connector is one of a few `Moves`
(of the lock, the session in force, the sessions at the bridge), and the invariant is
shown for moves, not for the two dozen places in the code.

**Notifications** (`NotificationsProofs`), for any events, chats, queues, lives and
attempts: `TypeCorrect`, `NoRepeatWithoutCause`, `NoSilenceWithoutCause`, `LatestIsTold`
and the action property `AnnouncedOnce` (`OnceALife`).  What was delivered must stay
known to the panel or to Redis (`StillKnown`, `ClaimsKept`), what was published must be
in a queue, in a handler's hands or known (`NotForgotten`), no event is in two places
at a time unless it may be repeated (`Single`, `OneCopy`), and the last event about
the link is the newest one on its way, or has arrived (`InOrder`).

**Decisions** (`DecisionsProofs`): `OnlyClosedCandles`, `OneAuthority`
(`BoundaryAgrees`), `QuotaKept`, `CooldownAlwaysKept`.  An entry under way was
allowed when it was decided; `StillAllowed` says that it still is, since rows are only
added by its own answer, and `Remembered` that the last answered entry of this process
is the one the cooldown compares with.  `BoundaryAgrees` is an argument about the two
operators: every plan that `Decide` returns for a consistent reading passes the
tests of the boundary.

The other two results are about what an order is worth (`WorthInvariance`), for any
prices, spreads, distances and truthful reports.  `RewardLostOnlySo` (`RewardLost`): a
target outside of ranges is twice the risk away, since FIXED_TP_RR is 2.00
(`PlanAssumption`), and apart from high volatility no regime asks for more than 1.8
of it (`CalmPlan`); at the quote no target comes nearer (`TargetKept`), so a reward
that no longer suffices means a risk of more than 20/18 of the plan's, which is the
ninth of the property (`LostToWidening`).  `AlwaysSizedByTruth` (`SizedByTruth`)
follows a report from its sections to the order: a volume is converted once, to what
the broker means or, where the bridge gives plain lots, to its Scale-th part
(`Converted`, `NormalIsTrue`); a zero is refused; what is
read is the first value of a section that has one (`FirstIs`), and the value of a tick
or a contract only when a label, or its absence, puts it in the account's currency
(`TrueParams`, `SpecIsTrue`); replacing the tick size touches nothing else
(`TickSet`); and of several requests the tick size that stays behind in the cache is
the broker's (`FetchIsTrue`).  That last fact is the third part of the invariant
`WorthInv`: without it the property would not survive the next order.

**Risk budget** (`RiskBudgetProofs`), for any prices, limits, volumes and stop levels,
any number of orders and late changes, and any list the bridge may give:
`TypeCorrect`, `BudgetKept` (`WithinBudget`) and the action property
`StopsBackOnlyLate` (`StopGoesBackLate`).  Money is counted piece by piece: `AtRisk` is
a set of numbered pieces of each ticket, so a total is a cardinality, and adding a
position is adding a set, with no induction over a sum.  `WithinBudget` is not
inductive, since an order is sized by a list read earlier, and fills and stops that
move come between.  What a later order has to count is split into what fills lost
beyond the price asked for and the rest:

    Excess(p)  == what p risks beyond the loss of its fill
    Committed  == the pieces of excess of listed positions, and of listed orders' risk
    Kept       == Cardinality(Committed) <= Limits.aggregate

A fill has no more excess than its order had risk (`FillAdds`), and a stop that moves
leaves none (`MovedStop`), since every change asks for a stop that is not behind the
baseline (`AheadOfBase`) and the baseline is the fill's price or the one asked for
(`OfPositions`).  So commitments only shrink until the next order is sent, the list
it was sized by showed no less than its positions still have (`ListHolds`), and the
volume fits beside that list (`LotsFit`).

That a volume fits would also hold of one that is too small, or of none.
`GreatestVolume` says the rest: every volume of the broker's grid that fits under both
limits is at most the one the sizing takes, so it refuses only if there is none.
`SentAsSized`: the executor's own floor leaves it as it is.

**Only model-checked**

Every safety property of the runs that are expected to pass is stated by a theorem.
What stays with TLC is liveness (`ForcedResumeIsRepaused`, `SentIsActedOn`,
`ClosedIsRecorded`, `WorksAgain`, `Settles`), which rests on fairness and ENABLED and
is out of this prover's reach.  So are results by induction over data; no property
needs one, because the sums that they are about are written as cardinalities of sets.

## 6. What is not modelled

* Indicators (averages, ATR, directional movement), the search for pivots and zones in
  older candles, and the scores of the smart-money, Wyckoff, divergence and dollar
  engines: numbers over long windows, given here as facts or as a bonus.  The filter
  on higher timeframes is locked off in the code and left out; so are news and other
  filters that are diagnostic only.
* Digits: prices are whole points, so the rounding of an order's stop to the broker's
  digits, and of a moved stop to two, is not modelled.
* The ATR that protects a stop comes from a cache of the higher timeframe, which is
  filed under the candle that was polled and not the one that was fetched
  (`live_loop.py:1337`); here it is a constant.
* A broker that changes the tick size while the robot has it cached.
* A list of positions that is right about which positions there are but tells an
  older stop of one.  `TradeLedger` reads the current stop with every list it gets;
  what a stale stop could do (a candidate compared with it) is not examined.
* A message that the Telegram servers deliver after its attempt has timed out and
  later messages have arrived: a failed attempt has arrived or never does.
* The claim of a signal expires after seven days; no behaviour here is that long.
* The figures of a history row (profit, times, reasons) and the daily profit
  computed from them.
* The length of the supervisor's back-off, health endpoints, candle and deal parsing.
* Of the panel: sessions and rate limit (one test of a clock each, without state that
  another part could contradict), menus and texts, the age of the heartbeat, the
  robot's status edges, cooldowns, and the expiry of a claim after thirty days.
* The database, encryption, the bridge image, front-end artifacts and the
  offline backtester: I/O, libraries or programs apart.

## 7. Plan

The order is by what an error costs.  All of it is done, as far as the prover reaches.

1. **Risk control**: `Guardian`, `RiskControl`; proofs of types, durability,
   baselines, sticky halts.
2. **Command channel**: `CommandChannel`, with a list of causes instead of a
   promise it does not keep.
3. **Entry path**: abstract `EntryProtocol`, detailed `EntryOrder`; proof that
   a candle is not traded twice.
4. **Trade ledger**: `TradeLedger`; proofs of all its safety properties.
5. **Connection and EngineLoop**: the session, the stages, the watchdog, and that they
   come back.
6. **Notifications**: queues, claims, delivery.
7. **Sizing and the risk budget**, with late requests.
8. **Decisions**: candles, patterns, regimes, policies and the report of the symbol, up
   to the order boundary.
9. **Theorems**: the inductive invariant of every component, each safety property of
   its runs, and the refinement of `EntryProtocol`; liveness stays with TLC.

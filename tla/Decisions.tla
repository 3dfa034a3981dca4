----------------------------- MODULE Decisions -----------------------------
(***************************************************************************)
(* From a closed candle to an order: the cursor over the candles, the      *)
(* decision, the gates of the loop that look at earlier entries, and the   *)
(* order boundary that looks at the decision, the broker's report of the   *)
(* symbol and the quote again (live_trading/trading/live_loop.py).         *)
(*                                                                         *)
(* One loop and one timeframe; candles are numbered.  The windows, the     *)
(* facts of the market and the circumstances of a candle are any of the    *)
(* given ones, so what a run decides does not depend on how they follow    *)
(* each other.  That a candle is entered once, the positions and slots     *)
(* and the shared claim are EntryOrder's, the volume RiskBudget's; here    *)
(* they may stop an order at any time.                                     *)
(***************************************************************************)
EXTENDS EntryPolicy, SymbolSpec, CandleFeed

CONSTANTS
    Windows, Facts, Circumstances,  \* what a candle may show
    AdxMin,          \* the least ADX of the quality filter on this timeframe
    Symbol, Timeframe,
    RangeMinVotes,   \* RANGE_MIN_CONFIRMATIONS
    MaxRange,        \* MAX_RANGE_TRADES_PER_SESSION
    SessionLength,   \* candles in a UTC day
    StaleAfter,      \* candles in two hours
    DriftLimits,     \* STALENESS_LIMIT_*, of strong and weak trends and of ranges
    Spread, Moves,   \* of the last quote; how far it is from the close
    StopLevels,      \* what the broker says of the distance of stops
    Answers,         \* what a request for the symbol may bring
    Truth,           \* what the broker means
    MaxCandle, MaxLives, MaxEntries  \* bounds of the model

ASSUME CandleAssumption ==
    /\ SessionLength \in Nat \ {0} /\ MaxCandle \in Nat /\ MaxRange \in Nat
    /\ Nothing \notin Nat \union [candle : Nat, side : Sides]

ASSUME QuoteAssumption ==
    /\ Spread \in Nat /\ Moves \subseteq Int
    /\ \A x \in Circumstances : x.close \in Int
    /\ \A levels \in StopLevels :
           {levels.stops, levels.freeze, levels.sl, levels.tp} \subseteq Nat \union {Nothing}

(* What arrives may be late, broken or in part, but it is this broker's.   *)
ASSUME ReportAssumption ==
    /\ \A f \in {"tickSize", "tickValue", "min", "step", "max"} : Truth[f] \in Nat \ {0}
    /\ \A v \in Plain : \E n \in 1 .. Truth[v] : Truth[v] = Scale * n
    /\ \A answer \in Answers \ {Nothing} : Truthful(answer.report, Truth)

VARIABLES
    candle,     \* the last candle that has closed
    seen,       \* _last_bar_times: the last one processed, or Nothing
    attempt,      \* the entry that is under way, or Nothing
    lastEntry,  \* _last_entry_bar_time, _last_entry_direction, or Nothing
    cachedTick,       \* _SYMBOL_TICK_SIZE_CACHE
    opened,     \* the entries made, whether the engine knows of them or not
    rows,       \* trade_history: those it has a row of
    life        \* the process

vars == <<candle, seen, attempt, lastEntry, cachedTick, opened, rows, life>>

-----------------------------------------------------------------------------
(* What the engine can decide and what the broker can be found to say.     *)

Verdicts ==
    LET readings == {ReadingOfWindow(w) : w \in Windows}
        markets == {MarketOf(f) : f \in {g \in Facts : Consistent(g)}}
    IN  {Decide(r, m, x, AdxMin, Symbol, Timeframe) :
            r \in readings, m \in markets, x \in Circumstances} \ {Refusal}

FetchedWith(cached) ==
    {LET fetch == Fetch(answers, cached)
     IN  [spec |-> SpecOf(fetch.params), tick |-> fetch.tick] :
        answers \in [1 .. Attempts -> Answers]}

FetchedFirst == FetchedWith(Nothing)
FetchedLater == FetchedWith(Truth.tickSize)

Fetched(cached) == IF cached = Nothing THEN FetchedFirst ELSE FetchedLater

Session(c) == c \div SessionLength

Stale(k) == Stamp(k) < candle - StaleAfter

(* What a request for the history finds at each moment. *)
Histories == [c \in 0 .. MaxCandle |-> FoundAt(c)]

-----------------------------------------------------------------------------
Init ==
    /\ candle = 0 /\ seen = Nothing /\ attempt = Nothing
    /\ lastEntry = Nothing /\ cachedTick = Nothing /\ opened = {} /\ rows = {} /\ life = 1

CandleCloses ==
    /\ candle < MaxCandle
    /\ candle' = candle + 1
    /\ UNCHANGED <<seen, attempt, lastEntry, cachedTick, opened, rows, life>>

(* _check_new_bars after a start: the candle found first is not entered. *)
Baseline ==
    /\ seen = Nothing
    /\ \E poll \in Histories[candle] : ~Stale(poll.last) /\ seen' = poll.last
    /\ UNCHANGED <<candle, attempt, lastEntry, cachedTick, opened, rows, life>>

(* A candle that _check_new_bars hands to the loop.                        *)
Triggers(t) == seen # Nothing /\ t > seen /\ ~Stale(t)

(* The history of the second request is older than the trigger: the cursor *)
(* has moved and the candle is lost.                                       *)
Lags ==
    /\ attempt = Nothing
    /\ \E poll, history \in Histories[candle] :
          /\ Triggers(poll.last) /\ history.last < poll.last
          /\ seen' = poll.last
    /\ UNCHANGED <<candle, attempt, lastEntry, cachedTick, opened, rows, life>>

RangeEntries(entries, session) ==
    {e \in entries : e.kind = "RANGE" /\ Session(e.candle) = session}

(* Mutant of QuotaLeft: the day is the one of the clock. *)
QuotaLeftToday(d, c) ==
    d.regime.kind = "RANGE" => Cardinality(RangeEntries(rows, Session(candle))) < MaxRange

(* RANGE entries are counted in the history, by the day of their candle. *)
QuotaLeft(d, c) ==
    d.regime.kind = "RANGE" => Cardinality(RangeEntries(rows, Session(c))) < MaxRange

Choppy == {"RANGE", "ACCUMULATION", "DISTRIBUTION", "HIGH_VOLATILITY"}

(* Mutant of Cooling: the wait is one candle. *)
CoolingBriefly(d, c) ==
    /\ lastEntry # Nothing /\ lastEntry.side = d.side
    /\ d.regime.kind \in Choppy
    /\ c - lastEntry.candle < 1

(* The cooldown of two candles after an entry on the same side. *)
Cooling(d, c) ==
    /\ lastEntry # Nothing /\ lastEntry.side = d.side
    /\ d.regime.kind \in Choppy
    /\ c - lastEntry.candle < 2

(* The gates of _on_new_bar that this module keeps. *)
Passes(d, c) ==
    /\ ActiveEntry(d, Symbol, Timeframe)
    /\ d.regime.kind = "RANGE" => Cardinality(d.votes) >= RangeMinVotes /\ d.votes # {}
    /\ QuotaLeft(d, c)
    /\ ~Cooling(d, c)

(* _on_new_bar up to the boundary.  The candle that is decided on is the   *)
(* last one of the history that was fetched.                               *)
Evaluate ==
    /\ attempt = Nothing
    /\ \E poll, history \in Histories[candle] :
          /\ Triggers(poll.last) /\ history.last >= poll.last
          /\ seen' = history.last
          /\ \/ attempt' = Nothing  \* refused, or stopped by a gate
             \/ \E d \in Verdicts :
                   /\ Cardinality(opened) < MaxEntries  \* bound of the model
                   /\ Passes(d, history.last)
                   /\ attempt' = [stage |-> "decided", candle |-> history.last,
                                clock |-> history.clock, decision |-> d,
                                reason |-> Nothing, prices |-> Nothing, spec |-> Nothing]
    /\ UNCHANGED <<candle, lastEntry, cachedTick, opened, rows, life>>

-----------------------------------------------------------------------------
(* _safe_entry_order, in the order of its tests.                           *)

Sound(d) ==
    /\ ActiveEntry(d, Symbol, Timeframe)
    /\ ~d.unsafe
    /\ StrongTrendConfirmed(d)

Refused(reason, prices) ==
    attempt' = [attempt EXCEPT !.stage = "refused", !.reason = reason, !.prices = prices]

(* What else may stop it: positions, slots, the volume, the claim. *)
Stopped ==
    /\ attempt # Nothing /\ attempt.stage \in {"decided", "refused"}
    /\ attempt' = Nothing
    /\ UNCHANGED <<candle, seen, lastEntry, cachedTick, opened, rows, life>>

(* The report of the symbol is fetched, then the quote; the plan is taken  *)
(* to the quote and sent, unless it is too far away or no longer worth it. *)
Priced(d, fetch, levels, quote) ==
    LET limit == DriftLimit(d.regime.kind, DriftLimits.strong, DriftLimits.weak, DriftLimits.range)
        prices == Rebased(d.side, d.plan, quote, levels)
    IN  IF \/ ~Constrained(levels) \/ fetch.spec = Nothing
           \/ ~Fresh(d.plan.entry, Executable(d.side, quote), limit)
           \/ ~Sendable(d.plan, prices)
        THEN attempt' = Nothing
        ELSE IF ~Rewarding(prices, d.minimumRR) THEN Refused("reward", prices)
        ELSE attempt' = [attempt EXCEPT !.stage = "sent", !.spec = fetch.spec]

Submit ==
    /\ attempt # Nothing /\ attempt.stage = "decided"
    /\ IF ~Sound(attempt.decision)
       THEN Refused("policy", Nothing) /\ UNCHANGED cachedTick
       ELSE \E fetch \in Fetched(cachedTick), levels \in StopLevels, move \in Moves :
               LET bid == attempt.decision.plan.entry + move
               IN  /\ cachedTick' = fetch.tick
                   /\ Priced(attempt.decision, fetch, levels, [bid |-> bid, ask |-> bid + Spread])
    /\ UNCHANGED <<candle, seen, lastEntry, opened, rows, life>>

Entry(logged) ==
    [candle |-> attempt.candle, side |-> attempt.decision.side, life |-> life, logged |-> logged,
     kind |-> IF attempt.decision.regime.kind = "RANGE" THEN "RANGE"
              ELSE IF attempt.decision.regime.kind \in Choppy THEN "choppy" ELSE "calm"]

InFlight == attempt # Nothing /\ attempt.stage = "sent"

(* The broker accepts: the row and the memory of the entry are written in  *)
(* one go.                                                                 *)
Answered ==
    /\ InFlight
    /\ opened' = opened \union {Entry(TRUE)}
    /\ rows' = rows \union {Entry(TRUE)}
    /\ lastEntry' = [candle |-> attempt.candle, side |-> attempt.decision.side]
    /\ attempt' = Nothing
    /\ UNCHANGED <<candle, seen, cachedTick, life>>

(* An error, a rejection, or an order that the broker carries out while    *)
(* its answer is lost: nothing is remembered.                              *)
Unanswered ==
    /\ InFlight
    /\ opened' \in {opened, opened \union {Entry(FALSE)}}
    /\ attempt' = Nothing
    /\ UNCHANGED <<candle, seen, lastEntry, cachedTick, rows, life>>

(* Moves of stops are rows as well, and of fifty rows the oldest goes. *)
RowsPushedOut ==
    /\ \E e \in rows :
          /\ \A f \in rows : e.candle <= f.candle
          /\ rows' = rows \ {e}
    /\ UNCHANGED <<candle, seen, attempt, lastEntry, cachedTick, opened, life>>

(* start() empties both copies of the history before it reads them: rows   *)
(* are found only if Redis missed that write, those of the last it took.   *)
Restart ==
    /\ life < MaxLives
    /\ life' = life + 1
    /\ opened' \in {opened} \union (IF InFlight THEN {opened \union {Entry(FALSE)}} ELSE {})
    /\ seen' = Nothing /\ attempt' = Nothing /\ lastEntry' = Nothing /\ cachedTick' = Nothing
    /\ rows' \in SUBSET rows
    /\ UNCHANGED candle

Next ==
    \/ CandleCloses \/ Baseline \/ Lags \/ Evaluate \/ Stopped \/ Submit
    \/ Answered \/ Unanswered \/ RowsPushedOut \/ Restart

Spec == Init /\ [][Next]_vars

-----------------------------------------------------------------------------
(* Properties.                                                             *)

(* No entry is decided on a candle that is still open, whichever endpoint  *)
(* the history comes from and however old the quote that dates it -- save  *)
(* for a quote without a time, or with one that names its zone, when the   *)
(* broker's clock is behind UTC.                                           *)
ClosedCandlesOnly ==
    attempt # Nothing /\ attempt.candle > candle =>
        attempt.clock = "utc" /\ Offset < 0

(* The engine and the boundary are two authorities over the same decision, *)
(* in different modules: an entry that run_decision_engine has approved is *)
(* never turned down by the policy, breakout and strong-trend tests that   *)
(* _safe_entry_order repeats.                                              *)
BoundaryAgrees == attempt # Nothing /\ attempt.stage = "refused" => attempt.reason # "policy"

(* Taking a plan to the last quote (_rebase_order_prices) costs it the     *)
(* reward its regime asks for (FINAL_RR_BELOW_REGIME_MINIMUM) only if the  *)
(* plan had nothing to spare, as in a range and in high volatility, or if  *)
(* spread and broker have widened its risk by more than a ninth.           *)
RewardLost ==
    attempt # Nothing /\ attempt.stage = "refused" /\ attempt.reason = "reward" =>
        LET d == attempt.decision p == attempt.prices
        IN  \/ d.regime.kind \in {"RANGE", "HIGH_VOLATILITY"}
            \/ 9 * Abs(p.entry - p.stop) > 10 * Abs(d.plan.entry - d.plan.stop)

(* Of one session the history never shows more RANGE entries than          *)
(* MAX_RANGE_TRADES_PER_SESSION, although candles are entered late, after  *)
(* their day is over, and decided on while an order is under way.          *)
RangeQuota ==
    \A s \in 0 .. Session(MaxCandle + 1) : Cardinality(RangeEntries(rows, s)) <= MaxRange

(* What the comment at live_loop.py:1975 says: the rows are restored, so   *)
(* that no restart resets the limit.                                       *)
RangeQuotaOutlivesRestart ==
    \A s \in 0 .. Session(MaxCandle + 1) :
       Cardinality(RangeEntries({e \in opened : e.logged}, s)) <= MaxRange

(* Two entries on one side less than two candles apart, the later one in a *)
(* choppy regime, only happen where the code cannot know: the earlier one  *)
(* was not answered, or the process has restarted since.                   *)
CooldownKept ==
    \A e, f \in opened :
       /\ e.side = f.side /\ f.kind \in {"RANGE", "choppy"}
       /\ e.candle < f.candle /\ f.candle < e.candle + 2
       => ~e.logged \/ e.life # f.life

(* A volume of the specification is the broker's own, or the Scale-th part *)
(* of it if the bridge may give it in plain lots.                          *)
Meant(x, v) ==
    \/ x = Truth[v]
    \/ v \in Plain /\ Scale * x = Truth[v]

(* An order is sized with the broker's own volumes and with the true worth *)
(* of a move of the price, however its report arrived.  Two things can     *)
(* stand in for the truth: a volume in plain lots is converted once all    *)
(* the same, and so is Scale times too small, which no check notices; and  *)
(* while no report of this process has had a tick size, the setting is     *)
(* the tick size.                                                          *)
SizedByTruth ==
    InFlight =>
        /\ \A v \in {"min", "step", "max"} : Meant(attempt.spec[v], v)
        /\ \/ cachedTick = Nothing
           \/ attempt.spec.tickValue * Truth.tickSize = Truth.tickValue * attempt.spec.tickSize

(* volume_units.py:53 promises a "fail-closed reason for implausible       *)
(* converted lot constraints", so that no order would be sized with        *)
(* volumes that are not the broker's.                                      *)
OwnVolumesOnly ==
    InFlight => \A v \in {"min", "step", "max"} : attempt.spec[v] = Truth[v]

=============================================================================

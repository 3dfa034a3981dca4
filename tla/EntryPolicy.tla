---------------------------- MODULE EntryPolicy ----------------------------
(***************************************************************************)
(* From a reading of price action and a reading of the market to an entry: *)
(*   live_trading/signals/entry_filter.py     who decides the direction    *)
(*   live_trading/signals/decision_engine.py  the gates, the stop, the     *)
(*                                            target                       *)
(*   live_trading/signals/confidence_engine.py, quality_filter.py          *)
(*   live_trading/trading/active_entry_policy.py                           *)
(*                                                                         *)
(* The engines of smart money, Wyckoff and the dollar index have no vote;  *)
(* what Wyckoff, liquidity and divergence add to the confidence comes with *)
(* the circumstances of a candle:                                          *)
(*   session   "PRIME", "MODERATE" or "BLOCKED" (a time that is no time)   *)
(*   severe    the market is compressed as _is_severe_range says           *)
(*   late      the entry is late as _is_late_entry says                    *)
(*   bonus     of a side, hundredths of points of confidence               *)
(*   close     the close of the candle, the entry                          *)
(*   support, resistance   of the range before the candle, or Nothing      *)
(*   affordable  the least volume is within the risk of the account        *)
(* The filter on higher timeframes is locked off and RANGE_TRADING_ENABLED *)
(* is assumed; the other settings of the call change nothing here.         *)
(***************************************************************************)
EXTENDS PriceAction, Market

CONSTANTS
    PaFloor,        \* PA_STANDALONE_MIN_SCORE, in hundredths
    TrendFloor,     \* TREND_STANDALONE_MIN_SCORE
    PaAlone,        \* PRICE_ACTION_STANDALONE
    TrendAlone,     \* TREND_STANDALONE
    MinConfidence,  \* NORMAL_MIN_CONFIDENCE and RANGE_MIN_CONFIDENCE, hundredths
    HardConfidence, \* CONF_HARD_MIN, hundredths
    Atr,            \* the ATR of the protective stop, in points
    BaseStop, QuietStop, MinStop, StopBuffer,  \* SL multipliers, hundredths
    FixedReward     \* FIXED_TP_RR, in tenths

(* FIXED_TP_RR is 2.00 (capital_manager.py:14), and no setting changes it. *)
ASSUME PlanAssumption ==
    /\ Atr \in Nat /\ {BaseStop, QuietStop, MinStop, StopBuffer} \subseteq Nat
    /\ FixedReward \in Nat /\ FixedReward >= 20

ReadingOfWindow(w) == ReadingOf(w, PaFloor)

-----------------------------------------------------------------------------
(* Who decides (entry_filter.py).                                          *)

(* trend_standalone_ok, pa_standalone_ok *)
TrendQualifies(m) ==
    TrendAlone /\ m.trend # "NEUTRAL" /\ Toward(m.trend, m.score) >= TrendFloor

PaQualifies(r) == PaAlone /\ r.signal # "NEUTRAL" /\ r.score >= PaFloor

(* select_independent_direction: both agree, or one is strong enough on    *)
(* its own; of two that disagree, the one further above its floor.         *)
Direction(r, m) ==
    IF m.trend # "NEUTRAL" /\ m.trend = r.signal THEN m.trend
    ELSE IF TrendQualifies(m) /\ PaQualifies(r)
         THEN IF Abs(m.score) - TrendFloor >= r.score - PaFloor THEN m.trend ELSE r.signal
    ELSE IF TrendQualifies(m) THEN m.trend
    ELSE IF PaQualifies(r) THEN r.signal
    ELSE "NEUTRAL"

(* apply_entry_filter: the engines that vote for the direction, and        *)
(* whether that is enough.                                                 *)
Votes(side, r, m) ==
    {engine \in {"trend", "price_action"} :
       side = (IF engine = "trend" THEN m.trend ELSE r.signal)}

Enough(side, r, m) ==
    \/ Cardinality(Votes(side, r, m)) = 2
    \/ "trend" \in Votes(side, r, m) /\ TrendQualifies(m)
    \/ "price_action" \in Votes(side, r, m) /\ PaQualifies(r)

(* _range_trend_breakout_block_reason: in a range both engines have to     *)
(* agree, on a breakout or a pullback.                                     *)
RangeBreakout(side, r, m) ==
    Cardinality(Votes(side, r, m)) = 2 /\ side \in r.structure

(* The gates of run_decision_engine on a direction.  The filter of two     *)
(* votes is not asked in a range, which has its own.                       *)
Authorised(side, r, m) ==
    /\ side \in Sides
    /\ IF m.regime.kind = "RANGE" THEN RangeBreakout(side, r, m) ELSE Enough(side, r, m)
    /\ side \in AllowedSides(m.regime)

-----------------------------------------------------------------------------
(* Confidence and quality.                                                 *)

TrendPoints(side, m) ==
    IF m.trend = "NEUTRAL" THEN 700
    ELSE IF m.trend # side THEN 0 ELSE IF m.strong THEN 2000 ELSE 1400

(* The points of price action: of its patterns, or of its score alone. *)
PaPoints(side, r) ==
    IF PaAlone /\ r.signal = side
    THEN Max({r.evidence[side], Min({3500, 2800 + 20 * r.score})})
    ELSE r.evidence[side]

VolatilityPoints(m, session) ==
    Min({500, (CASE session = "PRIME" -> 250 [] session = "MODERATE" -> 100 [] OTHER -> 0)
              + (IF m.adx >= 30 THEN 150 ELSE If(m.adx >= 20, 75))
              + (IF m.volatility > 150 THEN 50 ELSE If(m.volatility >= 80, 100))})

(* calc_confidence, rounded to tenths of a point. *)
Confidence(side, r, m, x) ==
    LET total == TrendPoints(side, m) + PaPoints(side, r)
                 + VolatilityPoints(m, x.session) + x.bonus[side]
        bounded == Max({0, Min({10000, total})})
    IN  ((bounded + 5) \div 10) * 10

(* apply_quality_filter *)
Quality(m, x, adxMin) ==
    /\ x.session # "BLOCKED"
    /\ ~(m.adx < 14 /\ x.severe)
    /\ ~x.late
    /\ m.adx >= adxMin

-----------------------------------------------------------------------------
(* Stop and target.                                                        *)

(* calc_trade_parameters as run_decision_engine calls it: only a range     *)
(* gives levels, the near end for the stop and the far end for the target, *)
(* if the close has not passed them.                                       *)
PlanFor(side, m, x) ==
    LET inRange == m.regime.kind = "RANGE"
        end(s) == IF s = "BUY" THEN x.resistance ELSE x.support
        level(s) == IF inRange /\ end(s) # Nothing /\ Gain(s, x.close, end(s)) > 0
                    THEN end(s) ELSE Nothing
        least == (Atr * MinStop) \div 100
        envelope == [max |-> Max({least, StopReach(m.regime, Atr, BaseStop, QuietStop)}),
                     min |-> least,
                     buffer |-> (Atr * StopBuffer) \div 100]
        stop == StopPlan(side, x.close, {level(Opposite(side))} \ {Nothing}, envelope)
    IN  [entry |-> x.close, stop |-> stop.stop, valid |-> stop.valid,
         target |-> Target(side, x.close, stop.stop, level(side),
                           IF inRange THEN RangeMinRR ELSE FixedReward)]

(* risk_reward_ratio >= rr, both in tenths *)
Rewards(plan, rr) == 10 * Abs(plan.target - plan.entry) >= rr * Abs(plan.entry - plan.stop)

-----------------------------------------------------------------------------
(* The live strategy (active_entry_policy.py).                             *)

(* evaluate_active_entry, of a decision d that the engine has approved. *)
ActiveEntry(d, symbol, timeframe) ==
    LET paOnly == "price_action" \in d.votes /\ "trend" \notin d.votes
    IN  /\ symbol = "XAUUSD" /\ timeframe = "5m"
        /\ paOnly => d.structural
        /\ d.trend # d.side => paOnly
        /\ d.votes # {}

(* Mutant of StrongTrendConfirmed: only the averages confirm. *)
StrongTrendByTrend(d) ==
    d.regime.kind = "STRONG_TREND" /\ d.adx >= 45 => d.trend = d.side

(* strong_trend_validation_reason: a regime that directional movement has  *)
(* named needs the averages or a breakout to confirm it.                   *)
StrongTrendConfirmed(d) ==
    d.regime.kind = "STRONG_TREND" /\ d.adx >= 45 =>
        /\ d.side = d.regime.side
        /\ d.trend = d.side \/ d.structural

-----------------------------------------------------------------------------
(* run_decision_engine: what it decides on a candle. *)

Refusal == [allowed |-> FALSE]

(* What it would send, before the gates on its worth.  A structure that    *)
(* the signal does not follow confirms nothing.                            *)
Draft(side, r, m, x) ==
    [allowed |-> TRUE, side |-> side, votes |-> Votes(side, r, m), trend |-> m.trend,
     regime |-> m.regime, adx |-> m.adx,
     structural |-> r.signal = side /\ side \in r.structure, unsafe |-> side \in r.unsafe,
     plan |-> PlanFor(side, m, x), minimumRR |-> MinimumReward(m.regime)]

(* The gates on the worth of a draft: confidence, quality, safety of the   *)
(* breakout, stop, volume and reward.                                      *)
Worthy(d, confidence, m, x, adxMin) ==
    /\ confidence >= HardConfidence
    /\ Quality(m, x, adxMin)
    /\ ~d.unsafe
    /\ d.plan.valid
    /\ x.affordable
    /\ confidence < MinConfidence => Rewards(d.plan, 13)
    /\ Rewards(d.plan, d.minimumRR)

Decide(r, m, x, adxMin, symbol, timeframe) ==
    LET side == Direction(r, m)
        d == Draft(side, r, m, x)
    IN  IF /\ Authorised(side, r, m)
           /\ Worthy(d, Confidence(side, r, m, x), m, x, adxMin)
           /\ ActiveEntry(d, symbol, timeframe)
        THEN d ELSE Refusal

=============================================================================

------------------------------- MODULE Market -------------------------------
(***************************************************************************)
(* The trend and the regime of the market, and what a regime asks of an    *)
(* entry (live_trading/signals/trend_engine.py, market_regime.py).         *)
(*                                                                         *)
(* The averages themselves are not computed.  A record of facts says what  *)
(* the code compares:                                                      *)
(*   stacked    the side in whose order the EMAs 50, 100 and 200 lie       *)
(*   beyond     the price is beyond the EMA 50 on that side                *)
(*   shallow    both slopes point that way and the price has come back no  *)
(*              further than a pullback may                                *)
(*   score      the score of the trend, from -100 to 100                   *)
(*   adx, di    the strength and the side of directional movement          *)
(*   volatility the ATR against its mean, in percent                       *)
(*   retraces   the side of the move over the last five candles            *)
(*   phase      the side of the Wyckoff phase: accumulation for BUY        *)
(* "NEUTRAL" stands for no side.                                           *)
(***************************************************************************)
EXTENDS Sizing

CONSTANTS
    HighVolFilter,  \* USE_ATR_HIGH_VOL_FILTER
    RangeMinRR      \* RANGE_MIN_RR, in tenths

Directions == Sides \union {"NEUTRAL"}

(* A score as a side sees it. *)
Toward(side, score) == IF side = "BUY" THEN score ELSE -score

(* Facts that agree with each other: the terms of the score that follow    *)
(* the stack and the price bound it.                                       *)
Consistent(f) ==
    /\ f.stacked = "NEUTRAL" => ~f.beyond /\ ~f.shallow
    /\ f.stacked # "NEUTRAL" /\ f.beyond => Toward(f.stacked, f.score) >= -40

(* analyze_trend: the averages and the price in order with a fair score,   *)
(* or a pullback while directional movement has not turned.                *)
Trending(side, f) ==
    /\ f.stacked = side
    /\ \/ f.beyond /\ Toward(side, f.score) >= 25
       \/ f.shallow /\ Toward(side, f.score) >= 8 /\ f.di = side

TrendOf(f) == IF Trending("BUY", f) THEN "BUY" ELSE IF Trending("SELL", f) THEN "SELL" ELSE "NEUTRAL"

(* strength "STRONG"; what is weaker is told apart only for display. *)
StrongTrend(f) == TrendOf(f) # "NEUTRAL" /\ Abs(f.score) >= 55 /\ f.adx >= 25

(* A regime and its side; the code has a name for each pair. *)
Regime(kind, side) == [kind |-> kind, side |-> side]

(* What is left when no trend has been found (detect_market_regime's end). *)
Sideways(f) ==
    CASE f.phase = "BUY" -> Regime("ACCUMULATION", "BUY")
      [] f.phase = "SELL" -> Regime("DISTRIBUTION", "SELL")
      [] OTHER -> Regime("RANGE", "NEUTRAL")

(* detect_market_regime, in the order of its tests.  A move that is strong *)
(* enough has the side of the directional movement, whatever the averages  *)
(* say; a trend that the last candles go against is a pullback.            *)
RegimeOf(f) ==
    LET trend == TrendOf(f)
        moving == IF f.di # "NEUTRAL" THEN f.di ELSE trend
    IN  IF HighVolFilter /\ f.volatility > 180 THEN Regime("HIGH_VOLATILITY", "NEUTRAL")
        ELSE IF f.volatility < 60 /\ f.adx < 20 THEN Regime("LOW_VOLATILITY", "NEUTRAL")
        ELSE IF f.adx >= 45 /\ moving # "NEUTRAL" THEN Regime("STRONG_TREND", moving)
        ELSE IF f.adx >= 30 /\ StrongTrend(f) THEN Regime("STRONG_TREND", trend)
        ELSE IF f.adx >= 20 /\ trend # "NEUTRAL" /\ f.retraces \in Sides \ {trend}
             THEN Regime("PULLBACK", trend)
        ELSE IF f.adx >= 20 /\ trend # "NEUTRAL" THEN Regime("WEAK_TREND", trend)
        ELSE Sideways(f)

-----------------------------------------------------------------------------
(* REGIME_RULES: the sides a regime allows, the reward it asks for in      *)
(* tenths of the risk, and its part of the distance of the stop.           *)

AllowedSides(regime) == IF regime.side = "NEUTRAL" THEN Sides ELSE {regime.side}

MinimumReward(regime) ==
    CASE regime.kind = "RANGE" -> RangeMinRR
      [] regime.kind \in {"PULLBACK", "ACCUMULATION", "DISTRIBUTION"} -> 18
      [] regime.kind = "HIGH_VOLATILITY" -> 20
      [] OTHER -> 15

(* In percent; a quiet market has an amount added to the multiplier of the *)
(* ATR instead (_protective_sl_atr_multiplier).                            *)
StopFactor(regime) ==
    CASE regime.kind = "RANGE" -> 80
      [] regime.kind = "WEAK_TREND" -> 90
      [] regime.kind = "PULLBACK" -> 95
      [] regime.kind = "HIGH_VOLATILITY" -> 130
      [] OTHER -> 100

(* The greatest distance of a stop from its entry, for an ATR in points    *)
(* and a base multiplier and an addition in hundredths.                    *)
StopReach(regime, atr, base, quietAdd) ==
    LET multiplier == IF regime.kind = "LOW_VOLATILITY" THEN base + quietAdd
                      ELSE (base * StopFactor(regime)) \div 100
    IN  (atr * (IF multiplier > 350 THEN 350 ELSE multiplier)) \div 100

(* What the rest of the engine reads of the facts. *)
MarketOf(f) ==
    [trend |-> TrendOf(f), strong |-> StrongTrend(f), score |-> f.score,
     regime |-> RegimeOf(f), adx |-> f.adx, volatility |-> f.volatility]

=============================================================================

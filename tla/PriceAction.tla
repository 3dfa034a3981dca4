---------------------------- MODULE PriceAction ----------------------------
(***************************************************************************)
(* What the price-action engine reads in a window of closed candles        *)
(* (live_trading/signals/price_action_engine.py).                          *)
(*                                                                         *)
(* The code spells every rule out twice, for bulls and for bears; here a   *)
(* rule is written once, for a side.  A window is a record:                *)
(*   bars      the last candles, a sequence of [open, high, low, close]    *)
(*   before    the close ten candles ago                                   *)
(*   pivots    of a side, the clustered levels that protect it: supports   *)
(*             for BUY, resistances for SELL                               *)
(*   zones     of a side, its [bottom, top]: demand for BUY, supply for    *)
(*             SELL                                                        *)
(* How levels and zones are found in the candles before the window is not  *)
(* modelled: any may be there.                                             *)
(***************************************************************************)
EXTENDS Sizing, Sequences

(* The thresholds of PaConfig and their multiples of the ATR, in points:   *)
(* least bodies and spans of a candle, the least move of a trend, how near *)
(* a level is, how far a candle may reach past it.                         *)
CONSTANT Pa

ASSUME PaAssumption ==
    Pa \in [engulfBody : Nat \ {0}, pinSpan : Nat \ {0}, strongBody : Nat \ {0},
            breakoutBody : Nat \ {0}, insideBody : Nat \ {0},
            move : Nat \ {0}, zone : Nat, near : Nat, extension : Nat]

Opposite(side) == IF side = "BUY" THEN "SELL" ELSE "BUY"

-----------------------------------------------------------------------------
(* Candles.                                                                *)

Current(w) == w.bars[Len(w.bars)]
Previous(w) == w.bars[Len(w.bars) - 1]

Body(c) == Abs(c.close - c.open)
Span(c) == c.high - c.low

(* _is_bull, _is_bear *)
Leans(side, c) == Gain(side, c.open, c.close) > 0

(* The end of a candle on the way of a side, and the other one. *)
Front(side, c) == IF side = "BUY" THEN c.high ELSE c.low
Back(side, c) == Front(Opposite(side), c)

(* _lower_wick for BUY, _upper_wick for SELL *)
Wick(side, c) == IF side = "BUY" THEN Min({c.open, c.close}) - c.low
                 ELSE c.high - Max({c.open, c.close})

(* _candle_touches_band *)
Touches(c, bottom, top, tolerance) ==
    c.low <= top + tolerance /\ c.high >= bottom - tolerance

(* _detect_patterns *)
Engulfs(side, w) ==
    LET c == Current(w) p == Previous(w)
    IN  /\ Leans(side, c) /\ Leans(Opposite(side), p)
        /\ Gain(side, p.close, c.open) <= 0 /\ Gain(side, p.open, c.close) >= 0
        /\ 100 * Body(c) >= 105 * Body(p) /\ Body(c) >= Pa.engulfBody

Pin(side, c) ==
    /\ Span(c) >= Pa.pinSpan /\ 10 * Body(c) <= 3 * Span(c)
    /\ Wick(side, c) >= 2 * Body(c)
    /\ 10 * Wick(Opposite(side), c) <= 4 * Wick(side, c)

Strong(side, c) ==
    /\ Leans(side, c) /\ 10 * Body(c) >= 6 * Span(c) /\ Body(c) >= Pa.strongBody
    /\ 5 * Gain(side, Back(side, c), c.close) >= 4 * Span(c)

-----------------------------------------------------------------------------
(* Levels.                                                                 *)

NearPivot(side, w) == \E l \in w.pivots[side] : Touches(Current(w), l, l, Pa.near)

Near(side, w) ==
    NearPivot(side, w) \/ \E z \in w.zones[side] : Touches(Current(w), z.bottom, z.top, Pa.near)

(* valid_bull_breakout, valid_bear_breakout: this candle closes beyond a   *)
(* level that the one before did not close beyond.                         *)
Breakout(side, w) ==
    LET c == Current(w)
    IN  /\ Leans(side, c) /\ Body(c) >= Pa.breakoutBody /\ 2 * Body(c) >= Span(c)
        /\ \E l \in w.pivots[Opposite(side)] :
              Gain(side, l, Previous(w).close) <= 0 /\ Gain(side, l, c.close) > 0

(* fake_bull_breakout, fake_bear_breakout: one of the three candles before *)
(* closed beyond a level and this one is back.                             *)
Fake(side, w) ==
    \E l \in w.pivots[Opposite(side)], i \in Max({1, Len(w.bars) - 3}) .. Len(w.bars) - 1 :
       Gain(side, l, w.bars[i].close) > 0 /\ Gain(side, l, Current(w).close) < 0

(* The levels a candle reaches back to; of a zone, its edge towards the side. *)
Retested(side, c, w) ==
    {l \in w.pivots[side] : Touches(c, l, l, Pa.zone)}
    \union {IF side = "BUY" THEN z.top ELSE z.bottom :
               z \in {y \in w.zones[side] : Touches(c, y.bottom, y.top, Pa.zone)}}

(* bullish_pullback, bearish_pullback: in a trend of ten candles, a level  *)
(* was reached back to and this candle closes on the right side of it.     *)
Pullback(side, w) ==
    LET c == Current(w)
    IN  /\ Gain(side, w.before, c.close) >= Pa.move
        /\ \E l \in Retested(side, Previous(w), w) \union Retested(side, c, w) :
              Gain(side, l, c.close) > 0
        /\ Leans(side, c)
        /\ \/ Gain(side, Front(side, Previous(w)), c.close) > 0
           \/ 100 * Body(c) >= 45 * Span(c)

Nested(inner, outer) ==
    /\ inner.high <= outer.high /\ inner.low >= outer.low
    /\ inner.high < outer.high \/ inner.low > outer.low
    /\ Span(inner) > 0 /\ Span(outer) > 0

(* The candles from which on, up to the one before the current, each lies  *)
(* within the one before it; the first of them is the outer mother.        *)
Mothers(w) ==
    {m \in 1 .. Len(w.bars) - 2 : \A i \in m .. Len(w.bars) - 2 : Nested(w.bars[i + 1], w.bars[i])}

(* _detect_inside_bar_breakout *)
InsideBreak(side, w) ==
    LET c == Current(w)
    IN  /\ Mothers(w) # {}
        /\ Leans(side, c) /\ Body(c) >= Pa.insideBody /\ 2 * Body(c) >= Span(c)
        /\ Gain(side, Front(side, w.bars[Min(Mothers(w))]), c.close) > 0

(* breakout_level: what the current candle broke, if it broke anything. *)
Broken(w) ==
    LET close == Current(w).close
        passed(side) == {l \in w.pivots[Opposite(side)] : Gain(side, l, close) > 0}
    IN  IF \E side \in Sides : InsideBreak(side, w)
        THEN Front(CHOOSE side \in Sides : InsideBreak(side, w), w.bars[Min(Mothers(w))])
        ELSE IF Breakout("BUY", w) THEN Max(passed("BUY"))
        ELSE IF Breakout("SELL", w) THEN Min(passed("SELL"))
        ELSE Nothing

(* breakout_overextended *)
Overextended(w) == Broken(w) # Nothing /\ Abs(Current(w).close - Broken(w)) > Pa.extension

-----------------------------------------------------------------------------
(* The signal.                                                             *)

If(condition, n) == IF condition THEN n ELSE 0

(* A breakout, an inside-bar breakout or a pullback. *)
Structural(side, w) == Breakout(side, w) \/ InsideBreak(side, w) \/ Pullback(side, w)

(* _compute_pa_signal: the weight of the patterns of a side, in tenths. *)
Weight(side, w) ==
    LET c == Current(w)
        total == If(Engulfs(side, w), 15)
                 + If(Pin(side, c), IF Near(side, w) THEN 15 ELSE 8)
                 + If(Strong(side, c), 10) + If(Breakout(side, w), 10)
                 + If(Pullback(side, w), 8) + If(InsideBreak(side, w), 12)
                 + If(Near(side, w), 5) - If(Fake(side, w), 15)
    IN  Max({0, total})

(* Patterns that need no score, and those that make a direction at all. *)
Clear(side, w) == Engulfs(side, w) \/ Breakout(side, w) \/ InsideBreak(side, w)

Trigger(side, w) ==
    \/ Clear(side, w)
    \/ Pullback(side, w)
    \/ Near(side, w) /\ (Pin(side, Current(w)) \/ Strong(side, Current(w)))

(* pa_score in hundredths: the greater weight of 6.5, rounded. *)
Score(w) ==
    LET score == (200 * Max({Weight("BUY", w), Weight("SELL", w)}) + 65) \div 130
    IN  Min({100, score})

Signals(side, w, floor) ==
    /\ Weight(side, w) > Weight(Opposite(side), w) /\ Weight(side, w) >= 10
    /\ Trigger(side, w)
    /\ Score(w) >= floor \/ Clear(side, w)

(* _calc_pa_score of the confidence engine, in hundredths of a point. *)
Evidence(side, w) ==
    LET c == Current(w)
        points == (IF Engulfs(side, w) THEN 4 ELSE IF Pin(side, c) THEN 3
                   ELSE If(Strong(side, c), 2))
                  + If(InsideBreak(side, w), 3) + If(Breakout(side, w), 2)
                  + If(Pullback(side, w), 1) + If(Near(side, w), 1) - If(Fake(side, w), 6)
    IN  100 * Max({0, Min({20, points})})

(* The answers of _entry_breakout_block_reason: a false breakout, one that *)
(* is too far gone, a level in the way without a breakout or a pullback.   *)
Unsafe(side, w) ==
    \/ Fake(side, w)
    \/ (Breakout(side, w) \/ InsideBreak(side, w)) /\ Overextended(w)
    \/ NearPivot(Opposite(side), w) /\ ~Structural(side, w)

(* analyze_price_action: what the rest of the engine reads in a window. *)
ReadingOf(w, floor) ==
    [signal |-> IF Signals("BUY", w, floor) THEN "BUY"
                ELSE IF Signals("SELL", w, floor) THEN "SELL" ELSE "NEUTRAL",
     score |-> Score(w),
     structure |-> {side \in Sides : Structural(side, w)},
     unsafe |-> {side \in Sides : Unsafe(side, w)},
     evidence |-> [side \in Sides |-> Evidence(side, w)]]

=============================================================================

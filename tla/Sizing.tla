------------------------------- MODULE Sizing -------------------------------
(***************************************************************************)
(* The arithmetic of an order: its stop and target, their re-anchoring on  *)
(* the last quote, and its volume under the two risk limits.               *)
(*   live_trading/risk/capital_manager.py   the stop of the decision       *)
(*   live_trading/trading/entry_guard.py    how old a signal price may be  *)
(*   live_trading/trading/live_loop.py      the broker's stop distances,   *)
(*                                          the prices that are sent       *)
(*   live_trading/risk/aggregate_risk.py    the volume                     *)
(*   live_trading/mt5/executor.py           the volume that is sent        *)
(*                                                                         *)
(* Prices count broker points, volumes the smallest change of a volume,    *)
(* and money what one of these volumes gains on one point.  The code works *)
(* with floats and rounds prices to the broker's digits; here both are     *)
(* exact, so the loop of size_order_for_aggregate_risk that takes steps    *)
(* back after a rounding has nothing to do.                                *)
(***************************************************************************)
EXTENDS Integers, FiniteSetsExt

CONSTANT Nothing   \* None

Sides == {"BUY", "SELL"}

Abs(n) == IF n < 0 THEN -n ELSE n

(* What a price has gained on another one, seen from a side. *)
Gain(side, from, to) == IF side = "BUY" THEN to - from ELSE from - to

(* A price moved in favour of a side. *)
Ahead(side, price, n) == IF side = "BUY" THEN price + n ELSE price - n

-----------------------------------------------------------------------------
(* The decision's stop and target (capital_manager.py).                    *)

(* The nearest of the levels that lie on the protective side: the order    *)
(* block, the swing and the support or resistance.                         *)
Structure(side, entry, levels) ==
    LET behind == {l \in levels : Gain(side, entry, l) < 0}
    IN  IF behind = {} THEN Nothing
        ELSE IF side = "BUY" THEN Max(behind) ELSE Min(behind)

(* _calc_smart_stop.  "envelope" holds the least and the greatest distance *)
(* and the buffer behind the structure, multiples of the ATR.  A structure *)
(* out of reach makes the plan invalid: clipping the stop would put it     *)
(* inside the structure.                                                   *)
StopPlan(side, entry, levels, envelope) ==
    LET level == Structure(side, entry, levels)
        raw == IF level = Nothing THEN envelope.max
               ELSE Abs(entry - level) + envelope.buffer
        distance == IF raw < envelope.min THEN envelope.min
                    ELSE IF raw > envelope.max THEN envelope.max ELSE raw
    IN  [valid |-> raw <= envelope.max, stop |-> Ahead(side, entry, -distance)]

(* calc_trade_parameters: a target that the range gives, if it is ahead of *)
(* the entry, or else a multiple of the distance of the stop.  Multiples   *)
(* and rewards count tenths of the risk.                                   *)
Target(side, entry, stop, level, rr) ==
    IF level # Nothing /\ Gain(side, entry, level) > 0 THEN level
    ELSE Ahead(side, entry, (rr * Abs(entry - stop)) \div 10)

-----------------------------------------------------------------------------
(* The last quote before the order.                                        *)

(* validate_entry_price_distance *)
Fresh(signalled, price, limit) == Abs(price - signalled) <= limit

(* staleness_limit_for_regime: a regime it does not know gets the tightest. *)
DriftLimit(regime, strong, weak, range) ==
    CASE regime \in {"STRONG_TREND", "HIGH_VOLATILITY"} -> strong
      [] regime = "WEAK_TREND" -> weak
      [] OTHER -> range

(* _broker_stop_constraints: the points a stop or a target must keep from  *)
(* the quote.  "own" is the level of the symbol group for it.              *)
Required(levels, own) ==
    LET given == {levels.stops, levels.freeze, own} \ {Nothing}
    IN  IF given # {} THEN Max(given)
        ELSE Max({levels.stops, levels.freeze, levels.sl, levels.tp} \ {Nothing})

(* Without any level the broker's constraints are unknown. *)
Constrained(levels) ==
    {levels.stops, levels.freeze, levels.sl, levels.tp} # {Nothing}

Executable(side, quote) == IF side = "BUY" THEN quote.ask ELSE quote.bid
Reference(side, quote) == IF side = "BUY" THEN quote.bid ELSE quote.ask

(* Mutant of Rebased: the target is taken from the quote of the stop. *)
RebasedAtQuote(side, plan, quote, levels) ==
    LET slDistance == Max({Abs(plan.entry - plan.stop), Required(levels, levels.sl) + 1})
        tpDistance == Max({Abs(plan.target - plan.entry), Required(levels, levels.tp) + 1})
    IN  [side |-> side,
         entry |-> Executable(side, quote),
         stop |-> Ahead(side, Reference(side, quote), -slDistance),
         target |-> Ahead(side, Reference(side, quote), tpDistance)]

(* _rebase_order_prices: the distances of the plan, widened to one point   *)
(* more than the broker asks for, taken from the quote that the broker     *)
(* compares them with.  Only positive prices can be sent.                  *)
Rebased(side, plan, quote, levels) ==
    LET slDistance == Max({Abs(plan.entry - plan.stop), Required(levels, levels.sl) + 1})
        tpDistance == Max({Abs(plan.target - plan.entry), Required(levels, levels.tp) + 1})
    IN  [side |-> side,
         entry |-> Executable(side, quote),
         stop |-> Ahead(side, Reference(side, quote), -slDistance),
         target |-> Ahead(side, Executable(side, quote), tpDistance)]

(* What _rebase_order_prices and _risk_reward_from_order_prices can work   *)
(* with (INVALID_REBASED_STOPS): the plan has distances, and no price is   *)
(* zero or less.  The quote's other price is between entry and stop.       *)
Sendable(plan, prices) ==
    /\ plan.stop # plan.entry /\ plan.target # plan.entry
    /\ prices.entry > 0 /\ prices.stop > 0 /\ prices.target > 0

(* The reward at the prices that are sent, against the regime's minimum.   *)
Rewarding(prices, minimumRR) ==
    10 * Abs(prices.target - prices.entry) >= minimumRR * Abs(prices.entry - prices.stop)

-----------------------------------------------------------------------------
(* The volume (aggregate_risk.py, executor.py).                            *)

(* risk_per_lot *)
RiskPerLot(prices) == Gain(prices.side, prices.stop, prices.entry)

(* position_risk_amount: a stop beyond the entry risks nothing. *)
RiskOf(p) ==
    LET distance == Gain(p.side, p.stop, p.entry)
    IN  IF distance > 0 THEN distance * p.lots ELSE 0

(* aggregate_open_risk.  A row is a position and its ticket.  The money is *)
(* counted piece by piece, each with its ticket and a number: of several   *)
(* rows of a ticket the worst counts.                                      *)
AtRisk(rows) == UNION {{r.ticket} \X (1..RiskOf(r)) : r \in rows}
OpenRisk(rows) == Cardinality(AtRisk(rows))

(* The greatest volume of the broker's grid that is not above one; the     *)
(* floor of both the sizing and _normalise_lot.                            *)
OnGrid(volume, spec) == spec.min + ((volume - spec.min) \div spec.step) * spec.step

(* Mutant of Lots: the limit on the total is forgotten. *)
LotsAlone(perLot, existing, limits, spec) ==
    LET affordable == limits.trade \div perLot
    IN  IF affordable < spec.min THEN Nothing
        ELSE OnGrid(IF affordable < spec.max THEN affordable ELSE spec.max, spec)

(* size_order_for_aggregate_risk, over a risk per lot that is positive:    *)
(* the volume, or Nothing if not even the least one fits.                  *)
Lots(perLot, existing, limits, spec) ==
    LET remaining == limits.aggregate - existing
        budget == IF limits.trade < remaining THEN limits.trade ELSE remaining
        affordable == budget \div perLot
        raw == IF affordable < spec.max THEN affordable ELSE spec.max
    IN  IF budget <= 0 \/ raw < spec.min THEN Nothing ELSE OnGrid(raw, spec)

(* Mutant of Normalised: a volume under the minimum goes on. *)
NormalisedAny(lots, spec) ==
    spec.min + ((lots - spec.min) \div spec.step) * spec.step - spec.min

(* _normalise_lot, on the way to the broker. *)
Normalised(lots, spec) ==
    IF lots < spec.min THEN Nothing
    ELSE OnGrid(IF lots < spec.max THEN lots ELSE spec.max, spec)

=============================================================================

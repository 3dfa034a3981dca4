----------------------------- MODULE RiskBudget -----------------------------
(***************************************************************************)
(* The risk the engine has open at the broker: orders that are sized from  *)
(* a list of positions and a quote, filled later at another price, and     *)
(* stops that are moved by requests of which the answer may never come.    *)
(*   live_trading/trading/live_loop.py   _safe_entry_order,                *)
(*                                       _manage_trailing_stop             *)
(*   live_trading/mt5/executor.py        place_market_order,               *)
(*                                       modify_position                   *)
(*   live_trading/risk/                  aggregate_risk, capital_manager,  *)
(*                                       adaptive_trailing_stop            *)
(*                                                                         *)
(* EntryOrder has the other guards of the entry path, TradeLedger what the *)
(* engine remembers of a position over restarts.  Balance and settings do  *)
(* not change here.                                                        *)
(***************************************************************************)
EXTENDS Sizing

CONSTANTS
    Prices,     \* bids
    Spread,     \* ask - bid
    Levels,     \* the structure a decision can see
    Envelope,   \* of the stop of a decision (StopPlan)
    RR,         \* reward of a decision, in tenths of its risk
    MinimumRR,  \* the reward a regime asks for, likewise
    Drift,      \* how far the price may be from the signal
    StopLevels, \* the broker's levels (Required)
    Limits,     \* [trade, aggregate]: of balance and the two percentages
    Spec,       \* [min, step, max]: the broker's volumes
    Gaps,       \* multiples of the ATR, for the chandelier stop
    MinStep,    \* TRAIL_MIN_STEP_PRICE
    MaxOrders,  \* bounds: the orders sent,
    MaxLate,    \* the stop changes that are late at a time
    Lagging     \* the bridge may leave positions out of its list

ASSUME BudgetAssumption ==
    /\ Prices \subseteq Nat \ {0} /\ Levels \subseteq Nat \ {0}
    /\ Spread \in Nat /\ Drift \in Nat /\ MinStep \in Nat /\ MaxOrders \in Nat
    /\ MaxLate \in Nat
    /\ Gaps \subseteq Nat
    /\ RR \in Nat \ {0} /\ MinimumRR \in Nat
    /\ Spec.min \in Nat \ {0} /\ Spec.step \in Nat \ {0}
    /\ Spec.max \in Nat /\ Spec.max >= Spec.min
    /\ Envelope \in [min : Nat, max : Nat, buffer : Nat]
    /\ {StopLevels.stops, StopLevels.freeze, StopLevels.sl, StopLevels.tp}
           \subseteq Nat \cup {Nothing}
    /\ Limits \in [trade : Nat, aggregate : Nat]
    /\ Lagging \in BOOLEAN

VARIABLES
    bid,
    book,    \* the open positions
    entry,   \* the entry path: its plan, or Nothing
    sent,    \* order requests the broker has not decided on
    asked,   \* stop changes the engine waits for
    late,    \* stop changes it no longer waits for
    base,    \* _trail_baselines
    orders,  \* number of orders sent
    unseen,  \* history: tickets a later order was sized without
    strayed  \* history: tickets with a stop change that was given up

vars == <<bid, book, entry, sent, asked, late, base, orders, unseen, strayed>>

Tickets == 1..MaxOrders

Quote == [bid |-> bid, ask |-> bid + Spread]

Init ==
    /\ bid \in Prices
    /\ book = {} /\ sent = {} /\ asked = {} /\ late = {} /\ unseen = {} /\ strayed = {}
    /\ entry = Nothing
    /\ base = << >>
    /\ orders = 0

-----------------------------------------------------------------------------
(* An entry.                                                               *)

(* A decision with valid parameters has passed the gates.  Trailing and    *)
(* entries are stages of one loop.                                         *)
Decide(side, levels) ==
    LET price == Executable(side, Quote)
        plan == StopPlan(side, price, levels, Envelope)
    IN  /\ entry = Nothing /\ asked = {}
        /\ orders < MaxOrders
        /\ plan.valid
        /\ entry' = [at |-> "list", side |-> side, entry |-> price, stop |-> plan.stop,
                     target |-> Target(side, price, plan.stop, Nothing, RR), rows |-> {}]
        /\ UNCHANGED <<bid, book, sent, asked, late, base, orders, unseen, strayed>>

(* The positions are read; one on the other side ends the path. *)
List(rows) ==
    /\ entry # Nothing /\ entry.at = "list"
    /\ rows \subseteq book
    /\ Lagging \/ rows = book
    /\ entry' = IF \A r \in rows : r.side = entry.side
                THEN [entry EXCEPT !.at = "size", !.rows = rows]
                ELSE Nothing
    /\ UNCHANGED <<bid, book, sent, asked, late, base, orders, unseen, strayed>>

(* The order, if the last quote still allows one. *)
Order ==
    LET prices == Rebased(entry.side, entry, Quote, StopLevels)
        lots == IF RiskPerLot(prices) > 0
                THEN Lots(RiskPerLot(prices), OpenRisk(entry.rows), Limits, Spec)
                ELSE Nothing
    IN  IF /\ Constrained(StopLevels)
           /\ Fresh(entry.entry, Executable(entry.side, Quote), Drift)
           /\ Sendable(entry, prices) /\ Rewarding(prices, MinimumRR)
           /\ lots # Nothing
        THEN [prices |-> prices, lots |-> Normalised(lots, Spec)]
        ELSE Nothing

(* From the quote to the request there is no await. *)
Send ==
    /\ entry # Nothing /\ entry.at = "size"
    /\ Order # Nothing
    /\ orders' = orders + 1
    /\ sent' = sent \cup {[ticket |-> orders', side |-> entry.side, entry |-> Order.prices.entry,
                           stop |-> Order.prices.stop, lots |-> Order.lots]}
    /\ entry' = [entry EXCEPT !.at = "sent", !.rows = {}]
    /\ unseen' = unseen \cup ({p.ticket : p \in book \cup sent} \ {r.ticket : r \in entry.rows})
    /\ UNCHANGED <<bid, book, asked, late, base, strayed>>

Refuse ==
    /\ entry # Nothing /\ entry.at = "size"
    /\ Order = Nothing
    /\ entry' = Nothing
    /\ UNCHANGED <<bid, book, sent, asked, late, base, orders, unseen, strayed>>

Awaited(o) == entry # Nothing /\ entry.at = "sent" /\ o.ticket = orders

(* The broker fills an order at its price of now, if the stop is still on  *)
(* the right side.  The engine that learns of it starts a baseline at the  *)
(* price it asked for; otherwise _restore_trail_baseline takes the         *)
(* position's own, before anything moves its stop.                         *)
Fill(o, told) ==
    LET price == Executable(o.side, Quote)
    IN  /\ o \in sent
        /\ told => Awaited(o)
        /\ Gain(o.side, o.stop, Reference(o.side, Quote)) > 0
        /\ sent' = sent \ {o}
        /\ book' = book \cup {[ticket |-> o.ticket, side |-> o.side, entry |-> price,
                               stop |-> o.stop, lots |-> o.lots, wanted |-> o.entry]}
        /\ LET from == IF told THEN o.entry ELSE price
           IN  base' = [t \in DOMAIN base \cup {o.ticket} |->
                           IF t = o.ticket
                           THEN [entry |-> from, risk |-> Abs(from - o.stop), best |-> from]
                           ELSE base[t]]
        /\ entry' = IF Awaited(o) THEN Nothing ELSE entry
        /\ UNCHANGED <<bid, asked, late, orders, unseen, strayed>>

Reject(o) ==
    /\ o \in sent
    /\ sent' = sent \ {o}
    /\ entry' = IF Awaited(o) THEN Nothing ELSE entry
    /\ UNCHANGED <<bid, book, asked, late, base, orders, unseen, strayed>>

(* The request times out; the order may still be filled. *)
OrderUnanswered ==
    /\ \E o \in sent : Awaited(o)
    /\ entry' = Nothing
    /\ UNCHANGED <<bid, book, sent, asked, late, base, orders, unseen, strayed>>

-----------------------------------------------------------------------------
(* A trailing stop (compute_adaptive_trail, should_apply).                 *)

(* The best price counts once it is 1R from the entry, which is when it is *)
(* better than all before; it stands for breakeven_armed as well.          *)
Seen(p, price) ==
    LET b == base[p.ticket]
    IN  IF Gain(p.side, b.entry, price) >= b.risk /\ Gain(p.side, b.best, price) > 0
        THEN [b EXCEPT !.best = price] ELSE b

AtBreakeven(p, b) == Gain(p.side, b.entry, p.stop) >= 0

(* Nothing before 1R, then the entry, then a distance from the best price. *)
Candidate(p, b, gap) ==
    IF Gain(p.side, b.entry, b.best) < b.risk \/ b.risk = 0 THEN Nothing
    ELSE IF ~AtBreakeven(p, b) THEN b.entry
    ELSE Ahead(p.side, b.best, -gap)

(* Mutant of Applies: any other stop. *)
AppliesAny(p, b, stop) == stop # Nothing /\ stop # p.stop

Applies(p, b, stop) ==
    /\ stop # Nothing
    /\ Gain(p.side, p.stop, stop) >= IF AtBreakeven(p, b) THEN MinStep ELSE 0

Trail(p, gap) ==
    LET b == Seen(p, Reference(p.side, Quote))
        stop == Candidate(p, b, gap)
    IN  /\ entry = Nothing
        /\ p \in book
        /\ \A c \in asked : c.ticket # p.ticket
        /\ base' = [base EXCEPT ![p.ticket] = b]
        /\ asked' = IF Applies(p, b, stop)
                    THEN asked \cup {[ticket |-> p.ticket, stop |-> stop]} ELSE asked
        /\ <<base', asked'>> # <<base, asked>>
        /\ UNCHANGED <<bid, book, entry, sent, late, orders, unseen, strayed>>

(* The broker moves a stop that the price has not passed. *)
MoveStop(c) ==
    \E p \in book :
        /\ p.ticket = c.ticket
        /\ Gain(p.side, c.stop, Reference(p.side, Quote)) > 0
        /\ book' = (book \ {p}) \cup {[p EXCEPT !.stop = c.stop]}

Modified(c) ==
    /\ c \in asked
    /\ MoveStop(c)
    /\ asked' = asked \ {c}
    /\ UNCHANGED <<bid, entry, sent, late, base, orders, unseen, strayed>>

NotModified(c) ==
    /\ c \in asked
    /\ asked' = asked \ {c}
    /\ UNCHANGED <<bid, book, entry, sent, late, base, orders, unseen, strayed>>

(* modify_position gives up after 60 seconds; the request may live on. *)
ChangeUnanswered(c) ==
    /\ c \in asked
    /\ Cardinality(late) < MaxLate
    /\ asked' = asked \ {c}
    /\ late' = late \cup {c}
    /\ strayed' = strayed \cup {c.ticket}
    /\ UNCHANGED <<bid, book, entry, sent, base, orders, unseen>>

ModifiedLate(c) ==
    /\ c \in late
    /\ MoveStop(c)
    /\ late' = late \ {c}
    /\ UNCHANGED <<bid, entry, sent, asked, base, orders, unseen, strayed>>

-----------------------------------------------------------------------------
(* The market.                                                             *)

Move ==
    /\ bid' \in Prices \cap {bid - 1, bid + 1}
    /\ UNCHANGED <<book, entry, sent, asked, late, base, orders, unseen, strayed>>

(* A position is closed, by its stop or otherwise, and with it what the    *)
(* engine remembers; a late change of its stop is void.                    *)
Close(p) ==
    /\ p \in book
    /\ book' = book \ {p}
    /\ base' = [t \in DOMAIN base \ {p.ticket} |-> base[t]]
    /\ asked' = {c \in asked : c.ticket # p.ticket}
    /\ late' = {c \in late : c.ticket # p.ticket}
    /\ unseen' = unseen \ {p.ticket}
    /\ strayed' = strayed \ {p.ticket}
    /\ UNCHANGED <<bid, entry, sent, orders>>

Next ==
    \/ \E side \in Sides, levels \in SUBSET Levels : Decide(side, levels)
    \/ \E rows \in SUBSET book : List(rows)
    \/ Send \/ Refuse \/ OrderUnanswered
    \/ \E o \in sent : Reject(o) \/ \E told \in BOOLEAN : Fill(o, told)
    \/ \E p \in book : Close(p) \/ \E gap \in Gaps : Trail(p, gap)
    \/ \E c \in asked : Modified(c) \/ NotModified(c) \/ ChangeUnanswered(c)
    \/ \E c \in late : ModifiedLate(c)
    \/ Move

BudgetSpec == Init /\ [][Next]_vars

-----------------------------------------------------------------------------
(* The engine's and the broker's records have their shape, and a ticket is *)
(* open at most once.                                                      *)
TypeOK ==
    /\ bid \in Prices
    /\ \A p \in book : /\ p.ticket \in 1..orders /\ p.side \in Sides
                       /\ p.lots \in Nat \ {0} /\ p.stop \in Int
    /\ \A p, q \in book : p.ticket = q.ticket => p = q
    /\ orders \in 0..MaxOrders /\ unseen \subseteq 1..orders
    /\ DOMAIN base \subseteq 1..orders /\ strayed \subseteq 1..orders
    /\ \A c \in asked \cup late : c.ticket \in 1..orders /\ c.stop \in Int

(* What a fill at a worse price than the quote's adds to the risk. *)
LostAtFill(p) == LET n == Gain(p.side, p.wanted, p.entry) IN IF n > 0 THEN n * p.lots ELSE 0
Slippage(positions) == Cardinality(UNION {{p.ticket} \X (1..LostAtFill(p)) : p \in positions})

(* The risk of all open positions stays under the limit on the total, save *)
(* for worse fills, however stops and prices move between the list of      *)
(* positions, the order and its fill.  Left out are positions that a later *)
(* order could not take into account, because the bridge did not list them *)
(* or their own order was still undecided.                                 *)
WithinBudget ==
    LET counted == {p \in book : p.ticket \notin unseen}
    IN  OpenRisk(counted) <= Limits.aggregate + Slippage(counted)

(* A stop goes back only after a change of it was given up: that change    *)
(* arrives late, or arrives before a newer one that asks for less.  Even   *)
(* then the position risks no more than its fill lost on the quote.        *)
StopGoesBackLate ==
    [][\A p \in book, q \in book' :
           (p.ticket = q.ticket /\ Gain(p.side, p.stop, q.stop) < 0) =>
               p.ticket \in strayed /\ RiskOf(q) <= LostAtFill(q)]_vars
=============================================================================

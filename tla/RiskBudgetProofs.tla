-------------------------- MODULE RiskBudgetProofs --------------------------
(***************************************************************************)
(* Why the open risk stays under the limit on the total, and why a stop    *)
(* goes back only by a change that was given up: for any prices, limits,   *)
(* volumes and distances, any number of orders and late changes, and any   *)
(* list of positions.  What an order may lose at its fill is left to the   *)
(* fill; what a position risks beyond that is never more than the list     *)
(* showed when a later order was sized, since every stop that is asked for *)
(* is at the entry or ahead of it.                                         *)
(***************************************************************************)
EXTENDS RiskBudget, FiniteSetTheorems, TLAPS

Orders == [ticket : Nat, side : Sides, entry : Int, stop : Int, lots : Nat \ {0}]
Positions == [ticket : Nat, side : Sides, entry : Int, stop : Int, lots : Nat \ {0},
              wanted : Int]
Changes == [ticket : Nat, stop : Int]
Baselines == [entry : Int, risk : Nat, best : Int]
Plans == [at : {"list", "size", "sent"}, side : Sides, entry : Int, stop : Int, target : Int,
          rows : SUBSET Positions]

(* The market, the plan and the numbers. *)
EngineOK ==
    /\ bid \in Prices /\ orders \in 0..MaxOrders
    /\ entry # Nothing =>
           /\ entry \in Plans /\ IsFiniteSet(entry.rows)
           /\ entry.at # "sent" => orders < MaxOrders
    /\ asked \cup late \subseteq Changes
    /\ base \in [DOMAIN base -> Baselines]
    /\ unseen \cup strayed \cup DOMAIN base \subseteq 1..orders

(* The broker has a ticket once, as an order or as a position. *)
BrokerOK ==
    /\ book \subseteq Positions /\ IsFiniteSet(book)
    /\ sent \subseteq Orders /\ IsFiniteSet(sent)
    /\ \A p \in book \cup sent : p.ticket \in 1..orders
    /\ \A p, q \in book : p.ticket = q.ticket => p = q
    /\ \A o, u \in sent : o.ticket = u.ticket => o = u
    /\ \A p \in book, o \in sent : p.ticket # o.ticket

(* Of every position there is a baseline, at its fill or at the price that *)
(* was asked for; only positions have changes, one that is waited for, and *)
(* late ones only if one was given up.                                     *)
OfPositions ==
    /\ \A p \in book : /\ p.ticket \in DOMAIN base
                       /\ base[p.ticket].entry \in {p.entry, p.wanted}
    /\ \A c \in asked \cup late : \E p \in book : p.ticket = c.ticket
    /\ \A c, d \in asked : c.ticket = d.ticket => c = d
    /\ \A c \in late : c.ticket \in strayed

(* No change asks for a stop behind the baseline, and none for one behind  *)
(* the stop that is in force unless a change was given up.                 *)
AheadOfBase ==
    \A p \in book, c \in asked \cup late : p.ticket = c.ticket =>
        /\ Gain(p.side, base[p.ticket].entry, c.stop) >= 0
        /\ p.ticket \notin strayed => Gain(p.side, p.stop, c.stop) >= 0

(* What a position risks beyond the loss of its fill, and what is so       *)
(* committed by the positions and orders a later order has to count.       *)
Excess(p) == IF RiskOf(p) > LostAtFill(p) THEN RiskOf(p) - LostAtFill(p) ELSE 0
Beyond(S) == UNION {{p.ticket} \X (1..Excess(p)) : p \in S}
Counted(S) == {p \in S : p.ticket \notin unseen}
Committed == Beyond(Counted(book)) \cup AtRisk(Counted(sent))

(* The list that was read shows no less than its positions still have.     *)
ListHolds ==
    entry # Nothing /\ entry.at = "size" =>
        /\ \A r \in entry.rows : r.ticket \in 1..orders
        /\ \A r \in entry.rows, o \in sent : r.ticket # o.ticket
        /\ \A r \in entry.rows, p \in book : r.ticket = p.ticket => Excess(p) <= RiskOf(r)

Kept == Cardinality(Committed) <= Limits.aggregate

IInv == EngineOK /\ BrokerOK /\ OfPositions /\ AheadOfBase /\ ListHolds /\ Kept

-----------------------------------------------------------------------------
(* Numbers. *)

(* A product grows with its first factor. *)
LEMMA Times ==
    ASSUME NEW a \in Int, NEW b \in Int, NEW n \in Nat, a <= b
    PROVE  a * n <= b * n
OBVIOUS

(* A product of a sum. *)
LEMMA Distributes ==
    ASSUME NEW a \in Int, NEW b \in Int, NEW n \in Nat
    PROVE  (a + b) * n = a * n + b * n
OBVIOUS

(* What dividing gives back is no more than what was divided. *)
LEMMA Divided ==
    ASSUME NEW a \in Int, NEW n \in Nat \ {0}
    PROVE  a \div n \in Int /\ (a \div n) * n <= a /\ (a >= 0 => a \div n >= 0)
OBVIOUS

(* A set of natural numbers has a least one. *)
LEMMA Least ==
    ASSUME NEW S \in SUBSET Nat, S # {}
    PROVE  \E x \in S : \A y \in S : x <= y
<1>1. \E x \in S : \A y \in S : ~ (<<y, x>> \in OpToRel(<, Nat))
    <2>1. IsWellFoundedOn(OpToRel(<, Nat), Nat)
        BY NatLessThanWellFounded
    <2>. QED
        BY <2>1, WFMin
<1>2. PICK x \in S : \A y \in S : ~ (<<y, x>> \in {ss \in Nat \X Nat : ss[1] < ss[2]})
    BY <1>1 DEF OpToRel
<1>3. ASSUME NEW y \in S PROVE x <= y
    <2>1. <<y, x>> \in Nat \X Nat /\ <<y, x>>[1] = y /\ <<y, x>>[2] = x
        OBVIOUS
    <2>2. ~(<<y, x>>[1] < <<y, x>>[2])
        BY <1>2, <2>1
    <2>. QED
        BY <2>1, <2>2
<1>. QED
    BY <1>3

(* The least of a set is in it. *)
LEMMA Minimum ==
    ASSUME NEW S \in SUBSET Nat, S # {}
    PROVE  Min(S) \in S
BY Least DEF Min

(* One that is bounded has a greatest. *)
LEMMA Maximum ==
    ASSUME NEW S \in SUBSET Nat, S # {}, NEW n \in Nat, \A x \in S : x <= n
    PROVE  Max(S) \in S /\ \A x \in S : x <= Max(S)
<1>. DEFINE U == {m \in Nat : \A x \in S : x <= m}
<1>1. PICK m \in U : \A k \in U : m <= k
    BY Least
<1>2. m \in S
    <2>1. SUFFICES ASSUME m \notin S PROVE FALSE
        OBVIOUS
    <2>2. \A x \in S : x \in Nat /\ x <= m - 1
        BY <1>1, <2>1
    <2>3. m - 1 \in Nat
        <3>1. PICK y \in S : TRUE
            OBVIOUS
        <3>2. y \in Nat /\ m \in Nat /\ y <= m - 1
            BY <1>1, <2>2
        <3>. QED
            BY <3>2
    <2>4. m - 1 \in U
        BY <2>2, <2>3
    <2>. QED
        BY <1>1, <2>4
<1>3. \E y \in S : \A x \in S : y >= x
    BY <1>1, <1>2
<1>. QED
    BY <1>3 DEF Max
-----------------------------------------------------------------------------
(* Stops and prices. *)

(* A plan has a stop and a target. *)
LEMMA StructureTyped ==
    ASSUME NEW side \in Sides, NEW price \in Int, NEW levels \in SUBSET Levels
    PROVE  Structure(side, price, levels) \in Int \cup {Nothing}
<1>. DEFINE behind == {l \in levels : Gain(side, price, l) < 0}
<1>1. behind \in SUBSET Nat
    BY BudgetAssumption
<1>2. CASE behind = {}
    BY <1>2 DEF Structure
<1>3. CASE behind # {} /\ side = "BUY"
    <2>1. \A l \in behind : l <= price
        BY <1>1, <1>3 DEF Gain
    <2>2. price \in Nat
        <3>1. PICK l \in behind : TRUE
            BY <1>3
        <3>2. l \in Nat /\ l <= price
            BY <1>1, <2>1
        <3>. QED
            BY <3>2
    <2>. HIDE DEF behind
    <2>3. Max(behind) \in behind
        BY <1>1, <1>3, <2>1, <2>2, Maximum
    <2>4. Structure(side, price, levels) = Max(behind)
        BY <1>3 DEF Structure, behind
    <2>5. Max(behind) \in Nat
        BY <1>1, <2>3
    <2>. QED
        BY <2>4, <2>5
<1>4. CASE behind # {} /\ side # "BUY"
    <2>. HIDE DEF behind
    <2>1. Min(behind) \in behind
        BY <1>1, <1>4, Minimum
    <2>2. Structure(side, price, levels) = Min(behind)
        BY <1>4 DEF Structure, behind
    <2>3. Min(behind) \in Nat
        BY <1>1, <2>1
    <2>. QED
        BY <2>2, <2>3
<1>. QED
    BY <1>2, <1>3, <1>4

(* The plan that a decision makes. *)
LEMMA PlanTyped ==
    ASSUME NEW side \in Sides, NEW price \in Int, NEW levels \in SUBSET Levels
    PROVE  LET plan == StopPlan(side, price, levels, Envelope)
           IN  /\ plan.stop \in Int
               /\ Target(side, price, plan.stop, Nothing, RR) \in Int
<1>. DEFINE level == Structure(side, price, levels)
            raw == IF level = Nothing THEN Envelope.max
                   ELSE Abs(price - level) + Envelope.buffer
            distance == IF raw < Envelope.min THEN Envelope.min
                        ELSE IF raw > Envelope.max THEN Envelope.max ELSE raw
            stop == Ahead(side, price, -distance)
<1>1. raw \in Int
    BY StructureTyped, BudgetAssumption DEF Abs
<1>. HIDE DEF raw
<1>2. distance \in Int
    BY <1>1, BudgetAssumption
<1>. HIDE DEF distance
<1>3. stop \in Int
    BY <1>2 DEF Ahead
<1>4. StopPlan(side, price, levels, Envelope).stop = stop
    BY DEF StopPlan, stop, distance, raw
<1>. HIDE DEF stop
<1>5. RR * Abs(price - stop) \in Int
    BY <1>3, BudgetAssumption DEF Abs
<1>6. Target(side, price, stop, Nothing, RR) \in Int
    BY <1>5 DEF Target, Ahead
<1>. QED
    BY <1>3, <1>4, <1>6

(* The distance the broker asks for, if it gives any level. *)
LEMMA RequiredTyped ==
    ASSUME NEW own \in {StopLevels.sl, StopLevels.tp}, Constrained(StopLevels)
    PROVE  Required(StopLevels, own) \in Nat
<1>. DEFINE num(x) == IF x \in Nat THEN x ELSE 0
            n == num(StopLevels.stops) + num(StopLevels.freeze)
                     + num(StopLevels.sl) + num(StopLevels.tp)
            given == {StopLevels.stops, StopLevels.freeze, own} \ {Nothing}
            all == {StopLevels.stops, StopLevels.freeze, StopLevels.sl, StopLevels.tp}
                       \ {Nothing}
<1>1. /\ given \in SUBSET Nat /\ all \in SUBSET Nat /\ all # {}
      /\ given \subseteq all
    BY BudgetAssumption DEF Constrained
<1>2. n \in Nat /\ \A x \in all : x <= n
    BY <1>1
<1>. HIDE DEF n
<1>3. Required(StopLevels, own) = IF given # {} THEN Max(given) ELSE Max(all)
    BY DEF Required
<1>. HIDE DEF given, all
<1>4. Max(all) \in Nat
    BY <1>1, <1>2, Maximum
<1>5. given # {} => Max(given) \in Nat
    BY <1>1, <1>2, Maximum
<1>. QED
    BY <1>3, <1>4, <1>5

(* The prices that are sent. *)
LEMMA RebasedTyped ==
    ASSUME NEW side \in Sides, NEW plan, plan.entry \in Int, plan.stop \in Int,
           bid \in Int, Constrained(StopLevels)
    PROVE  LET prices == Rebased(side, plan, Quote, StopLevels)
           IN  prices.side = side /\ prices.entry \in Int /\ prices.stop \in Int
<1>. DEFINE a == Abs(plan.entry - plan.stop)
            b == Required(StopLevels, StopLevels.sl) + 1
<1>1. a \in Int /\ b \in Int
    BY RequiredTyped DEF Abs
<1>. HIDE DEF a, b
<1>2. \E x \in {a, b} : \A y \in {a, b} : x >= y
    BY <1>1
<1>3. Max({a, b}) \in Int
    BY <1>1, <1>2 DEF Max
<1>4. Executable(side, Quote) \in Int /\ Reference(side, Quote) \in Int
    BY BudgetAssumption DEF Executable, Reference, Quote
<1>5. Ahead(side, Reference(side, Quote), -Max({a, b})) \in Int
    BY <1>3, <1>4 DEF Ahead
<1>. QED
    BY <1>4, <1>5 DEF Rebased, a, b
-----------------------------------------------------------------------------
(* The volume. *)

(* What the grid allows is between the least volume and the one wanted. *)
LEMMA OnTheGrid ==
    ASSUME NEW v \in Int, v >= Spec.min
    PROVE  OnGrid(v, Spec) \in Nat \ {0} /\ OnGrid(v, Spec) >= Spec.min /\ OnGrid(v, Spec) <= v
<1>. DEFINE n == (v - Spec.min) \div Spec.step
<1>1. Spec.min \in Nat \ {0} /\ Spec.step \in Nat \ {0} /\ v - Spec.min \in Nat
    BY BudgetAssumption
<1>2. n \in Int /\ n * Spec.step <= v - Spec.min /\ n >= 0
    BY <1>1, Divided
<1>. HIDE DEF n
<1>3. n * Spec.step \in Nat
    BY <1>1, <1>2
<1>. QED
    BY <1>1, <1>2, <1>3 DEF OnGrid, n

(* An order is affordable: what it risks fits under the limit on the total *)
(* beside what is at risk already, and under the limit of a trade.         *)
LEMMA LotsFit ==
    ASSUME NEW perLot \in Nat \ {0}, NEW existing \in Nat,
           Lots(perLot, existing, Limits, Spec) # Nothing
    PROVE  LET n == Normalised(Lots(perLot, existing, Limits, Spec), Spec)
           IN  /\ n \in Nat \ {0}
               /\ perLot * n <= Limits.trade
               /\ perLot * n + existing <= Limits.aggregate
<1>. DEFINE remaining == Limits.aggregate - existing
            budget == IF Limits.trade < remaining THEN Limits.trade ELSE remaining
            affordable == budget \div perLot
            raw == IF affordable < Spec.max THEN affordable ELSE Spec.max
            lots == OnGrid(raw, Spec)
            wanted == IF lots < Spec.max THEN lots ELSE Spec.max
            n == OnGrid(wanted, Spec)
<1>1. Limits.trade \in Nat /\ Limits.aggregate \in Nat /\ Spec.min \in Nat \ {0}
      /\ Spec.max \in Nat
    BY BudgetAssumption
<1>2. budget \in Int /\ budget <= Limits.trade /\ budget <= Limits.aggregate - existing
    BY <1>1
<1>3. affordable \in Int /\ affordable * perLot <= budget
    <2>. HIDE DEF budget
    <2>. QED
        BY <1>2, Divided
<1>4. raw \in Int /\ raw <= affordable /\ raw <= Spec.max
    <2>. HIDE DEF affordable
    <2>. QED
        BY <1>1, <1>3
<1>5. Lots(perLot, existing, Limits, Spec)
          = IF budget <= 0 \/ raw < Spec.min THEN Nothing ELSE lots
    BY DEF Lots
<1>. HIDE DEF raw, budget, affordable
<1>6. raw >= Spec.min /\ Lots(perLot, existing, Limits, Spec) = lots
    BY <1>1, <1>4, <1>5
<1>7. lots \in Nat \ {0} /\ lots >= Spec.min /\ lots <= raw
    BY <1>4, <1>6, OnTheGrid
<1>. HIDE DEF lots
<1>8. wanted \in Int /\ wanted >= Spec.min /\ wanted <= lots
    BY <1>1, <1>7, BudgetAssumption
<1>9. Normalised(lots, Spec) = n
    BY <1>1, <1>7 DEF Normalised
<1>. HIDE DEF wanted
<1>10. n \in Nat \ {0} /\ n <= affordable
    BY <1>3, <1>4, <1>7, <1>8, OnTheGrid
<1>. HIDE DEF n
<1>11. n * perLot <= affordable * perLot
    BY <1>3, <1>10, Times
<1>12. n * perLot \in Int /\ perLot * n = n * perLot /\ affordable * perLot \in Int
    BY <1>3, <1>10
<1>13. perLot * n <= budget
    BY <1>2, <1>3, <1>11, <1>12
<1>. QED
    BY <1>1, <1>2, <1>6, <1>9, <1>10, <1>12, <1>13

(* What a quotient is at least. *)
LEMMA AtLeast ==
    ASSUME NEW a \in Int, NEW n \in Nat \ {0}, NEW q \in Int, q * n <= a
    PROVE  q <= a \div n
<1>. DEFINE d == a \div n
<1>1. d \in Int /\ a < d * n + n
    OBVIOUS
<1>. HIDE DEF d
<1>2. (d + 1) * n = d * n + n /\ d * n \in Int /\ q * n \in Int
    BY <1>1
<1>3. ASSUME d + 1 <= q PROVE FALSE
    <2>1. (d + 1) * n <= q * n
        BY <1>1, <1>3, Times
    <2>. QED
        BY <1>1, <1>2, <2>1
<1>4. q <= d
    BY <1>1, <1>3
<1>. QED
    BY <1>4 DEF d

(* The sizing wastes nothing (size_order_for_aggregate_risk): of all the   *)
(* volumes of the broker's grid that fit under both limits it takes the    *)
(* greatest, and it refuses only if there is none.                         *)
THEOREM GreatestVolume ==
    ASSUME NEW perLot \in Nat \ {0}, NEW existing \in Nat,
           NEW k \in Nat, Spec.min + k * Spec.step <= Spec.max,
           perLot * (Spec.min + k * Spec.step) <= Limits.trade,
           perLot * (Spec.min + k * Spec.step) + existing <= Limits.aggregate
    PROVE  /\ Lots(perLot, existing, Limits, Spec) \in Nat \ {0}
           /\ Spec.min + k * Spec.step <= Lots(perLot, existing, Limits, Spec)
<1>. DEFINE v == Spec.min + k * Spec.step
            remaining == Limits.aggregate - existing
            budget == IF Limits.trade < remaining THEN Limits.trade ELSE remaining
            affordable == budget \div perLot
            raw == IF affordable < Spec.max THEN affordable ELSE Spec.max
            steps == (raw - Spec.min) \div Spec.step
<1>1. /\ Limits.trade \in Nat /\ Limits.aggregate \in Nat /\ Spec.min \in Nat \ {0}
      /\ Spec.step \in Nat \ {0} /\ Spec.max \in Nat
    BY BudgetAssumption
<1>2. k * Spec.step \in Nat
    BY <1>1
<1>3. v \in Nat \ {0} /\ v >= Spec.min
    <2>1. \A n \in Nat : Spec.min + n \in Nat \ {0} /\ Spec.min + n >= Spec.min
        BY <1>1
    <2>. QED
        BY <1>2, <2>1
<1>4. perLot * v \in Nat \ {0} /\ perLot * v = v * perLot
    <2>. HIDE DEF v
    <2>. QED
        BY <1>3
<1>5. budget \in Int /\ v * perLot <= budget /\ budget > 0
    <2>1. perLot * v <= Limits.trade /\ perLot * v + existing <= Limits.aggregate
        OBVIOUS
    <2>. HIDE DEF v
    <2>. QED
        BY <1>1, <1>4, <2>1
<1>6. affordable \in Int /\ v <= affordable
    <2>. HIDE DEF v, budget
    <2>. QED
        BY <1>3, <1>5, AtLeast, Divided
<1>7. raw \in Int /\ v <= raw
    <2>1. v <= Spec.max
        OBVIOUS
    <2>. HIDE DEF v, affordable
    <2>. QED
        BY <1>1, <1>3, <1>6, <2>1
<1>8. Lots(perLot, existing, Limits, Spec)
          = IF budget <= 0 \/ raw < Spec.min THEN Nothing ELSE OnGrid(raw, Spec)
    BY DEF Lots
<1>. HIDE DEF raw, budget, affordable
<1>9. Lots(perLot, existing, Limits, Spec) = OnGrid(raw, Spec) /\ raw >= Spec.min
    BY <1>1, <1>3, <1>5, <1>7, <1>8
<1>10. k <= steps /\ steps \in Int
    <2>1. k * Spec.step <= raw - Spec.min /\ raw - Spec.min \in Int
        BY <1>1, <1>2, <1>7
    <2>. QED
        BY <1>1, <2>1, AtLeast, Divided
<1>11. OnGrid(raw, Spec) = Spec.min + steps * Spec.step
    BY DEF OnGrid
<1>. HIDE DEF steps
<1>12. k * Spec.step <= steps * Spec.step /\ steps * Spec.step \in Int
    BY <1>1, <1>10, Times
<1>13. v <= OnGrid(raw, Spec)
    BY <1>1, <1>2, <1>11, <1>12
<1>. HIDE DEF v
<1>14. OnGrid(raw, Spec) \in Nat \ {0}
    BY <1>7, <1>9, OnTheGrid
<1>. QED
    BY <1>9, <1>13, <1>14 DEF v

(* What was sized is what is sent: the floor that the executor takes again *)
(* (_normalise_lot) finds the volume on the grid and leaves it.            *)
THEOREM SentAsSized ==
    ASSUME NEW perLot \in Nat \ {0}, NEW existing \in Nat,
           Lots(perLot, existing, Limits, Spec) # Nothing
    PROVE  Normalised(Lots(perLot, existing, Limits, Spec), Spec)
               = Lots(perLot, existing, Limits, Spec)
<1>. DEFINE remaining == Limits.aggregate - existing
            budget == IF Limits.trade < remaining THEN Limits.trade ELSE remaining
            affordable == budget \div perLot
            raw == IF affordable < Spec.max THEN affordable ELSE Spec.max
            steps == (raw - Spec.min) \div Spec.step
            lots == Lots(perLot, existing, Limits, Spec)
<1>1. /\ Limits.trade \in Nat /\ Limits.aggregate \in Nat /\ Spec.min \in Nat \ {0}
      /\ Spec.step \in Nat \ {0} /\ Spec.max \in Nat
    BY BudgetAssumption
<1>2. budget \in Int
    BY <1>1
<1>3. affordable \in Int
    <2>. HIDE DEF budget
    <2>. QED
        BY <1>2, Divided
<1>4. raw \in Int /\ raw <= Spec.max
    <2>. HIDE DEF affordable
    <2>. QED
        BY <1>1, <1>3
<1>5. lots = IF budget <= 0 \/ raw < Spec.min THEN Nothing ELSE OnGrid(raw, Spec)
    BY DEF Lots
<1>. HIDE DEF raw, budget, affordable
<1>6. lots = OnGrid(raw, Spec) /\ raw >= Spec.min
    BY <1>1, <1>4, <1>5
<1>7. lots \in Nat /\ lots >= Spec.min /\ lots <= raw
    BY <1>4, <1>6, OnTheGrid
<1>8. steps \in Int /\ lots = Spec.min + steps * Spec.step
    BY <1>1, <1>4, <1>6, Divided DEF OnGrid
<1>. HIDE DEF lots, steps
<1>. DEFINE wanted == IF lots < Spec.max THEN lots ELSE Spec.max
<1>9. Normalised(lots, Spec) = OnGrid(wanted, Spec) /\ wanted = lots
    BY <1>1, <1>4, <1>7 DEF Normalised
<1>. HIDE DEF wanted
<1>10. (lots - Spec.min) \div Spec.step = steps
    <2>. DEFINE n == lots - Spec.min
                d == n \div Spec.step
    <2>1. steps * Spec.step \in Int /\ n = steps * Spec.step /\ n \in Int
        BY <1>1, <1>8
    <2>. HIDE DEF n
    <2>2. d \in Int /\ d * Spec.step <= n /\ steps <= d
        <3>1. steps * Spec.step <= n
            BY <2>1
        <3>2. steps <= d
            BY <1>1, <1>8, <2>1, <3>1, AtLeast
        <3>3. d \in Int /\ d * Spec.step <= n
            BY <1>1, <2>1, Divided
        <3>. QED
            BY <3>2, <3>3
    <2>. HIDE DEF d
    <2>3. ASSUME steps + 1 <= d PROVE FALSE
        <3>1. (steps + 1) * Spec.step <= d * Spec.step
            BY <1>1, <1>8, <2>2, <2>3, Times
        <3>2. (steps + 1) * Spec.step = steps * Spec.step + Spec.step /\ d * Spec.step \in Int
            BY <1>1, <1>8, <2>2
        <3>. QED
            BY <1>1, <2>1, <2>2, <3>1, <3>2
    <2>4. d = steps
        BY <1>8, <2>2, <2>3
    <2>. QED
        BY <2>4 DEF d, n
<1>11. OnGrid(lots, Spec) = lots
    BY <1>8, <1>10 DEF OnGrid
<1>. QED
    BY <1>9, <1>11 DEF lots

-----------------------------------------------------------------------------
(* What a position risks. *)

(* The money a position or an order may lose. *)
LEMMA RiskTyped ==
    ASSUME NEW p \in Positions \cup Orders
    PROVE  RiskOf(p) \in Nat
<1>1. Gain(p.side, p.stop, p.entry) \in Int /\ p.lots \in Nat
    BY DEF Gain, Positions, Orders
<1>. QED
    BY <1>1 DEF RiskOf

(* What a fill lost, and what its position risks beyond that. *)
LEMMA LossTyped ==
    ASSUME NEW p \in Positions
    PROVE  LostAtFill(p) \in Nat /\ Excess(p) \in Nat /\ Excess(p) <= RiskOf(p)
<1>1. Gain(p.side, p.wanted, p.entry) \in Int /\ p.lots \in Nat
    BY DEF Gain, Positions
<1>2. LostAtFill(p) \in Nat
    BY <1>1 DEF LostAtFill
<1>. QED
    BY <1>2, RiskTyped DEF Excess

(* With its stop at the entry or ahead, of the fill or as it was wanted, a *)
(* position risks no more than its fill lost.                              *)
LEMMA SafeAhead ==
    ASSUME NEW p \in Positions, NEW from \in {p.entry, p.wanted},
           Gain(p.side, from, p.stop) >= 0
    PROVE  RiskOf(p) <= LostAtFill(p) /\ Excess(p) = 0
<1>. DEFINE d == Gain(p.side, p.stop, p.entry)
            n == Gain(p.side, p.wanted, p.entry)
<1>1. d \in Int /\ n \in Int /\ p.lots \in Nat /\ (d <= 0 \/ d <= n)
    BY DEF Gain, Positions
<1>2. RiskOf(p) = (IF d > 0 THEN d * p.lots ELSE 0)
      /\ LostAtFill(p) = (IF n > 0 THEN n * p.lots ELSE 0)
    BY DEF RiskOf, LostAtFill
<1>. HIDE DEF d, n
<1>3. d <= n => d * p.lots <= n * p.lots
    BY <1>1, Times
<1>4. RiskOf(p) <= LostAtFill(p)
    BY <1>1, <1>2, <1>3, LossTyped
<1>. QED
    BY <1>4, LossTyped, RiskTyped DEF Excess

(* Beyond the loss of its fill a position risks what its order did.        *)
LEMMA FillAdds ==
    ASSUME NEW o \in Orders, NEW p \in Positions,
           p.side = o.side, p.stop = o.stop, p.lots = o.lots, p.wanted = o.entry
    PROVE  Excess(p) <= RiskOf(o)
<1>. DEFINE a == Gain(p.side, p.stop, p.wanted)
            n == Gain(p.side, p.wanted, p.entry)
<1>1. a \in Int /\ n \in Int /\ p.lots \in Nat /\ Gain(p.side, p.stop, p.entry) = a + n
    BY DEF Gain, Positions
<1>2. /\ RiskOf(p) = (IF a + n > 0 THEN (a + n) * p.lots ELSE 0)
      /\ RiskOf(o) = (IF a > 0 THEN a * p.lots ELSE 0)
      /\ LostAtFill(p) = (IF n > 0 THEN n * p.lots ELSE 0)
    BY <1>1 DEF RiskOf, LostAtFill
<1>. HIDE DEF a, n
<1>3. (a + n) * p.lots = a * p.lots + n * p.lots
    BY <1>1, Distributes
<1>4. /\ a * p.lots \in Int /\ n * p.lots \in Int
      /\ (a <= 0 => a * p.lots <= 0) /\ (n <= 0 => n * p.lots <= 0)
      /\ (a >= 0 => a * p.lots >= 0) /\ (n >= 0 => n * p.lots >= 0)
    BY <1>1
<1>5. RiskOf(p) <= RiskOf(o) + LostAtFill(p)
    BY <1>1, <1>2, <1>3, <1>4
<1>. QED
    BY <1>5, LossTyped, RiskTyped DEF Excess
-----------------------------------------------------------------------------
(* The money, piece by piece. *)

(* Finitely many tickets with finitely many pieces each. *)
LEMMA PiecesFinite ==
    ASSUME NEW S, IsFiniteSet(S), NEW t, NEW n \in [S -> Nat]
    PROVE  IsFiniteSet(UNION {{t[r]} \X (1..n[r]) : r \in S})
<1>. DEFINE f == [r \in S |-> {t[r]} \X (1..n[r])]
            T == {{t[r]} \X (1..n[r]) : r \in S}
<1>1. f \in Surjection(S, T)
    BY DEF Surjection
<1>2. IsFiniteSet(T)
    BY <1>1, FS_Surjection
<1>3. ASSUME NEW U \in T PROVE IsFiniteSet(U)
    <2>1. PICK r \in S : U = {t[r]} \X (1..n[r])
        OBVIOUS
    <2>2. IsFiniteSet({t[r]})
        BY FS_Singleton
    <2>3. n[r] \in Int
        OBVIOUS
    <2>4. IsFiniteSet(1..n[r])
        BY <2>3, FS_Interval
    <2>5. IsFiniteSet({t[r]} \X (1..n[r]))
        BY <2>2, <2>4, FS_Product
    <2>. QED
        BY <2>1, <2>5
<1>. QED
    BY <1>2, <1>3, FS_UNION

(* The total risk of finitely many positions is a number. *)
LEMMA AtRiskFinite ==
    ASSUME NEW S \in SUBSET (Positions \cup Orders), IsFiniteSet(S)
    PROVE  IsFiniteSet(AtRisk(S)) /\ OpenRisk(S) \in Nat
<1>. DEFINE t == [r \in S |-> r.ticket]
            n == [r \in S |-> RiskOf(r)]
<1>1. n \in [S -> Nat]
    BY RiskTyped
<1>2. AtRisk(S) = UNION {{t[r]} \X (1..n[r]) : r \in S}
    BY DEF AtRisk
<1>. HIDE DEF t, n
<1>3. IsFiniteSet(AtRisk(S))
    BY <1>1, <1>2, PiecesFinite
<1>. QED
    BY <1>3, FS_CardinalityType DEF OpenRisk

(* The same for the risk beyond the fills. *)
LEMMA ExcessFinite ==
    ASSUME NEW S \in SUBSET Positions, IsFiniteSet(S)
    PROVE  IsFiniteSet(Beyond(S))
<1>. DEFINE t == [r \in S |-> r.ticket]
            n == [r \in S |-> Excess(r)]
<1>1. n \in [S -> Nat]
    BY LossTyped
<1>2. Beyond(S) = UNION {{t[r]} \X (1..n[r]) : r \in S}
    BY DEF Beyond
<1>. HIDE DEF t, n
<1>. QED
    BY <1>1, <1>2, PiecesFinite

(* The same for what the fills lost. *)
LEMMA SlippageFinite ==
    ASSUME NEW S \in SUBSET Positions, IsFiniteSet(S)
    PROVE  IsFiniteSet(UNION {{p.ticket} \X (1..LostAtFill(p)) : p \in S})
<1>. DEFINE t == [r \in S |-> r.ticket]
            n == [r \in S |-> LostAtFill(r)]
<1>1. n \in [S -> Nat]
    BY LossTyped
<1>2. UNION {{p.ticket} \X (1..LostAtFill(p)) : p \in S}
          = UNION {{t[r]} \X (1..n[r]) : r \in S}
    OBVIOUS
<1>. HIDE DEF t, n
<1>. QED
    BY <1>1, <1>2, PiecesFinite

(* The same for all that a later order has to count. *)
LEMMA CommittedFinite ==
    ASSUME BrokerOK
    PROVE  IsFiniteSet(Committed) /\ Cardinality(Committed) \in Nat
<1>1. /\ Counted(book) \in SUBSET Positions /\ IsFiniteSet(Counted(book))
      /\ Counted(sent) \in SUBSET Orders /\ IsFiniteSet(Counted(sent))
    BY FS_Subset DEF BrokerOK, Counted
<1>2. IsFiniteSet(Beyond(Counted(book)))
    BY <1>1, ExcessFinite
<1>3. IsFiniteSet(AtRisk(Counted(sent)))
    BY <1>1, AtRiskFinite
<1>4. IsFiniteSet(Committed)
    BY <1>2, <1>3, FS_Union DEF Committed
<1>. QED
    BY <1>4, FS_CardinalityType

(* What is at risk is made of what is committed and what was lost at the   *)
(* fills: a piece beyond the excess of its position is one of its loss.    *)
LEMMA RiskSplits ==
    ASSUME NEW S \in SUBSET Positions, IsFiniteSet(S),
           \A p, q \in S : p.ticket = q.ticket => p = q
    PROVE  OpenRisk(S) <= Cardinality(Beyond(S)) + Slippage(S)
<1>. DEFINE of(t) == CHOOSE p \in S : p.ticket = t
            E == Beyond(S)
            L == UNION {{p.ticket} \X (1..LostAtFill(p)) : p \in S}
            rest == AtRisk(S) \ E
            U == {u \in L : <<u[1], u[2] + Excess(of(u[1]))>> \in rest}
            f == [u \in U |-> <<u[1], u[2] + Excess(of(u[1]))>>]
<1>1. ASSUME NEW v \in rest
      PROVE  \E u \in U : f[u] = v
    <2>1. PICK p \in S : v \in {p.ticket} \X (1..RiskOf(p))
        BY DEF AtRisk
    <2>2. PICK i \in 1..RiskOf(p) : v = <<p.ticket, i>>
        BY <2>1
    <2>3. of(p.ticket) = p
        <3>1. of(p.ticket) \in S /\ of(p.ticket).ticket = p.ticket
            OBVIOUS
        <3>. QED
            BY <3>1
    <2>. HIDE DEF of
    <2>4. RiskOf(p) \in Nat /\ LostAtFill(p) \in Nat /\ Excess(p) \in Nat /\ i \in Nat
        BY RiskTyped, LossTyped
    <2>5. i > Excess(p)
        <3>1. SUFFICES ASSUME i <= Excess(p) PROVE FALSE
            BY <2>4
        <3>2. v \in {p.ticket} \X (1..Excess(p))
            BY <2>2, <2>4, <3>1
        <3>. QED
            BY <3>2 DEF Beyond
    <2>6. i - Excess(p) \in 1..LostAtFill(p)
        BY <2>4, <2>5 DEF Excess
    <2>. DEFINE u == <<p.ticket, i - Excess(p)>>
    <2>7. u \in L /\ u[1] = p.ticket /\ u[2] = i - Excess(p)
        <3>1. u \in {p.ticket} \X (1..LostAtFill(p))
            BY <2>6
        <3>. QED
            BY <3>1
    <2>8. <<u[1], u[2] + Excess(of(u[1]))>> = v
        BY <2>2, <2>3, <2>4, <2>7
    <2>9. u \in U
        BY <2>7, <2>8
    <2>10. f[u] = v
        BY <2>8, <2>9
    <2>. QED
        BY <2>9, <2>10
<1>2. f \in Surjection(U, rest)
    <2>1. f \in [U -> rest]
        OBVIOUS
    <2>. QED
        BY <1>1, <2>1 DEF Surjection
<1>3. IsFiniteSet(E) /\ IsFiniteSet(L)
    BY ExcessFinite, SlippageFinite
<1>. HIDE DEF f, E, L
<1>4. IsFiniteSet(U) /\ Cardinality(U) <= Cardinality(L)
    <2>1. U \in SUBSET L
        OBVIOUS
    <2>. QED
        BY <1>3, <2>1, FS_Subset
<1>5. IsFiniteSet(rest) /\ Cardinality(rest) <= Cardinality(U)
    <2>. HIDE DEF rest, U
    <2>. QED
        BY <1>2, <1>4, FS_Surjection
<1>6. /\ IsFiniteSet(E \cup rest)
      /\ Cardinality(E \cup rest) = Cardinality(E) + Cardinality(rest) - Cardinality(E \cap rest)
    <2>. HIDE DEF rest
    <2>. QED
        BY <1>3, <1>5, FS_Union
<1>7. AtRisk(S) \in SUBSET (E \cup rest)
    OBVIOUS
<1>8. Cardinality(AtRisk(S)) <= Cardinality(E \cup rest)
    <2>. HIDE DEF rest
    <2>. QED
        BY <1>6, <1>7, FS_Subset
<1>9. E \cap rest = {}
    OBVIOUS
<1>. HIDE DEF rest, U
<1>10. /\ Cardinality(AtRisk(S)) \in Int /\ Cardinality(E) \in Int /\ Cardinality(L) \in Int
       /\ Cardinality(U) \in Int /\ Cardinality(rest) \in Int
       /\ Cardinality(E \cup rest) \in Int /\ Cardinality(E \cap rest) = 0
    <2>1. Cardinality(AtRisk(S)) \in Nat
        BY AtRiskFinite DEF OpenRisk
    <2>2. Cardinality(E) \in Nat /\ Cardinality(L) \in Nat
        BY <1>3, FS_CardinalityType
    <2>3. Cardinality(U) \in Nat
        BY <1>4, FS_CardinalityType
    <2>4. Cardinality(rest) \in Nat
        BY <1>5, FS_CardinalityType
    <2>5. Cardinality(E \cup rest) \in Nat
        BY <1>6, FS_CardinalityType
    <2>6. Cardinality(E \cap rest) = 0
        BY <1>9, FS_EmptySet
    <2>. QED
        BY <2>1, <2>2, <2>3, <2>4, <2>5, <2>6
<1>. QED
    BY <1>4, <1>5, <1>6, <1>8, <1>10 DEF OpenRisk, Slippage, E, L
-----------------------------------------------------------------------------
(* Steps. *)

(* What is committed only shrinks as long as every position that counts    *)
(* has been one with no less excess, or an order, and every order that     *)
(* counts has been one.                                                    *)
Covered(q) ==
    \/ Excess(q) = 0
    \/ \E p \in Counted(book) : p.ticket = q.ticket /\ Excess(q) <= Excess(p)
    \/ \E o \in Counted(sent) : o.ticket = q.ticket /\ Excess(q) <= RiskOf(o)

(* No step commits more that only takes away from positions and orders. *)
LEMMA Shrinks ==
    ASSUME BrokerOK, Kept, BrokerOK',
           \A q \in book' : q.ticket \notin unseen' => Covered(q),
           \A o \in sent' : o \in sent /\ (o.ticket \notin unseen' => o.ticket \notin unseen)
    PROVE  Kept'
<1>1. ASSUME NEW v \in Committed' PROVE v \in Committed
    <2>1. CASE \E q \in book' : q.ticket \notin unseen' /\ v \in {q.ticket} \X (1..Excess(q))
        <3>1. PICK q \in book' : q.ticket \notin unseen' /\ v \in {q.ticket} \X (1..Excess(q))
            BY <2>1
        <3>2. PICK i \in 1..Excess(q) : v = <<q.ticket, i>>
            BY <3>1
        <3>3. Excess(q) \in Nat /\ Excess(q) # 0
            BY <3>2, LossTyped DEF BrokerOK
        <3>4. CASE \E p \in Counted(book) : p.ticket = q.ticket /\ Excess(q) <= Excess(p)
            <4>1. PICK p \in Counted(book) : p.ticket = q.ticket /\ Excess(q) <= Excess(p)
                BY <3>4
            <4>2. Excess(p) \in Nat
                BY LossTyped DEF BrokerOK, Counted
            <4>3. v \in {p.ticket} \X (1..Excess(p))
                BY <3>2, <3>3, <4>1, <4>2
            <4>. QED
                BY <4>3 DEF Committed, Beyond
        <3>5. CASE \E o \in Counted(sent) : o.ticket = q.ticket /\ Excess(q) <= RiskOf(o)
            <4>1. PICK o \in Counted(sent) : o.ticket = q.ticket /\ Excess(q) <= RiskOf(o)
                BY <3>5
            <4>2. RiskOf(o) \in Nat
                BY RiskTyped DEF BrokerOK, Counted
            <4>3. v \in {o.ticket} \X (1..RiskOf(o))
                BY <3>2, <3>3, <4>1, <4>2
            <4>. QED
                BY <4>3 DEF Committed, AtRisk
        <3>. QED
            BY <3>1, <3>3, <3>4, <3>5 DEF Covered
    <2>2. CASE \E o \in sent' : o.ticket \notin unseen' /\ v \in {o.ticket} \X (1..RiskOf(o))
        <3>1. PICK o \in sent' : o.ticket \notin unseen' /\ v \in {o.ticket} \X (1..RiskOf(o))
            BY <2>2
        <3>2. o \in Counted(sent)
            BY <3>1 DEF Counted
        <3>. QED
            BY <3>1, <3>2 DEF Committed, AtRisk
    <2>. QED
        BY <2>1, <2>2 DEF Committed, Beyond, AtRisk, Counted
<1>2. IsFiniteSet(Committed) /\ Cardinality(Committed) \in Nat
    BY CommittedFinite
<1>3. Committed' \in SUBSET Committed
    BY <1>1
<1>4. Cardinality(Committed') <= Cardinality(Committed) /\ Cardinality(Committed') \in Nat
    BY <1>2, <1>3, FS_Subset, FS_CardinalityType
<1>. QED
    BY <1>2, <1>4, BudgetAssumption DEF Kept

(* What stays is still covered. *)
LEMMA StaysCovered ==
    ASSUME BrokerOK, NEW p \in book, p.ticket \notin unseen
    PROVE  Covered(p)
<1>1. p \in Counted(book) /\ Excess(p) <= Excess(p)
    BY LossTyped DEF Counted, BrokerOK
<1>. QED
    BY <1>1 DEF Covered

(* Only the plan and the market change. *)
LEMMA PlanKeeps ==
    ASSUME IInv, UNCHANGED <<book, sent, asked, late, base, orders, unseen, strayed>>,
           bid' \in Prices, ListHolds',
           entry' # Nothing => /\ entry' \in Plans /\ IsFiniteSet(entry'.rows)
                               /\ entry'.at # "sent" => orders < MaxOrders
    PROVE  IInv'
<1>1. EngineOK'
    BY DEF IInv, EngineOK
<1>2. BrokerOK'
    BY DEF IInv, BrokerOK
<1>3. OfPositions'
    BY DEF IInv, OfPositions
<1>4. AheadOfBase'
    BY DEF IInv, AheadOfBase
<1>5. Committed' = Committed
    BY DEF Committed, Counted
<1>6. Kept'
    BY <1>5 DEF IInv, Kept
<1>. QED
    BY <1>1, <1>2, <1>3, <1>4, <1>6 DEF IInv
(* The prices of a quote. *)
LEMMA QuoteTyped ==
    ASSUME EngineOK
    PROVE  bid \in Int /\ \A side \in Sides : Executable(side, Quote) \in Int
                                              /\ Reference(side, Quote) \in Int
BY BudgetAssumption DEF EngineOK, Executable, Reference, Quote

(* A decision leaves the broker alone. *)
LEMMA DecideKeeps ==
    ASSUME IInv, NEW side \in Sides, NEW levels \in SUBSET Levels, Decide(side, levels)
    PROVE  IInv'
<1>. DEFINE price == Executable(side, Quote)
            plan == StopPlan(side, price, levels, Envelope)
<1>1. price \in Int
    BY QuoteTyped DEF IInv
<1>. HIDE DEF price
<1>2. plan.stop \in Int /\ Target(side, price, plan.stop, Nothing, RR) \in Int
    BY <1>1, PlanTyped
<1>3. entry' = [at |-> "list", side |-> side, entry |-> price, stop |-> plan.stop,
                target |-> Target(side, price, plan.stop, Nothing, RR), rows |-> {}]
    BY DEF Decide, price
<1>. HIDE DEF plan
<1>4. entry' \in Plans /\ entry'.rows = {} /\ entry'.at = "list"
    BY <1>1, <1>2, <1>3 DEF Plans
<1>5. IsFiniteSet(entry'.rows)
    BY <1>4, FS_EmptySet
<1>6. ListHolds'
    BY <1>4 DEF ListHolds
<1>7. /\ UNCHANGED <<bid, book, sent, asked, late, base, orders, unseen, strayed>>
      /\ orders < MaxOrders
    BY DEF Decide
<1>. QED
    BY <1>4, <1>5, <1>6, <1>7, PlanKeeps DEF IInv, EngineOK

(* The list has the risk that the positions have at this moment. *)
LEMMA ListKeeps ==
    ASSUME IInv, NEW rows \in SUBSET book, List(rows)
    PROVE  IInv'
<1>1. UNCHANGED <<bid, book, sent, asked, late, base, orders, unseen, strayed>>
    BY DEF List
<1>2. CASE entry' = [entry EXCEPT !.at = "size", !.rows = rows]
    <2>1. rows \in SUBSET Positions /\ IsFiniteSet(rows)
        BY FS_Subset DEF IInv, BrokerOK
    <2>2. entry' \in Plans /\ entry'.rows = rows /\ orders < MaxOrders
        BY <1>2, <2>1 DEF IInv, EngineOK, List, Plans
    <2>3. \A r \in rows : r.ticket \in 1..orders /\ \A o \in sent : r.ticket # o.ticket
        BY DEF IInv, BrokerOK
    <2>4. \A r \in rows, p \in book : r.ticket = p.ticket => Excess(p) <= RiskOf(r)
        BY <2>1, LossTyped DEF IInv, BrokerOK
    <2>5. ListHolds'
        BY <1>1, <2>2, <2>3, <2>4 DEF ListHolds
    <2>. QED
        BY <1>1, <2>1, <2>2, <2>5, PlanKeeps DEF IInv, EngineOK
<1>3. CASE entry' = Nothing
    BY <1>1, <1>3, PlanKeeps DEF IInv, EngineOK, ListHolds
<1>. QED
    BY <1>2, <1>3 DEF List

(* A refusal, a lost order and a move of the price commit nothing. *)
LEMMA RestKeeps ==
    ASSUME IInv, Refuse \/ OrderUnanswered \/ Move
    PROVE  IInv'
<1>1. CASE Refuse \/ OrderUnanswered
    BY <1>1, PlanKeeps DEF Refuse, OrderUnanswered, IInv, EngineOK, ListHolds
<1>2. CASE Move
    BY <1>2, PlanKeeps DEF Move, IInv, EngineOK, ListHolds
<1>. QED
    BY <1>1, <1>2
-----------------------------------------------------------------------------
(* Orders. *)

(* The order that is sent fits beside what its list showed. *)
LEMMA SendKeeps ==
    ASSUME IInv, Send
    PROVE  IInv'
<1>. DEFINE prices == Rebased(entry.side, entry, Quote, StopLevels)
            perLot == RiskPerLot(prices)
            lots == IF perLot > 0 THEN Lots(perLot, OpenRisk(entry.rows), Limits, Spec)
                    ELSE Nothing
            n == Normalised(lots, Spec)
            new == [ticket |-> orders', side |-> entry.side, entry |-> prices.entry,
                    stop |-> prices.stop, lots |-> n]
            rows == entry.rows
<1>1. /\ entry # Nothing /\ entry \in Plans /\ IsFiniteSet(rows) /\ entry.at = "size"
      /\ rows \in SUBSET Positions /\ bid \in Int
    BY QuoteTyped DEF Send, IInv, EngineOK, Plans
<1>2. /\ Order = [prices |-> prices, lots |-> n]
      /\ Constrained(StopLevels) /\ lots # Nothing
    BY DEF Send, Order
<1>3. prices.side = entry.side /\ prices.entry \in Int /\ prices.stop \in Int
      /\ entry.side \in Sides
    BY <1>1, <1>2, RebasedTyped DEF Plans
<1>4. sent' = sent \cup {new} /\ orders' = orders + 1
    BY <1>2 DEF Send
<1>. HIDE DEF prices
<1>5. perLot \in Int /\ (perLot > 0 => perLot \in Nat \ {0})
    BY <1>3 DEF RiskPerLot, Gain
<1>6. OpenRisk(rows) \in Nat /\ IsFiniteSet(AtRisk(rows))
    BY <1>1, AtRiskFinite
<1>7. /\ n \in Nat \ {0}
      /\ perLot > 0 /\ perLot * n + OpenRisk(rows) <= Limits.aggregate
    <2>. HIDE DEF perLot
    <2>1. perLot > 0 /\ lots = Lots(perLot, OpenRisk(rows), Limits, Spec)
        BY <1>2
    <2>. QED
        BY <1>2, <1>5, <1>6, <2>1, LotsFit
<1>. HIDE DEF n, lots
<1>8. /\ new \in Orders /\ new.ticket = orders + 1
      /\ RiskOf(new) = perLot * n /\ RiskOf(new) \in Nat
    <2>1. orders \in Nat /\ new \in Orders /\ new.ticket = orders + 1
        BY <1>3, <1>4, <1>7 DEF Orders, IInv, EngineOK
    <2>2. RiskOf(new) = perLot * n
        BY <1>3, <1>7 DEF RiskOf, RiskPerLot, Gain
    <2>. QED
        BY <2>1, <2>2, RiskTyped
<1>. HIDE DEF perLot
<1>9. BrokerOK'
    <2>1. /\ book' = book /\ sent' \subseteq Orders
          /\ \A p \in book \cup sent : p.ticket \in 1..orders
          /\ orders \in Nat
        BY <1>4, <1>8 DEF Send, IInv, BrokerOK, EngineOK
    <2>2. IsFiniteSet(sent')
        BY <1>4, FS_AddElement DEF IInv, BrokerOK
    <2>. HIDE DEF new
    <2>3. \A p \in book \cup sent : p.ticket # new.ticket
        BY <1>8, <2>1
    <2>. QED
        BY <1>4, <1>8, <2>1, <2>2, <2>3 DEF IInv, BrokerOK
<1>10. EngineOK'
    <2>1. orders \in 0..MaxOrders /\ orders < MaxOrders /\ orders' = orders + 1
        BY <1>1, <1>4 DEF IInv, EngineOK
    <2>2. \A p \in book \cup sent : p.ticket \in 1..orders
        BY DEF IInv, BrokerOK
    <2>3. unseen' \subseteq unseen \cup {p.ticket : p \in book \cup sent}
        BY DEF Send
    <2>4. unseen' \cup strayed' \cup DOMAIN base' \subseteq 1..orders'
        BY <2>1, <2>2, <2>3, BudgetAssumption DEF Send, IInv, EngineOK
    <2>5. entry' = [entry EXCEPT !.at = "sent", !.rows = {}]
        BY DEF Send
    <2>6. entry' \in Plans /\ entry'.rows = {} /\ entry'.at = "sent"
        BY <1>1, <2>5 DEF Plans
    <2>7. IsFiniteSet(entry'.rows)
        BY <2>6, FS_EmptySet
    <2>8. UNCHANGED <<bid, asked, late, base>>
        BY DEF Send
    <2>. QED
        BY <2>1, <2>4, <2>6, <2>7, <2>8, BudgetAssumption DEF IInv, EngineOK
<1>11. OfPositions' /\ AheadOfBase'
    <2>1. UNCHANGED <<book, asked, late, base, strayed>>
        BY DEF Send
    <2>. QED
        BY <2>1 DEF IInv, OfPositions, AheadOfBase
<1>12. ListHolds'
    BY <1>1 DEF Send, ListHolds, Plans
<1>13. Kept'
    <2>. DEFINE mine == {new.ticket} \X (1..RiskOf(new))
    <2>. HIDE DEF new
    <2>1. /\ book' = book
          /\ unseen' = unseen \cup ({p.ticket : p \in book \cup sent} \ {r.ticket : r \in rows})
        BY DEF Send
    <2>2. ASSUME NEW v \in Committed' PROVE v \in AtRisk(rows) \cup mine
        <3>1. CASE \E q \in book :
                      q.ticket \notin unseen' /\ v \in {q.ticket} \X (1..Excess(q))
            <4>1. PICK q \in book :
                      q.ticket \notin unseen' /\ v \in {q.ticket} \X (1..Excess(q))
                BY <3>1
            <4>2. PICK r \in rows : r.ticket = q.ticket
                BY <2>1, <4>1
            <4>3. Excess(q) <= RiskOf(r) /\ Excess(q) \in Nat /\ RiskOf(r) \in Nat
                BY <1>1, <4>2, LossTyped, RiskTyped DEF IInv, ListHolds, BrokerOK
            <4>4. v \in {r.ticket} \X (1..RiskOf(r))
                BY <4>1, <4>2, <4>3
            <4>. QED
                BY <4>4 DEF AtRisk
        <3>2. CASE \E o \in sent' :
                      o.ticket \notin unseen' /\ v \in {o.ticket} \X (1..RiskOf(o))
            <4>1. PICK o \in sent' :
                      o.ticket \notin unseen' /\ v \in {o.ticket} \X (1..RiskOf(o))
                BY <3>2
            <4>2. o \notin sent
                BY <1>1, <2>1, <4>1 DEF IInv, ListHolds
            <4>3. o = new
                BY <1>4, <4>1, <4>2
            <4>. QED
                BY <4>1, <4>3
        <3>. QED
            BY <2>1, <3>1, <3>2 DEF Committed, Beyond, AtRisk, Counted
    <2>3. IsFiniteSet(mine) /\ Cardinality(mine) = RiskOf(new)
        <3>1. IsFiniteSet({new.ticket}) /\ Cardinality({new.ticket}) = 1
            BY FS_Singleton
        <3>2. IsFiniteSet(1..RiskOf(new)) /\ Cardinality(1..RiskOf(new)) = RiskOf(new)
            BY <1>8, FS_Interval
        <3>. QED
            BY <1>8, <3>1, <3>2, FS_Product
    <2>. HIDE DEF mine
    <2>4. /\ IsFiniteSet(AtRisk(rows) \cup mine)
          /\ Cardinality(AtRisk(rows) \cup mine)
                 = OpenRisk(rows) + RiskOf(new) - Cardinality(AtRisk(rows) \cap mine)
        BY <1>6, <2>3, FS_Union DEF OpenRisk
    <2>5. Cardinality(AtRisk(rows) \cap mine) \in Nat
        BY <1>6, FS_Intersection, FS_CardinalityType
    <2>6. Committed' \in SUBSET (AtRisk(rows) \cup mine)
        BY <2>2
    <2>7. /\ Cardinality(Committed') <= Cardinality(AtRisk(rows) \cup mine)
          /\ Cardinality(Committed') \in Nat
        BY <2>4, <2>6, FS_Subset, FS_CardinalityType
    <2>8. Cardinality(AtRisk(rows) \cup mine) <= Limits.aggregate
        BY <1>6, <1>7, <1>8, <2>4, <2>5, BudgetAssumption
    <2>9. Cardinality(AtRisk(rows) \cup mine) \in Nat
        BY <2>4, FS_CardinalityType
    <2>. QED
        BY <2>7, <2>8, <2>9, BudgetAssumption DEF Kept
<1>. QED
    BY <1>9, <1>10, <1>11, <1>12, <1>13 DEF IInv
(* A fill risks no more than its order, save for what it lost. *)
LEMMA FillKeeps ==
    ASSUME IInv, NEW o \in sent, NEW told \in BOOLEAN, Fill(o, told)
    PROVE  IInv'
<1>. DEFINE price == Executable(o.side, Quote)
            q == [ticket |-> o.ticket, side |-> o.side, entry |-> price,
                  stop |-> o.stop, lots |-> o.lots, wanted |-> o.entry]
            from == IF told THEN o.entry ELSE price
            b == [entry |-> from, risk |-> Abs(from - o.stop), best |-> from]
<1>1. o \in Orders /\ o.side \in Sides /\ o.ticket \in 1..orders
    BY DEF IInv, BrokerOK, Orders
<1>2. price \in Int
    BY <1>1, QuoteTyped DEF IInv
<1>3. /\ sent' = sent \ {o} /\ book' = book \cup {q}
      /\ base' = [t \in DOMAIN base \cup {o.ticket} |-> IF t = o.ticket THEN b ELSE base[t]]
      /\ UNCHANGED <<bid, asked, late, orders, unseen, strayed>>
      /\ entry' = Nothing \/ entry' = entry
    BY DEF Fill
<1>. HIDE DEF price
<1>4. q \in Positions /\ b \in Baselines
    BY <1>1, <1>2 DEF Orders, Positions, Baselines, Abs
<1>5. /\ q.ticket = o.ticket /\ q.side = o.side /\ q.stop = o.stop /\ q.lots = o.lots
      /\ q.wanted = o.entry /\ q.entry = price /\ b.entry \in {q.entry, q.wanted}
    OBVIOUS
<1>6. Excess(q) <= RiskOf(o)
    BY <1>1, <1>4, <1>5, FillAdds
<1>. HIDE DEF q, b
<1>7. BrokerOK'
    <2>1. IsFiniteSet(book') /\ IsFiniteSet(sent')
        BY <1>3, FS_AddElement, FS_Subset DEF IInv, BrokerOK
    <2>2. \A p \in book : p.ticket # q.ticket
        BY <1>5 DEF IInv, BrokerOK
    <2>3. \A u \in sent' : u \in sent /\ u.ticket # q.ticket
        BY <1>3, <1>5 DEF IInv, BrokerOK
    <2>. QED
        BY <1>1, <1>3, <1>4, <1>5, <2>1, <2>2, <2>3 DEF IInv, BrokerOK
<1>8. EngineOK'
    BY <1>1, <1>3, <1>4 DEF IInv, EngineOK
<1>9. \A p \in book : p.ticket \in DOMAIN base' /\ base'[p.ticket] = base[p.ticket]
    BY <1>3 DEF IInv, BrokerOK, OfPositions
<1>10. o.ticket \in DOMAIN base' /\ base'[o.ticket] = b
    BY <1>3
<1>11. OfPositions'
    BY <1>3, <1>5, <1>9, <1>10 DEF IInv, OfPositions
<1>12. \A c \in asked \cup late : c.ticket # q.ticket
    BY <1>5 DEF IInv, OfPositions, BrokerOK
<1>13. AheadOfBase'
    BY <1>3, <1>9, <1>12 DEF IInv, AheadOfBase
<1>14. ListHolds'
    BY <1>3, <1>5 DEF IInv, ListHolds
<1>15. Kept'
    <2>1. \A p \in book' : p.ticket \notin unseen' => Covered(p)
        <3>1. \A p \in book : p.ticket \notin unseen => Covered(p)
            BY StaysCovered DEF IInv
        <3>2. q.ticket \notin unseen => Covered(q)
            BY <1>5, <1>6 DEF Covered, Counted
        <3>. QED
            BY <1>3, <3>1, <3>2
    <2>. QED
        BY <1>3, <1>7, <2>1, Shrinks DEF IInv
<1>. QED
    BY <1>7, <1>8, <1>11, <1>13, <1>14, <1>15 DEF IInv

(* A rejected order frees what it had committed. *)
LEMMA RejectKeeps ==
    ASSUME IInv, NEW o \in sent, Reject(o)
    PROVE  IInv'
<1>1. /\ sent' = sent \ {o}
      /\ UNCHANGED <<bid, book, asked, late, base, orders, unseen, strayed>>
      /\ entry' = Nothing \/ entry' = entry
    BY DEF Reject
<1>2. BrokerOK'
    BY <1>1, FS_Subset DEF IInv, BrokerOK
<1>3. EngineOK'
    BY <1>1 DEF IInv, EngineOK
<1>4. OfPositions' /\ AheadOfBase'
    BY <1>1 DEF IInv, OfPositions, AheadOfBase
<1>5. ListHolds'
    BY <1>1 DEF IInv, ListHolds
<1>6. Kept'
    BY <1>1, <1>2, StaysCovered, Shrinks DEF IInv
<1>. QED
    BY <1>2, <1>3, <1>4, <1>5, <1>6 DEF IInv

-----------------------------------------------------------------------------
(* Positions. *)

(* A closed position frees its risk, and its changes are void. *)
LEMMA CloseKeeps ==
    ASSUME IInv, NEW p \in book, Close(p)
    PROVE  IInv'
<1>1. /\ book' = book \ {p}
      /\ base' = [t \in DOMAIN base \ {p.ticket} |-> base[t]]
      /\ asked' = {c \in asked : c.ticket # p.ticket}
      /\ late' = {c \in late : c.ticket # p.ticket}
      /\ unseen' = unseen \ {p.ticket} /\ strayed' = strayed \ {p.ticket}
      /\ UNCHANGED <<bid, entry, sent, orders>>
    BY DEF Close
<1>2. BrokerOK'
    BY <1>1, FS_Subset DEF IInv, BrokerOK
<1>3. EngineOK'
    BY <1>1 DEF IInv, EngineOK
<1>4. \A q \in book' : /\ q \in book /\ q.ticket # p.ticket
                       /\ q.ticket \in DOMAIN base' /\ base'[q.ticket] = base[q.ticket]
    BY <1>1 DEF IInv, BrokerOK, OfPositions
<1>5. \A c \in asked' \cup late' : c \in asked \cup late /\ c.ticket # p.ticket
    BY <1>1
<1>6. OfPositions'
    BY <1>1, <1>4, <1>5 DEF IInv, OfPositions
<1>7. AheadOfBase'
    <2>. SUFFICES ASSUME NEW q \in book', NEW c \in asked' \cup late', q.ticket = c.ticket
                  PROVE  /\ Gain(q.side, base'[q.ticket].entry, c.stop) >= 0
                         /\ (q.ticket \notin strayed' => Gain(q.side, q.stop, c.stop) >= 0)
        BY DEF AheadOfBase
    <2>. QED
        BY <1>1, <1>4, <1>5 DEF IInv, AheadOfBase
<1>8. ListHolds'
    BY <1>1 DEF IInv, ListHolds
<1>9. Kept'
    <2>1. \A q \in book' : q.ticket \notin unseen' => Covered(q)
        BY <1>1, <1>4, StaysCovered DEF IInv
    <2>2. \A o \in sent' : o \in sent /\ (o.ticket \notin unseen' => o.ticket \notin unseen)
        BY <1>1 DEF IInv, BrokerOK
    <2>. QED
        BY <1>2, <2>1, <2>2, Shrinks DEF IInv
<1>. QED
    BY <1>2, <1>3, <1>6, <1>7, <1>8, <1>9 DEF IInv
(* A stop that is asked for is not behind the baseline, nor behind the     *)
(* stop in force.                                                          *)
LEMMA TrailAsks ==
    ASSUME IInv, NEW p \in book, NEW gap \in Gaps, Trail(p, gap)
    PROVE  \E b \in Baselines :
              /\ b.entry = base[p.ticket].entry
              /\ base' = [base EXCEPT ![p.ticket] = b]
              /\ \/ asked' = asked
                 \/ \E stop \in Int :
                       /\ asked' = asked \cup {[ticket |-> p.ticket, stop |-> stop]}
                       /\ Gain(p.side, b.entry, stop) >= 0 /\ Gain(p.side, p.stop, stop) >= 0
<1>. DEFINE price == Reference(p.side, Quote)
            b == Seen(p, price)
            stop == Candidate(p, b, gap)
<1>1. p \in Positions /\ p.ticket \in DOMAIN base /\ base[p.ticket] \in Baselines
      /\ p.side \in Sides /\ p.stop \in Int
    BY DEF IInv, BrokerOK, OfPositions, EngineOK, Positions
<1>2. price \in Int /\ gap \in Nat /\ MinStep \in Nat
    BY <1>1, QuoteTyped, BudgetAssumption DEF IInv
<1>. HIDE DEF price
<1>3. b \in Baselines /\ b.entry = base[p.ticket].entry
    BY <1>1, <1>2 DEF Seen, Baselines
<1>4. /\ base' = [base EXCEPT ![p.ticket] = b]
      /\ asked' = IF Applies(p, b, stop)
                  THEN asked \cup {[ticket |-> p.ticket, stop |-> stop]} ELSE asked
    BY DEF Trail, price
<1>. HIDE DEF b
<1>5. stop = Nothing \/ stop \in Int
    BY <1>2, <1>3 DEF Candidate, Ahead, Baselines
<1>6. ASSUME Applies(p, b, stop)
      PROVE  /\ stop \in Int
             /\ Gain(p.side, b.entry, stop) >= 0 /\ Gain(p.side, p.stop, stop) >= 0
    <2>1. stop \in Int /\ b.entry \in Int
        BY <1>3, <1>5, <1>6 DEF Applies, Baselines
    <2>2. CASE AtBreakeven(p, b)
        <3>1. Gain(p.side, p.stop, stop) >= MinStep /\ Gain(p.side, b.entry, p.stop) >= 0
            BY <1>6, <2>2 DEF Applies, AtBreakeven
        <3>. HIDE DEF stop
        <3>. QED
            BY <1>1, <1>2, <2>1, <3>1 DEF Gain
    <2>3. CASE ~AtBreakeven(p, b)
        <3>1. stop = b.entry /\ Gain(p.side, p.stop, stop) >= 0
            BY <1>6, <2>3 DEF Applies, Candidate
        <3>. HIDE DEF stop
        <3>. QED
            BY <2>1, <3>1 DEF Gain
    <2>. QED
        BY <2>1, <2>2, <2>3
<1>. HIDE DEF stop
<1>. QED
    BY <1>3, <1>4, <1>6

(* A change that is asked for is ahead of the baseline. *)
LEMMA TrailKeeps ==
    ASSUME IInv, NEW p \in book, NEW gap \in Gaps, Trail(p, gap)
    PROVE  IInv'
<1>1. PICK b \in Baselines :
          /\ b.entry = base[p.ticket].entry
          /\ base' = [base EXCEPT ![p.ticket] = b]
          /\ \/ asked' = asked
             \/ \E stop \in Int :
                   /\ asked' = asked \cup {[ticket |-> p.ticket, stop |-> stop]}
                   /\ Gain(p.side, b.entry, stop) >= 0 /\ Gain(p.side, p.stop, stop) >= 0
    BY TrailAsks
<1>2. /\ UNCHANGED <<bid, book, entry, sent, late, orders, unseen, strayed>>
      /\ \A c \in asked : c.ticket # p.ticket
    BY DEF Trail
<1>3. /\ DOMAIN base' = DOMAIN base
      /\ \A q \in book : base'[q.ticket] \in Baselines
                         /\ base'[q.ticket].entry = base[q.ticket].entry
    BY <1>1 DEF IInv, OfPositions, EngineOK
<1>4. ASSUME NEW c \in asked' \ asked
      PROVE  /\ c \in Changes /\ c.ticket = p.ticket /\ asked' = asked \cup {c}
             /\ Gain(p.side, base'[p.ticket].entry, c.stop) >= 0
             /\ Gain(p.side, p.stop, c.stop) >= 0
    <2>1. PICK stop \in Int :
              /\ asked' = asked \cup {[ticket |-> p.ticket, stop |-> stop]}
              /\ Gain(p.side, b.entry, stop) >= 0 /\ Gain(p.side, p.stop, stop) >= 0
        BY <1>1, <1>4
    <2>2. c = [ticket |-> p.ticket, stop |-> stop]
        BY <1>4, <2>1
    <2>3. p.ticket \in Nat
        BY DEF IInv, BrokerOK, Positions
    <2>. QED
        BY <1>1, <1>3, <2>1, <2>2, <2>3 DEF Changes
<1>5. EngineOK'
    <2>1. asked' \cup late' \subseteq Changes
        BY <1>2, <1>4 DEF IInv, EngineOK
    <2>2. base' \in [DOMAIN base' -> Baselines]
        BY <1>1 DEF IInv, EngineOK
    <2>. QED
        BY <1>2, <1>3, <2>1, <2>2 DEF IInv, EngineOK
<1>6. BrokerOK'
    BY <1>2 DEF IInv, BrokerOK
<1>7. OfPositions'
    <2>1. \A c \in asked' \cup late' : \E q \in book : q.ticket = c.ticket
        BY <1>2, <1>4 DEF IInv, OfPositions
    <2>2. \A c, d \in asked' : c.ticket = d.ticket => c = d
        BY <1>2, <1>4 DEF IInv, OfPositions
    <2>. QED
        BY <1>2, <1>3, <2>1, <2>2 DEF IInv, OfPositions
<1>8. AheadOfBase'
    <2>. SUFFICES ASSUME NEW q \in book, NEW c \in asked' \cup late', q.ticket = c.ticket
                  PROVE  /\ Gain(q.side, base'[q.ticket].entry, c.stop) >= 0
                         /\ (q.ticket \notin strayed => Gain(q.side, q.stop, c.stop) >= 0)
        BY <1>2 DEF AheadOfBase
    <2>1. CASE c \in asked \cup late
        BY <1>3, <2>1 DEF IInv, AheadOfBase
    <2>2. CASE c \in asked' \ asked
        <3>1. q = p
            BY <1>4, <2>2 DEF IInv, BrokerOK
        <3>. QED
            BY <1>4, <2>2, <3>1
    <2>. QED
        BY <1>2, <2>1, <2>2
<1>9. ListHolds'
    BY <1>2 DEF IInv, ListHolds
<1>10. Kept'
    BY <1>2, <1>6, StaysCovered, Shrinks DEF IInv
<1>. QED
    BY <1>5, <1>6, <1>7, <1>8, <1>9, <1>10 DEF IInv
(* A stop that moves leaves its position without excess. *)
LEMMA MovedStop ==
    ASSUME IInv, NEW c \in asked \cup late, MoveStop(c)
    PROVE  \E p \in book, q \in Positions :
              /\ p.ticket = c.ticket /\ book' = (book \ {p}) \cup {q}
              /\ q.ticket = p.ticket /\ q.side = p.side /\ q.lots = p.lots
              /\ q.entry = p.entry /\ q.wanted = p.wanted /\ q.stop = c.stop
              /\ RiskOf(q) <= LostAtFill(q) /\ Excess(q) = 0
<1>1. PICK p \in book : /\ p.ticket = c.ticket
                        /\ book' = (book \ {p}) \cup {[p EXCEPT !.stop = c.stop]}
    BY DEF MoveStop
<1>. DEFINE q == [p EXCEPT !.stop = c.stop]
<1>2. p \in Positions /\ c.stop \in Int
    BY DEF IInv, BrokerOK, EngineOK, Changes
<1>3. /\ q \in Positions /\ q.ticket = p.ticket /\ q.side = p.side /\ q.lots = p.lots
      /\ q.entry = p.entry /\ q.wanted = p.wanted /\ q.stop = c.stop
    BY <1>2 DEF Positions
<1>4. book' = (book \ {p}) \cup {q}
    BY <1>1
<1>. HIDE DEF q
<1>5. /\ base[p.ticket].entry \in {q.entry, q.wanted}
      /\ Gain(q.side, base[p.ticket].entry, q.stop) >= 0
    BY <1>1, <1>3 DEF IInv, OfPositions, AheadOfBase
<1>6. RiskOf(q) <= LostAtFill(q) /\ Excess(q) = 0
    BY <1>3, <1>5, SafeAhead
<1>. QED
    BY <1>1, <1>3, <1>4, <1>6

(* A stop that is moved leaves no risk beyond the loss of the fill. *)
LEMMA MoveKeeps ==
    ASSUME IInv, NEW c \in asked \cup late, MoveStop(c),
           UNCHANGED <<bid, entry, sent, base, orders, unseen, strayed>>,
           asked' \subseteq asked, late' \subseteq late,
           \A d \in asked' : d.ticket = c.ticket => d.ticket \in strayed
    PROVE  IInv'
<1>1. PICK p \in book, q \in Positions :
              /\ p.ticket = c.ticket /\ book' = (book \ {p}) \cup {q}
              /\ q.ticket = p.ticket /\ q.side = p.side /\ q.lots = p.lots
              /\ q.entry = p.entry /\ q.wanted = p.wanted /\ q.stop = c.stop
              /\ RiskOf(q) <= LostAtFill(q) /\ Excess(q) = 0
    BY MovedStop
<1>2. \A r \in book' : r = q \/ (r \in book /\ r # p /\ r.ticket # q.ticket)
    BY <1>1 DEF IInv, BrokerOK
<1>3. BrokerOK'
    <2>1. IsFiniteSet(book')
        BY <1>1, FS_AddElement, FS_Subset DEF IInv, BrokerOK
    <2>. QED
        BY <1>1, <1>2, <2>1 DEF IInv, BrokerOK
<1>4. EngineOK'
    BY DEF IInv, EngineOK
<1>5. OfPositions'
    <2>1. \A r \in book' : /\ r.ticket \in DOMAIN base
                           /\ base[r.ticket].entry \in {r.entry, r.wanted}
        BY <1>1, <1>2 DEF IInv, OfPositions
    <2>2. \A d \in asked' \cup late' : \E r \in book' : r.ticket = d.ticket
        BY <1>1 DEF IInv, OfPositions
    <2>. QED
        BY <2>1, <2>2 DEF IInv, OfPositions
<1>6. AheadOfBase'
    <2>. SUFFICES ASSUME NEW r \in book', NEW d \in asked' \cup late', r.ticket = d.ticket
                  PROVE  /\ Gain(r.side, base[r.ticket].entry, d.stop) >= 0
                         /\ (r.ticket \notin strayed => Gain(r.side, r.stop, d.stop) >= 0)
        BY DEF AheadOfBase
    <2>1. CASE r = q
        <3>1. Gain(r.side, base[r.ticket].entry, d.stop) >= 0
            BY <1>1, <2>1 DEF IInv, AheadOfBase
        <3>2. r.ticket \in strayed
            BY <1>1, <2>1 DEF IInv, OfPositions
        <3>. QED
            BY <3>1, <3>2
    <2>2. CASE r \in book
        BY <2>2 DEF IInv, AheadOfBase
    <2>. QED
        BY <1>2, <2>1, <2>2
<1>7. ListHolds'
    <2>1. ASSUME NEW r \in entry.rows, entry # Nothing
          PROVE  RiskOf(r) \in Nat
        BY <2>1, RiskTyped DEF IInv, EngineOK, Plans
    <2>. QED
        BY <1>1, <1>2, <2>1 DEF IInv, ListHolds
<1>8. Kept'
    <2>1. \A r \in book' : r.ticket \notin unseen' => Covered(r)
        BY <1>1, <1>2, StaysCovered DEF IInv, Covered
    <2>. QED
        BY <1>3, <2>1, Shrinks DEF IInv
<1>. QED
    BY <1>3, <1>4, <1>5, <1>6, <1>7, <1>8 DEF IInv

(* The answers to a change: made, not made, or none. *)
LEMMA ChangeKeeps ==
    ASSUME IInv, NEW c \in asked, Modified(c) \/ NotModified(c) \/ ChangeUnanswered(c)
    PROVE  IInv'
<1>1. CASE Modified(c)
    BY <1>1, MoveKeeps DEF Modified, IInv, OfPositions
<1>2. CASE NotModified(c) \/ ChangeUnanswered(c)
    <2>1. /\ UNCHANGED <<bid, book, entry, sent, base, orders, unseen>>
          /\ asked' = asked \ {c} /\ late' \subseteq late \cup {c}
          /\ strayed \subseteq strayed' /\ strayed' \subseteq strayed \cup {c.ticket}
          /\ late' = late \/ c.ticket \in strayed'
        BY <1>2 DEF NotModified, ChangeUnanswered
    <2>2. c.ticket \in 1..orders
        BY DEF IInv, OfPositions, BrokerOK
    <2>3. EngineOK'
        BY <2>1, <2>2 DEF IInv, EngineOK
    <2>4. BrokerOK'
        BY <2>1 DEF IInv, BrokerOK
    <2>5. OfPositions'
        BY <2>1 DEF IInv, OfPositions
    <2>6. AheadOfBase'
        BY <2>1 DEF IInv, AheadOfBase
    <2>7. ListHolds'
        BY <2>1 DEF IInv, ListHolds
    <2>8. Kept'
        BY <2>1, <2>4, StaysCovered, Shrinks DEF IInv
    <2>. QED
        BY <2>3, <2>4, <2>5, <2>6, <2>7, <2>8 DEF IInv
<1>. QED
    BY <1>1, <1>2

(* A change that was given up and comes late. *)
LEMMA LateKeeps ==
    ASSUME IInv, NEW c \in late, ModifiedLate(c)
    PROVE  IInv'
BY MoveKeeps DEF ModifiedLate, IInv, OfPositions

-----------------------------------------------------------------------------
(* The invariant. *)

(* At the start nothing is open. *)
LEMMA InitKeeps == Init => IInv
<1>. SUFFICES ASSUME Init PROVE IInv
    OBVIOUS
<1>1. EngineOK
    BY BudgetAssumption DEF Init, EngineOK
<1>2. BrokerOK
    BY FS_EmptySet DEF Init, BrokerOK
<1>3. OfPositions /\ AheadOfBase /\ ListHolds
    BY DEF Init, OfPositions, AheadOfBase, ListHolds
<1>4. Committed = {}
    BY DEF Init, Committed, Beyond, AtRisk, Counted
<1>5. Kept
    BY <1>4, FS_EmptySet, BudgetAssumption DEF Kept
<1>. QED
    BY <1>1, <1>2, <1>3, <1>5 DEF IInv

(* One step per action. *)
LEMMA NextKeeps == IInv /\ [Next]_vars => IInv'
<1>. SUFFICES ASSUME IInv, [Next]_vars PROVE IInv'
    OBVIOUS
<1>1. ASSUME NEW side \in Sides, NEW levels \in SUBSET Levels, Decide(side, levels)
      PROVE  IInv'
    BY <1>1, DecideKeeps
<1>2. ASSUME NEW rows \in SUBSET book, List(rows) PROVE IInv'
    BY <1>2, ListKeeps
<1>3. CASE Send
    BY <1>3, SendKeeps
<1>4. CASE Refuse \/ OrderUnanswered \/ Move
    BY <1>4, RestKeeps
<1>5. ASSUME NEW o \in sent, Reject(o) \/ \E told \in BOOLEAN : Fill(o, told) PROVE IInv'
    BY <1>5, RejectKeeps, FillKeeps
<1>6. ASSUME NEW p \in book, Close(p) \/ \E gap \in Gaps : Trail(p, gap) PROVE IInv'
    BY <1>6, CloseKeeps, TrailKeeps
<1>7. ASSUME NEW c \in asked, Modified(c) \/ NotModified(c) \/ ChangeUnanswered(c) PROVE IInv'
    BY <1>7, ChangeKeeps
<1>8. ASSUME NEW c \in late, ModifiedLate(c) PROVE IInv'
    BY <1>8, LateKeeps
<1>9. CASE UNCHANGED vars
    <2>1. UNCHANGED <<bid, book, entry, sent, asked, late, base, orders, unseen, strayed>>
        BY <1>9 DEF vars
    <2>. QED
        BY <2>1, PlanKeeps DEF IInv, EngineOK, ListHolds
<1>. QED
    BY <1>1, <1>2, <1>3, <1>4, <1>5, <1>6, <1>7, <1>8, <1>9 DEF Next

(* The inductive invariant of the risk budget: types, the relation of      *)
(* positions, orders, baselines and changes, the list that was read, and   *)
(* the risk that is committed, which never exceeds the limit on the total. *)
THEOREM Invariance == BudgetSpec => []IInv
<1>. QED
    BY InitKeeps, NextKeeps, PTL DEF BudgetSpec

(* The engine's and the broker's records have their shape (TypeOK).        *)
THEOREM TypeCorrect == BudgetSpec => []TypeOK
<1>1. IInv => TypeOK
    <2>. SUFFICES ASSUME IInv PROVE TypeOK
        OBVIOUS
    <2>1. \A p \in book : /\ p.ticket \in 1..orders /\ p.side \in Sides
                          /\ p.lots \in Nat \ {0} /\ p.stop \in Int
        BY DEF IInv, BrokerOK, Positions
    <2>2. \A c \in asked \cup late : c.ticket \in 1..orders /\ c.stop \in Int
        BY DEF IInv, BrokerOK, OfPositions, EngineOK, Changes
    <2>. QED
        BY <2>1, <2>2 DEF IInv, BrokerOK, EngineOK, TypeOK
<1>. QED
    BY Invariance, <1>1, PTL

(* The risk of all open positions stays under the limit on the total, save *)
(* for worse fills and positions no list showed (WithinBudget).            *)
THEOREM BudgetKept == BudgetSpec => []WithinBudget
<1>1. IInv => WithinBudget
    <2>. SUFFICES ASSUME IInv PROVE OpenRisk(Counted(book))
                                        <= Limits.aggregate + Slippage(Counted(book))
        BY DEF WithinBudget, Counted
    <2>1. /\ Counted(book) \in SUBSET Positions /\ IsFiniteSet(Counted(book))
          /\ \A p, q \in Counted(book) : p.ticket = q.ticket => p = q
        BY FS_Subset DEF IInv, BrokerOK, Counted
    <2>2. OpenRisk(Counted(book)) <= Cardinality(Beyond(Counted(book))) + Slippage(Counted(book))
        BY <2>1, RiskSplits
    <2>3. Beyond(Counted(book)) \in SUBSET Committed
        BY DEF Committed
    <2>4. Cardinality(Beyond(Counted(book))) <= Cardinality(Committed)
        BY <2>3, CommittedFinite, FS_Subset DEF IInv
    <2>5. /\ OpenRisk(Counted(book)) \in Nat /\ Slippage(Counted(book)) \in Nat
          /\ Cardinality(Beyond(Counted(book))) \in Nat
        <3>1. OpenRisk(Counted(book)) \in Nat
            BY <2>1, AtRiskFinite
        <3>2. Slippage(Counted(book)) \in Nat
            BY <2>1, SlippageFinite, FS_CardinalityType DEF Slippage
        <3>3. Cardinality(Beyond(Counted(book))) \in Nat
            BY <2>1, ExcessFinite, FS_CardinalityType
        <3>. QED
            BY <3>1, <3>2, <3>3
    <2>. QED
        BY <2>2, <2>4, <2>5, CommittedFinite, BudgetAssumption DEF IInv, Kept
<1>. QED
    BY Invariance, <1>1, PTL

(* A position is in the book as it was, or new, or its stop has moved.     *)
LEMMA BookMoves ==
    ASSUME IInv, [Next]_vars
    PROVE  \/ \A q \in book' : q \in book \/ \A p \in book : p.ticket # q.ticket
           \/ \E c \in asked \cup late : MoveStop(c)
<1>1. ASSUME NEW o \in sent, NEW told \in BOOLEAN, Fill(o, told)
      PROVE  \A q \in book' : q \in book \/ \A p \in book : p.ticket # q.ticket
    <2>. DEFINE q == [ticket |-> o.ticket, side |-> o.side,
                      entry |-> Executable(o.side, Quote), stop |-> o.stop,
                      lots |-> o.lots, wanted |-> o.entry]
    <2>1. book' = book \cup {q}
        BY <1>1 DEF Fill
    <2>2. q.ticket = o.ticket
        OBVIOUS
    <2>3. \A p \in book : p.ticket # o.ticket
        BY DEF IInv, BrokerOK
    <2>. HIDE DEF q
    <2>. QED
        BY <2>1, <2>2, <2>3
<1>2. CASE \/ \E side \in Sides, levels \in SUBSET Levels : Decide(side, levels)
           \/ \E rows \in SUBSET book : List(rows)
           \/ Send \/ Refuse \/ OrderUnanswered \/ Move \/ UNCHANGED vars
    BY <1>2 DEF Decide, List, Send, Refuse, OrderUnanswered, Move, vars
<1>3. CASE \/ \E o \in sent : Reject(o)
           \/ \E p \in book : Close(p) \/ \E gap \in Gaps : Trail(p, gap)
    BY <1>3 DEF Reject, Close, Trail
<1>4. CASE \/ \E c \in asked : Modified(c) \/ NotModified(c) \/ ChangeUnanswered(c)
           \/ \E c \in late : ModifiedLate(c)
    BY <1>4 DEF Modified, NotModified, ChangeUnanswered, ModifiedLate
<1>. QED
    BY <1>1, <1>2, <1>3, <1>4 DEF Next

(* A stop that went back belongs to a change that was given up. *)
LEMMA BackOnlyLate ==
    ASSUME IInv, [Next]_vars, NEW p \in book, NEW q \in book',
           p.ticket = q.ticket, Gain(p.side, p.stop, q.stop) < 0
    PROVE  p.ticket \in strayed /\ RiskOf(q) <= LostAtFill(q)
<1>1. q # p
    <2>1. SUFFICES ASSUME q = p PROVE FALSE
        OBVIOUS
    <2>2. p.stop \in Int
        BY DEF IInv, BrokerOK, Positions
    <2>3. Gain(p.side, p.stop, q.stop) = 0
        BY <2>1, <2>2 DEF Gain
    <2>4. ~(0 < 0)
        OBVIOUS
    <2>. QED
        BY <2>3, <2>4
<1>2. q \notin book
    BY <1>1 DEF IInv, BrokerOK
<1>3. PICK c \in asked \cup late : MoveStop(c)
    BY <1>2, BookMoves
<1>4. PICK r \in book, u \in Positions :
         /\ r.ticket = c.ticket /\ book' = (book \ {r}) \cup {u}
         /\ u.ticket = r.ticket /\ u.side = r.side /\ u.lots = r.lots
         /\ u.entry = r.entry /\ u.wanted = r.wanted /\ u.stop = c.stop
         /\ RiskOf(u) <= LostAtFill(u) /\ Excess(u) = 0
    BY <1>3, MovedStop
<1>5. q = u /\ p = r
    BY <1>2, <1>4 DEF IInv, BrokerOK
<1>6. r.ticket \notin strayed => Gain(r.side, r.stop, u.stop) >= 0
    BY <1>4 DEF IInv, AheadOfBase
<1>7. Gain(r.side, r.stop, u.stop) \in Int
    BY <1>4 DEF IInv, BrokerOK, Positions, Gain
<1>. QED
    BY <1>4, <1>5, <1>6, <1>7

(* A stop goes back only after a change of it was given up, and even then  *)
(* the position risks no more than its fill lost (StopGoesBackLate).       *)
THEOREM StopsBackOnlyLate == BudgetSpec => StopGoesBackLate
<1>1. IInv /\ [Next]_vars =>
          [\A p \in book, q \in book' :
              (p.ticket = q.ticket /\ Gain(p.side, p.stop, q.stop) < 0) =>
                  p.ticket \in strayed /\ RiskOf(q) <= LostAtFill(q)]_vars
    BY BackOnlyLate
<1>. QED
    BY Invariance, <1>1, PTL DEF BudgetSpec, StopGoesBackLate
=============================================================================

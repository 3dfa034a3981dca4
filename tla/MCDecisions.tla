----------------------------- MODULE MCDecisions -----------------------------
(* Small values for Decisions: an ATR of ten points for the stop, of two   *)
(* for the patterns.                                                       *)
EXTENDS Decisions

MCPa == [engulfBody |-> 1, pinSpan |-> 1, strongBody |-> 1, breakoutBody |-> 1,
         insideBody |-> 1, move |-> 2, zone |-> 0, near |-> 0, extension |-> 1]

Bar(o, h, l, c) == [open |-> o, high |-> h, low |-> l, close |-> c]

Levels(up, down) == [side \in Sides |-> IF side = "BUY" THEN down ELSE up]

NoZones == [side \in Sides |-> {}]

(* A few candles before, and any current one between two prices. *)
Bars ==
    {<<first, second, Bar(o, h, l, c)>> :
        first \in {Bar(1, 3, 0, 2), Bar(2, 2, 1, 1)},
        second \in {Bar(1, 2, 1, 2), Bar(2, 3, 1, 1)},
        o \in 0 .. 3, h \in 0 .. 4, l \in 0 .. 3, c \in 0 .. 4}

MCWindows ==
    [bars : {b \in Bars : /\ b[3].low <= b[3].open /\ b[3].low <= b[3].close
                          /\ b[3].high >= b[3].open /\ b[3].high >= b[3].close},
     before : {0, 4},
     pivots : {Levels({}, {}), Levels({3}, {1}), Levels({2}, {}), Levels({}, {2})},
     zones : {NoZones, [NoZones EXCEPT !["BUY"] = {[bottom |-> 0, top |-> 1]}]}]

MCFacts ==
    [stacked : Directions, beyond : BOOLEAN, shallow : BOOLEAN,
     score : {-60, -30, 0, 10, 60}, adx : {10, 15, 24, 31, 46}, di : Directions,
     volatility : {50, 100}, retraces : {"SELL", "NEUTRAL"}, phase : Directions]

Around(session, late, severe, bonus, support, resistance, affordable) ==
    [session |-> session, late |-> late, severe |-> severe,
     bonus |-> [side \in Sides |-> bonus], close |-> 100,
     support |-> support, resistance |-> resistance, affordable |-> affordable]

MCCircumstances ==
    {Around("PRIME", FALSE, FALSE, 2000, Nothing, Nothing, TRUE),
     Around("MODERATE", FALSE, FALSE, -500, Nothing, 107, TRUE),
     Around("PRIME", FALSE, TRUE, 2000, 93, 119, TRUE),
     Around("PRIME", FALSE, FALSE, 2000, 81, 107, TRUE),
     Around("BLOCKED", FALSE, FALSE, 2000, Nothing, Nothing, TRUE),
     Around("PRIME", TRUE, FALSE, 2000, Nothing, Nothing, TRUE),
     Around("PRIME", FALSE, FALSE, 2000, Nothing, Nothing, FALSE)}

MCMoves == {-3, 0, 2}

(* A broker behind UTC. *)
MCOffset == -1

MCDrift == [strong |-> 4, weak |-> 3, range |-> 2]

MCStopLevels ==
    {[stops |-> Nothing, freeze |-> Nothing, sl |-> Nothing, tp |-> Nothing],
     [stops |-> 5, freeze |-> 0, sl |-> Nothing, tp |-> Nothing],
     [stops |-> Nothing, freeze |-> Nothing, sl |-> 25, tp |-> 3]}

(* The symbol: a tick of two points that is worth six. *)
MCTruth == [tickSize |-> 2, tickValue |-> 6, min |-> 4, step |-> 4, max |-> 40]

Section ==
    [Empty EXCEPT !.tickSize = 2, !.tickValue = 6, !.contract = 3, !.min = 4 * Scale,
                  !.step = 4 * Scale, !.max = 40 * Scale]

Report(info, root, group) == [info |-> info, root |-> root, group |-> group]

VolumesOnly == [Empty EXCEPT !.min = 4 * Scale, !.step = 4 * Scale, !.max = 40 * Scale]

MCReports ==
    {Report(Section, Empty, Nothing),
     Report(Nothing, Section, Nothing),                                    \* flat
     Report([Section EXCEPT !.tickSize = Bad], Empty, VolumesOnly),        \* without a tick
     Report([Section EXCEPT !.min = Nothing], Empty, VolumesOnly),         \* over two sections
     Report([Section EXCEPT !.tickValue = 5, !.tickCurrency = "EUR"], Empty, Nothing),
     Report([Section EXCEPT !.tickValue = Nothing], Empty, Nothing),       \* by its contract
     Report([Section EXCEPT !.tickValue = Nothing, !.profit = "JPY"], Empty, Nothing),
     Report(Section, Empty, [VolumesOnly EXCEPT !.step = Bad]),
     Report([Section EXCEPT !.min = 4, !.step = 4], Empty, Nothing),       \* in plain lots
     Report([Section EXCEPT !.min = 0], Empty, Nothing),
     Report([Section EXCEPT !.max = Nothing], Empty, Nothing)}

MCAnswers == {Nothing} \union [ok : BOOLEAN, report : MCReports]

=============================================================================

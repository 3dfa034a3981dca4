--------------------------- MODULE DecisionsProofs ---------------------------
(***************************************************************************)
(* Why no entry is decided on an open candle, why the order boundary never *)
(* turns down on policy what the engine has approved, and why the history  *)
(* and the memory of the last entry keep the quota of range trades and the *)
(* cooldown: for every market, every candle and any number of restarts.    *)
(* And what an order is worth: when the last quote costs it its reward,    *)
(* and why it is sized by the broker's own terms.                          *)
(***************************************************************************)
EXTENDS Decisions, FiniteSetTheorems, WellFoundedInduction, TLAPS

(* The variables.  Of the prices and the report of an attempt nothing is   *)
(* asked here.                                                             *)
TypesOK ==
    /\ candle \in 0..MaxCandle /\ life \in Nat
    /\ seen = Nothing \/ seen \in Nat
    /\ attempt # Nothing =>
           attempt \in [stage : {"decided", "refused", "sent"}, candle : Nat,
                        clock : {"utc", "broker"}, decision : Verdicts,
                        reason : {Nothing, "policy", "reward"},
                        prices : {attempt.prices}, spec : {attempt.spec}]
    /\ lastEntry # Nothing => lastEntry \in [candle : Nat, side : Sides]
    /\ \A e \in opened : e.candle \in Nat /\ e.life \in 0..life
    /\ IsFiniteSet(rows)

(* What was asked of an attempt when it began is still so.                 *)
StillAllowed ==
    attempt # Nothing =>
        /\ seen # Nothing /\ attempt.candle = seen
        /\ attempt.candle > candle => attempt.clock = "utc" /\ Offset < 0
        /\ QuotaLeft(attempt.decision, attempt.candle)
        /\ ~Cooling(attempt.decision, attempt.candle)
        /\ attempt.stage = "refused" => attempt.reason # "policy"

(* The entries of this life are behind the cursor, and the last of those   *)
(* that were answered is remembered.                                       *)
Remembered ==
    /\ lastEntry # Nothing =>
           /\ seen # Nothing /\ lastEntry.candle <= seen
           /\ attempt # Nothing => lastEntry.candle < attempt.candle
    /\ \A e \in opened : e.life = life =>
           /\ seen # Nothing /\ e.candle <= seen
           /\ attempt # Nothing => e.candle < attempt.candle
           /\ e.logged =>
                  /\ lastEntry # Nothing
                  /\ \/ e.candle < lastEntry.candle
                     \/ e.candle = lastEntry.candle /\ e.side = lastEntry.side

IInv == TypesOK /\ StillAllowed /\ Remembered /\ RangeQuota /\ CooldownKept

-----------------------------------------------------------------------------
(* The candle that is found.                                               *)

(* The latest candle of a history is one of it. *)
LEMMA Latest ==
    ASSUME NEW n \in Nat, NEW now \in Int, NEW S,
           S = {k \in 0..n : k + Offset <= now}, S # {}
    PROVE  Max(S) \in S
<1>. DEFINE m == IF n <= now - Offset THEN n ELSE now - Offset
<1>1. m \in S /\ \A k \in S : m >= k
    BY FeedAssumption
<1>. HIDE DEF m
<1>. QED
    BY <1>1 DEF Max

(* The first endpoint that ends the loop is one that does. *)
LEMMA FirstEnding ==
    ASSUME NEW S \in SUBSET (1..4), S # {}
    PROVE  Min(S) \in S
<1>. DEFINE m == IF 1 \in S THEN 1 ELSE IF 2 \in S THEN 2 ELSE IF 3 \in S THEN 3 ELSE 4
<1>1. m \in S /\ \A k \in S : m <= k
    <2>1. \A k \in S : k \in Int /\ (k = 1 \/ k = 2 \/ k = 3 \/ k = 4)
        OBVIOUS
    <2>2. 1 \in S \/ 2 \in S \/ 3 \in S \/ 4 \in S
        BY <2>1
    <2>. QED
        BY <2>1, <2>2
<1>. HIDE DEF m
<1>. QED
    BY <1>1 DEF Min

(* What one attempt finds: the last closed candle of the endpoint that     *)
(* ended the loop, by the clock that came with the quote.                  *)
LEMMA TriedIsClosed ==
    ASSUME NEW c \in Nat, NEW f \in Tries(c), f.kind = "candle"
    PROVE  /\ f.last \in Nat /\ f.clock \in {"utc", "broker"}
           /\ f.last > c => f.clock = "utc" /\ Offset < 0
<1>1. PICK connected \in BOOLEAN, quote \in Quotes, answers \in [DOMAIN Endpoints -> AnswersAt(c)] :
          f = Tried(connected, quote, answers, c)
    BY DEF Tries
<1>. DEFINE now == Clock(quote, c)
            ending == {i \in DOMAIN Endpoints : Ends(answers, now, i)}
            clock == IF quote \in {"timed", "old"} THEN "broker" ELSE "utc"
            found == answers[Min(ending)]
            closed == Completed(found.bars, now)
<1>2. DOMAIN Endpoints = 1..4
    BY DEF Endpoints
<1>3. /\ now \in Int /\ now - Offset \in Int
      /\ quote \in {"timed", "old"} => now - Offset <= c
      /\ quote \notin {"timed", "old"} => now <= c
    <2>1. CASE quote = "timed"
        BY <2>1, FeedAssumption DEF Clock
    <2>2. CASE quote = "old"
        BY <2>2, FeedAssumption DEF Clock
    <2>3. CASE quote \in {"none", "zoned"}
        <3>1. now = c
            BY <2>3 DEF Clock
        <3>. QED
            BY <2>3, <3>1, FeedAssumption
    <2>4. CASE quote = "oldZoned"
        <3>1. now = c - 1
            BY <2>4 DEF Clock
        <3>. QED
            BY <2>4, <3>1, FeedAssumption
    <2>. QED
        BY <2>1, <2>2, <2>3, <2>4 DEF Quotes
<1>4. /\ connected /\ ending # {} /\ found.kind # "broken"
      /\ f = [kind |-> "candle", last |-> Max(closed), clock |-> clock]
    BY <1>1 DEF Tried
<1>5. Min(ending) \in ending
    BY <1>2, <1>4, FirstEnding
<1>6. found \in AnswersAt(c) /\ closed # {}
    BY <1>4, <1>5 DEF Ends
<1>. HIDE DEF now, ending, found
<1>7. PICK n \in Nat : found.bars = 0..n
    BY <1>6 DEF AnswersAt, Completed
<1>8. closed = {k \in 0..n : k + Offset <= now}
    BY <1>3, <1>7, FeedAssumption DEF Completed, Stamp
<1>9. Max(closed) \in closed
    BY <1>3, <1>6, <1>8, Latest
<1>. HIDE DEF closed
<1>. QED
    BY <1>3, <1>4, <1>8, <1>9, FeedAssumption

(* Whatever candle is found is closed, save for a broker behind UTC and a  *)
(* clock that is not the one of its candles (fetch_candles).                                    *)
LEMMA FoundIsClosed ==
    ASSUME NEW c \in Nat, NEW f \in FoundAt(c)
    PROVE  /\ f.last \in Nat /\ f.clock \in {"utc", "broker"}
           /\ f.last > c => f.clock = "utc" /\ Offset < 0
<1>1. f \in Tries(c) /\ f.kind = "candle"
    BY DEF FoundAt, Returned
<1>. QED
    BY <1>1, TriedIsClosed

-----------------------------------------------------------------------------
(* What is decided.                                                        *)

(* A side that a strong trend of its own strength allows is its own, and   *)
(* what such a trend is asked for at the boundary was asked before         *)
(* (strong_trend_validation_reason against the gates of                    *)
(* run_decision_engine).                                                   *)
LEMMA DecidedIsSound ==
    ASSUME NEW d \in Verdicts
    PROVE  Sound(d) /\ d.side \in Sides
<1>1. PICK r \in {ReadingOfWindow(w) : w \in Windows}, f \in Facts, x \in Circumstances :
          /\ d = Decide(r, MarketOf(f), x, AdxMin, Symbol, Timeframe)
          /\ d # Refusal
    BY DEF Verdicts
<1>. DEFINE m == MarketOf(f)
            side == Direction(r, m)
<1>2. /\ d = Draft(side, r, m, x) /\ Authorised(side, r, m)
      /\ Worthy(d, Confidence(side, r, m, x), m, x, AdxMin)
      /\ ActiveEntry(d, Symbol, Timeframe)
    BY <1>1 DEF Decide
<1>. HIDE DEF side
<1>3. /\ d.side = side /\ d.votes = Votes(side, r, m) /\ d.trend = m.trend
      /\ d.regime = m.regime /\ d.adx = m.adx /\ ~d.unsafe
    BY <1>2 DEF Draft, Worthy
<1>4. m.trend = TrendOf(f) /\ m.regime = RegimeOf(f) /\ m.adx = f.adx
    BY DEF MarketOf
<1>. HIDE DEF m
<1>5. StrongTrendConfirmed(d)
    <2>. SUFFICES ASSUME d.regime.kind = "STRONG_TREND", d.adx >= 45
                  PROVE  d.side = d.regime.side /\ (d.trend = d.side \/ d.structural)
        BY DEF StrongTrendConfirmed
    <2>1. m.regime.side # "NEUTRAL"
        <3>1. Sideways(f).kind # "STRONG_TREND"
            <4>1. CASE f.phase = "BUY"
                BY <4>1 DEF Sideways, Regime
            <4>2. CASE f.phase = "SELL"
                BY <4>2 DEF Sideways, Regime
            <4>3. CASE f.phase \notin {"BUY", "SELL"}
                BY <4>3 DEF Sideways, Regime
            <4>. QED
                BY <4>1, <4>2, <4>3
        <3>. QED
            BY <1>3, <1>4, <3>1 DEF RegimeOf, Regime, StrongTrend
    <2>2. d.side = d.regime.side
        BY <1>2, <1>3, <2>1 DEF Authorised, AllowedSides
    <2>3. CASE "trend" \in d.votes
        BY <1>3, <2>2, <2>3 DEF Votes
    <2>4. CASE "trend" \notin d.votes
        <3>1. "price_action" \in d.votes
            <4>1. d.votes # {}
                BY <1>2 DEF ActiveEntry
            <4>2. d.votes \subseteq {"trend", "price_action"}
                BY <1>3 DEF Votes
            <4>. QED
                BY <2>4, <4>1, <4>2
        <3>. QED
            BY <1>2, <2>2, <2>4, <3>1 DEF ActiveEntry
    <2>. QED
        BY <2>2, <2>3, <2>4
<1>. QED
    BY <1>2, <1>3, <1>5 DEF Sound, Authorised

-----------------------------------------------------------------------------
(* An entry that is made.                                                  *)

(* An attempt, refused, sent or not.                                       *)
LEMMA AttemptIs ==
    ASSUME IInv, attempt # Nothing
    PROVE  /\ attempt \in [stage : {"decided", "refused", "sent"}, candle : Nat,
                           clock : {"utc", "broker"}, decision : Verdicts,
                           reason : {Nothing, "policy", "reward"},
                           prices : {attempt.prices}, spec : {attempt.spec}]
           /\ attempt.candle \in Nat /\ attempt.decision \in Verdicts
           /\ seen = attempt.candle /\ attempt.decision.side \in Sides
BY DecidedIsSound DEF IInv, TypesOK, StillAllowed

(* A new entry keeps the cooldown: those of this life that the engine      *)
(* knows of are remembered by the last of them.                            *)
LEMMA EntryKeepsCooldown ==
    ASSUME IInv, attempt # Nothing, NEW logged \in BOOLEAN,
           opened' \in {opened, opened \union {Entry(logged)}}
    PROVE  CooldownKept'
<1>. DEFINE x == Entry(logged)
<1>1. /\ x.candle = attempt.candle /\ x.side = attempt.decision.side /\ x.life = life
      /\ x.kind \in {"RANGE", "choppy"} => attempt.decision.regime.kind \in Choppy
      /\ attempt.candle \in Nat
    BY AttemptIs DEF Entry, Choppy
<1>. HIDE DEF x
<1>2. ASSUME NEW e \in opened, e.side = x.side, x.kind \in {"RANGE", "choppy"},
             e.candle < x.candle, x.candle < e.candle + 2, e.logged, e.life = x.life
      PROVE  FALSE
    <2>1. /\ e.candle \in Nat /\ lastEntry # Nothing /\ lastEntry.candle \in Nat
          /\ lastEntry.candle < attempt.candle
          /\ \/ e.candle < lastEntry.candle
             \/ e.candle = lastEntry.candle /\ e.side = lastEntry.side
        BY <1>1, <1>2 DEF IInv, TypesOK, Remembered
    <2>2. lastEntry.side = attempt.decision.side => attempt.candle - lastEntry.candle >= 2
        BY <1>1, <1>2, <2>1 DEF IInv, StillAllowed, Cooling
    <2>. QED
        BY <1>1, <1>2, <2>1, <2>2
<1>3. ASSUME NEW f \in opened, x.candle < f.candle, x.life = f.life
      PROVE  FALSE
    BY <1>1, <1>3 DEF IInv, TypesOK, Remembered
<1>. SUFFICES ASSUME NEW e \in opened \union {x}, NEW f \in opened \union {x},
                     e.side = f.side, f.kind \in {"RANGE", "choppy"},
                     e.candle < f.candle, f.candle < e.candle + 2, e.logged, e.life = f.life
              PROVE  FALSE
    BY DEF CooldownKept, x
<1>4. CASE e \in opened /\ f \in opened
    BY <1>4 DEF IInv, CooldownKept
<1>5. CASE e \in opened /\ f = x
    BY <1>2, <1>5
<1>6. CASE e = x
    BY <1>1, <1>3, <1>6
<1>. QED
    BY <1>4, <1>5, <1>6

(* A new row keeps the quota: it was asked for when the entry was decided, *)
(* and rows have only gone since.                                          *)
LEMMA EntryKeepsQuota ==
    ASSUME IInv, attempt # Nothing, NEW logged, rows' = rows \union {Entry(logged)}
    PROVE  RangeQuota' /\ IsFiniteSet(rows')
<1>. DEFINE x == Entry(logged)
<1>1. /\ x.candle = attempt.candle
      /\ x.kind = "RANGE" => attempt.decision.regime.kind = "RANGE"
    BY DEF Entry
<1>. HIDE DEF x
<1>2. IsFiniteSet(rows) /\ IsFiniteSet(rows')
    BY FS_AddElement DEF IInv, TypesOK
<1>. SUFFICES ASSUME NEW s \in 0 .. Session(MaxCandle + 1)
              PROVE  Cardinality(RangeEntries(rows', s)) <= MaxRange
    BY <1>2 DEF RangeQuota
<1>3. IsFiniteSet(RangeEntries(rows, s)) /\ Cardinality(RangeEntries(rows, s)) \in Nat
    BY <1>2, FS_Subset, FS_CardinalityType DEF RangeEntries
<1>4. Cardinality(RangeEntries(rows, s)) <= MaxRange
    BY DEF IInv, RangeQuota
<1>5. CASE x.kind = "RANGE" /\ Session(x.candle) = s
    <2>1. Cardinality(RangeEntries(rows, s)) < MaxRange
        BY <1>1, <1>5 DEF IInv, StillAllowed, QuotaLeft
    <2>2. RangeEntries(rows', s) = RangeEntries(rows, s) \union {x}
        BY <1>5 DEF RangeEntries, x
    <2>3. \/ Cardinality(RangeEntries(rows', s)) = Cardinality(RangeEntries(rows, s))
          \/ Cardinality(RangeEntries(rows', s)) = Cardinality(RangeEntries(rows, s)) + 1
        BY <1>3, <2>2, FS_AddElement
    <2>. QED
        BY <1>3, <2>1, <2>3, CandleAssumption
<1>6. CASE ~(x.kind = "RANGE" /\ Session(x.candle) = s)
    <2>1. RangeEntries(rows', s) = RangeEntries(rows, s)
        BY <1>6 DEF RangeEntries, x
    <2>. QED
        BY <1>4, <2>1
<1>. QED
    BY <1>5, <1>6

(* Fewer rows are no more range entries.                                   *)
LEMMA FewerRows ==
    ASSUME IsFiniteSet(rows), rows' \subseteq rows
    PROVE  /\ IsFiniteSet(rows')
           /\ \A s : Cardinality(RangeEntries(rows', s)) <= Cardinality(RangeEntries(rows, s))
           /\ \A s : /\ Cardinality(RangeEntries(rows', s)) \in Nat
                     /\ Cardinality(RangeEntries(rows, s)) \in Nat
<1>1. IsFiniteSet(rows')
    BY FS_Subset
<1>2. ASSUME NEW s
      PROVE  /\ Cardinality(RangeEntries(rows', s)) <= Cardinality(RangeEntries(rows, s))
             /\ Cardinality(RangeEntries(rows', s)) \in Nat
             /\ Cardinality(RangeEntries(rows, s)) \in Nat
    <2>1. /\ IsFiniteSet(RangeEntries(rows, s)) /\ IsFiniteSet(RangeEntries(rows', s))
          /\ RangeEntries(rows', s) \subseteq RangeEntries(rows, s)
        BY <1>1, FS_Subset DEF RangeEntries
    <2>. QED
        BY <2>1, FS_Subset, FS_CardinalityType
<1>. QED
    BY <1>1, <1>2

-----------------------------------------------------------------------------
(* The steps.                                                              *)

(* A step that leaves the entries, the rows and this life alone.           *)
LEMMA CarriesOn ==
    ASSUME IInv, UNCHANGED <<opened, rows, life>>
    PROVE  RangeQuota' /\ CooldownKept'
BY DEF IInv, RangeQuota, CooldownKept

(* What a request for the history finds at this moment. *)
LEMMA HistoriesAre ==
    ASSUME IInv, NEW f \in Histories[candle]
    PROVE  /\ f.last \in Nat /\ f.clock \in {"utc", "broker"}
           /\ f.last > candle => f.clock = "utc" /\ Offset < 0
<1>1. candle \in 0..MaxCandle /\ candle \in Nat
    BY CandleAssumption DEF IInv, TypesOK
<1>2. Histories[candle] = FoundAt(candle)
    BY <1>1 DEF Histories
<1>. QED
    BY <1>1, <1>2, FoundIsClosed

(* A candle closes: an attempt on a candle that was closed stays on one.   *)
LEMMA CandleClosesKeeps ==
    ASSUME IInv, CandleCloses
    PROVE  IInv'
<1>1. /\ candle' = candle + 1 /\ candle' \in 0..MaxCandle /\ candle \in Nat
      /\ UNCHANGED <<seen, attempt, lastEntry, cachedTick, opened, rows, life>>
    BY CandleAssumption DEF CandleCloses, IInv, TypesOK
<1>2. TypesOK'
    BY <1>1 DEF IInv, TypesOK
<1>3. StillAllowed'
    <2>. SUFFICES ASSUME attempt # Nothing PROVE StillAllowed'
        BY <1>1 DEF StillAllowed
    <2>1. attempt.candle > candle' => attempt.candle > candle
        BY <1>1, AttemptIs
    <2>. QED
        BY <1>1, <2>1 DEF IInv, StillAllowed, QuotaLeft, Cooling
<1>4. Remembered'
    BY <1>1 DEF IInv, Remembered
<1>. QED
    BY <1>1, <1>2, <1>3, <1>4, CarriesOn DEF IInv

(* The cursor moves ahead while nothing is under way.                      *)
LEMMA CursorKeeps ==
    ASSUME IInv, Baseline \/ Lags
    PROVE  IInv'
<1>1. /\ UNCHANGED <<candle, attempt, lastEntry, cachedTick, opened, rows, life>>
      /\ seen' \in Nat /\ (seen # Nothing => attempt = Nothing /\ seen \in Nat /\ seen' > seen)
    <2>1. CASE Baseline
        BY <2>1, HistoriesAre DEF Baseline
    <2>2. CASE Lags
        <3>1. seen # Nothing /\ seen \in Nat
            BY <2>2 DEF Lags, Triggers, IInv, TypesOK
        <3>. QED
            BY <2>2, <3>1, HistoriesAre DEF Lags, Triggers
    <2>. QED
        BY <2>1, <2>2
<1>2. attempt = Nothing
    BY <1>1 DEF IInv, StillAllowed
<1>3. TypesOK' /\ StillAllowed'
    BY <1>1, <1>2 DEF IInv, TypesOK, StillAllowed
<1>4. Remembered'
    <2>1. CASE seen = Nothing
        BY <1>1, <1>2, <2>1 DEF IInv, Remembered
    <2>2. CASE seen # Nothing
        <3>1. lastEntry # Nothing => lastEntry.candle <= seen'
            BY <1>1, <2>2 DEF IInv, TypesOK, Remembered
        <3>2. \A e \in opened : e.life = life => e.candle <= seen'
            BY <1>1, <2>2 DEF IInv, TypesOK, Remembered
        <3>3. seen' # Nothing
            BY <1>1, CandleAssumption
        <3>. QED
            BY <1>1, <1>2, <3>1, <3>2, <3>3 DEF IInv, Remembered
    <2>. QED
        BY <2>1, <2>2
<1>. QED
    BY <1>1, <1>3, <1>4, CarriesOn DEF IInv

(* An attempt begins on a candle beyond the cursor, for a verdict that     *)
(* passes the gates.                                                       *)
LEMMA EvaluateKeeps ==
    ASSUME IInv, Evaluate
    PROVE  IInv'
<1>1. /\ attempt = Nothing /\ UNCHANGED <<candle, lastEntry, cachedTick, opened, rows, life>>
    BY DEF Evaluate
<1>2. PICK poll \in Histories[candle], history \in Histories[candle] :
          /\ Triggers(poll.last) /\ history.last >= poll.last
          /\ seen' = history.last
          /\ \/ attempt' = Nothing
             \/ \E d \in Verdicts :
                   /\ Passes(d, history.last)
                   /\ attempt' = [stage |-> "decided", candle |-> history.last,
                                clock |-> history.clock, decision |-> d,
                                reason |-> Nothing, prices |-> Nothing, spec |-> Nothing]
    BY DEF Evaluate
<1>3. /\ history.last \in Nat /\ history.clock \in {"utc", "broker"}
      /\ history.last > candle => history.clock = "utc" /\ Offset < 0
      /\ poll.last \in Nat
    BY HistoriesAre
<1>4. seen \in Nat /\ seen' \in Nat /\ seen' > seen /\ seen # Nothing /\ seen' # Nothing
    BY <1>2, <1>3, CandleAssumption DEF Triggers, IInv, TypesOK
<1>5. /\ lastEntry # Nothing => lastEntry.candle \in Nat /\ lastEntry.candle < seen'
      /\ \A e \in opened : e.life = life => e.candle \in Nat /\ e.candle < seen'
    BY <1>4 DEF IInv, TypesOK, Remembered
<1>6. CASE attempt' = Nothing
    <2>1. TypesOK' /\ StillAllowed'
        BY <1>1, <1>4, <1>6 DEF IInv, TypesOK, StillAllowed
    <2>2. Remembered'
        BY <1>1, <1>4, <1>5, <1>6 DEF IInv, Remembered
    <2>. QED
        BY <1>1, <2>1, <2>2, CarriesOn DEF IInv
<1>7. ASSUME NEW d \in Verdicts, Passes(d, history.last),
             attempt' = [stage |-> "decided", candle |-> history.last,
                         clock |-> history.clock, decision |-> d,
                         reason |-> Nothing, prices |-> Nothing, spec |-> Nothing]
      PROVE  IInv'
    <2>1. /\ attempt'.candle = seen' /\ attempt'.clock = history.clock /\ attempt'.decision = d
          /\ attempt'.reason = Nothing /\ attempt'.stage = "decided" /\ seen' = history.last
        BY <1>2, <1>7
    <2>2. TypesOK'
        <3>1. attempt' \in [stage : {"decided", "refused", "sent"}, candle : Nat,
                            clock : {"utc", "broker"}, decision : Verdicts,
                            reason : {Nothing, "policy", "reward"},
                            prices : {attempt'.prices}, spec : {attempt'.spec}]
            BY <1>3, <1>7
        <3>. QED
            BY <1>1, <1>4, <3>1 DEF IInv, TypesOK
    <2>3. StillAllowed'
        BY <1>1, <1>3, <1>4, <1>7, <2>1 DEF StillAllowed, Passes, QuotaLeft, Cooling
    <2>4. Remembered'
        BY <1>1, <1>4, <1>5, <2>1 DEF IInv, Remembered
    <2>. QED
        BY <1>1, <2>2, <2>3, <2>4, CarriesOn DEF IInv
<1>. QED
    BY <1>2, <1>6, <1>7

(* The order boundary: what it turns down, it turns down for the reward.   *)
LEMMA BoundaryKeeps ==
    ASSUME IInv, Stopped \/ Submit
    PROVE  IInv'
<1>1. /\ UNCHANGED <<candle, seen, lastEntry, opened, rows, life>> /\ attempt # Nothing
    BY DEF Stopped, Submit
<1>2. CASE attempt' = Nothing
    <2>1. TypesOK' /\ StillAllowed'
        BY <1>1, <1>2 DEF IInv, TypesOK, StillAllowed
    <2>2. Remembered'
        BY <1>1, <1>2 DEF IInv, Remembered
    <2>. QED
        BY <1>1, <2>1, <2>2, CarriesOn DEF IInv
<1>3. ASSUME NEW stage \in {"refused", "sent"}, NEW reason \in {attempt.reason, "reward"},
             NEW prices, NEW spec, stage = "refused" => reason = "reward",
             attempt' = [stage |-> stage, candle |-> attempt.candle, clock |-> attempt.clock,
                         decision |-> attempt.decision, reason |-> reason, prices |-> prices,
                         spec |-> spec]
      PROVE  IInv'
    <2>1. /\ attempt'.candle = attempt.candle /\ attempt'.clock = attempt.clock
          /\ attempt'.decision = attempt.decision /\ attempt'.stage = stage /\ attempt'.reason = reason
        BY <1>3
    <2>2. TypesOK'
        <3>1. attempt' \in [stage : {"decided", "refused", "sent"}, candle : Nat,
                            clock : {"utc", "broker"}, decision : Verdicts,
                            reason : {Nothing, "policy", "reward"},
                            prices : {attempt'.prices}, spec : {attempt'.spec}]
            BY <1>1, <1>3, AttemptIs
        <3>. QED
            BY <1>1, <3>1 DEF IInv, TypesOK
    <2>3. StillAllowed'
        BY <1>1, <1>3, <2>1 DEF IInv, StillAllowed, QuotaLeft, Cooling
    <2>4. Remembered'
        BY <1>1, <2>1 DEF IInv, Remembered
    <2>. QED
        BY <1>1, <2>2, <2>3, <2>4, CarriesOn DEF IInv
<1>4. CASE Submit
    <2>1. Sound(attempt.decision)
        BY <1>1, AttemptIs, DecidedIsSound
    <2>2. \/ attempt' = Nothing
          \/ \E prices : attempt' = [attempt EXCEPT !.stage = "refused", !.reason = "reward",
                                                   !.prices = prices]
          \/ \E spec : attempt' = [attempt EXCEPT !.stage = "sent", !.spec = spec]
        BY <1>4, <2>1 DEF Submit, Priced, Refused
    <2>3. ASSUME NEW prices, attempt' = [attempt EXCEPT !.stage = "refused", !.reason = "reward",
                                                       !.prices = prices]
          PROVE  IInv'
        <3>1. attempt' = [stage |-> "refused", candle |-> attempt.candle, clock |-> attempt.clock,
                          decision |-> attempt.decision, reason |-> "reward", prices |-> prices,
                          spec |-> attempt.spec]
            BY <1>1, <2>3, AttemptIs
        <3>. QED
            BY <1>3, <3>1
    <2>4. ASSUME NEW spec, attempt' = [attempt EXCEPT !.stage = "sent", !.spec = spec]
          PROVE  IInv'
        <3>1. attempt' = [stage |-> "sent", candle |-> attempt.candle, clock |-> attempt.clock,
                          decision |-> attempt.decision, reason |-> attempt.reason,
                          prices |-> attempt.prices, spec |-> spec]
            BY <1>1, <2>4, AttemptIs
        <3>. QED
            BY <1>3, <3>1
    <2>. QED
        BY <1>2, <2>2, <2>3, <2>4
<1>. QED
    BY <1>2, <1>4 DEF Stopped

(* The broker accepts, or it is not known whether it has.                  *)
LEMMA AnswersKeep ==
    ASSUME IInv, Answered \/ Unanswered
    PROVE  IInv'
<1>1. /\ attempt # Nothing /\ attempt' = Nothing /\ UNCHANGED <<candle, seen, life>>
      /\ candle \in 0..MaxCandle /\ life \in Nat
    BY DEF Answered, Unanswered, InFlight, IInv, TypesOK
<1>2. /\ attempt.candle \in Nat /\ seen = attempt.candle /\ seen # Nothing
      /\ attempt.decision.side \in Sides
    BY <1>1, AttemptIs DEF IInv, StillAllowed
<1>3. \A logged : /\ Entry(logged).candle = attempt.candle /\ Entry(logged).life = life
                  /\ Entry(logged).side = attempt.decision.side /\ Entry(logged).logged = logged
    BY DEF Entry
<1>4. \A e \in opened' : e.candle \in Nat /\ e.life \in 0..life
    <2>1. \A e \in opened : e.candle \in Nat /\ e.life \in 0..life
        BY DEF IInv, TypesOK
    <2>2. \A logged : Entry(logged).candle \in Nat /\ Entry(logged).life \in 0..life
        BY <1>1, <1>2, <1>3
    <2>. QED
        BY <2>1, <2>2 DEF Answered, Unanswered
<1>5. CooldownKept'
    BY <1>1, EntryKeepsCooldown DEF Answered, Unanswered
<1>6. CASE Answered
    <2>1. opened' = opened \union {Entry(TRUE)} /\ rows' = rows \union {Entry(TRUE)}
        BY <1>6 DEF Answered
    <2>2. /\ lastEntry' = [candle |-> attempt.candle, side |-> attempt.decision.side]
          /\ lastEntry' \in [candle : Nat, side : Sides] /\ lastEntry' # Nothing
          /\ lastEntry'.candle = attempt.candle /\ lastEntry'.side = attempt.decision.side
        BY <1>2, <1>6, CandleAssumption DEF Answered
    <2>3. RangeQuota' /\ IsFiniteSet(rows')
        BY <1>1, <2>1, EntryKeepsQuota
    <2>4. TypesOK'
        BY <1>1, <1>4, <2>2, <2>3 DEF IInv, TypesOK
    <2>5. Remembered'
        <3>1. ASSUME NEW e \in opened, e.life = life
              PROVE  e.candle \in Nat /\ e.candle < attempt.candle
            BY <1>1, <3>1 DEF IInv, TypesOK, Remembered
        <3>2. ASSUME NEW e \in opened', e.life = life
              PROVE  \/ e.candle \in Nat /\ e.candle < attempt.candle
                     \/ e.candle = attempt.candle /\ e.side = attempt.decision.side
            <4>1. CASE e \in opened
                BY <3>1, <3>2, <4>1
            <4>2. CASE e = Entry(TRUE)
                BY <1>3, <4>2
            <4>. QED
                BY <2>1, <4>1, <4>2
        <3>. QED
            BY <1>1, <1>2, <2>2, <3>2 DEF Remembered
    <2>. QED
        BY <1>1, <1>5, <2>3, <2>4, <2>5 DEF IInv, StillAllowed
<1>7. CASE Unanswered
    <2>1. /\ opened' \in {opened, opened \union {Entry(FALSE)}} /\ UNCHANGED <<lastEntry, rows>>
        BY <1>7 DEF Unanswered
    <2>2. RangeQuota'
        BY <2>1 DEF IInv, RangeQuota
    <2>3. TypesOK'
        BY <1>1, <1>4, <2>1 DEF IInv, TypesOK
    <2>4. Remembered'
        <3>1. \A e \in opened' : e \in opened \/ (e.candle = seen /\ ~e.logged)
            BY <1>2, <1>3, <2>1
        <3>2. ASSUME NEW e \in opened', e.life = life
              PROVE  /\ e.candle <= seen
                     /\ e.logged =>
                            /\ lastEntry # Nothing
                            /\ \/ e.candle < lastEntry.candle
                               \/ e.candle = lastEntry.candle /\ e.side = lastEntry.side
            BY <1>2, <3>1, <3>2 DEF IInv, Remembered
        <3>3. lastEntry # Nothing => lastEntry.candle <= seen
            BY DEF IInv, Remembered
        <3>. QED
            BY <1>1, <1>2, <2>1, <3>2, <3>3 DEF Remembered
    <2>. QED
        BY <1>1, <1>5, <2>2, <2>3, <2>4 DEF IInv, StillAllowed
<1>. QED
    BY <1>6, <1>7

(* Rows are pushed out of the history.                                     *)
LEMMA RowsPushedOutKeeps ==
    ASSUME IInv, RowsPushedOut
    PROVE  IInv'
<1>1. /\ rows' \subseteq rows /\ IsFiniteSet(rows)
      /\ UNCHANGED <<candle, seen, attempt, lastEntry, cachedTick, opened, life>>
    BY DEF RowsPushedOut, IInv, TypesOK
<1>2. TypesOK'
    BY <1>1, FewerRows DEF IInv, TypesOK
<1>3. \A s : /\ Cardinality(RangeEntries(rows', s)) \in Nat
             /\ Cardinality(RangeEntries(rows, s)) \in Nat
             /\ Cardinality(RangeEntries(rows', s)) <= Cardinality(RangeEntries(rows, s))
    BY <1>1, FewerRows
<1>4. RangeQuota'
    BY <1>3, CandleAssumption DEF IInv, RangeQuota
<1>5. StillAllowed'
    <2>1. ASSUME attempt # Nothing PROVE QuotaLeft(attempt.decision, attempt.candle)'
        BY <1>1, <1>3, <2>1, CandleAssumption DEF IInv, StillAllowed, QuotaLeft
    <2>. QED
        BY <1>1, <2>1 DEF IInv, StillAllowed, Cooling
<1>6. Remembered' /\ CooldownKept'
    BY <1>1 DEF IInv, Remembered, CooldownKept
<1>. QED
    BY <1>2, <1>4, <1>5, <1>6 DEF IInv

(* A new life has no entries of its own, and forgets those of the others.  *)
LEMMA RestartKeeps ==
    ASSUME IInv, Restart
    PROVE  IInv'
<1>1. /\ life' = life + 1 /\ life \in Nat /\ candle' = candle /\ rows' \subseteq rows
      /\ seen' = Nothing /\ attempt' = Nothing /\ lastEntry' = Nothing /\ IsFiniteSet(rows)
      /\ opened' = opened \/ (attempt # Nothing /\ opened' = opened \union {Entry(FALSE)})
    BY DEF Restart, InFlight, IInv, TypesOK
<1>2. \A e \in opened' : e.candle \in Nat /\ e.life \in 0..life
    <2>1. \A e \in opened : e.candle \in Nat /\ e.life \in 0..life
        BY DEF IInv, TypesOK
    <2>2. attempt # Nothing => Entry(FALSE).candle \in Nat /\ Entry(FALSE).life \in 0..life
        BY <1>1, AttemptIs DEF Entry
    <2>. QED
        BY <1>1, <2>1, <2>2
<1>3. TypesOK'
    BY <1>1, <1>2, FewerRows DEF IInv, TypesOK
<1>4. RangeQuota'
    BY <1>1, FewerRows, CandleAssumption DEF IInv, RangeQuota
<1>5. CooldownKept'
    BY <1>1, EntryKeepsCooldown DEF IInv, CooldownKept
<1>6. StillAllowed' /\ Remembered'
    BY <1>1, <1>2 DEF StillAllowed, Remembered
<1>. QED
    BY <1>3, <1>4, <1>5, <1>6 DEF IInv

-----------------------------------------------------------------------------
(* The report of the symbol.                                               *)

(* A set of natural numbers has a least one.                               *)
LEMMA Least ==
    ASSUME NEW S \in SUBSET Nat, S # {}
    PROVE  \E x \in S : \A y \in S : x <= y
<1>1. \E x \in S : \A y \in S : ~ (<<y, x>> \in OpToRel(<, Nat))
    <2>1. IsWellFoundedOn(OpToRel(<, Nat), Nat)
        BY NatLessThanWellFounded
    <2>. QED
        BY <2>1, WFMin
<1>2. PICK x \in S : \A y \in S : ~ (<<y, x>> \in {ss \in Nat \X Nat : ss[1] < ss[2]})
    BY <1>1 DEF OpToRel
<1>3. ASSUME NEW y \in S PROVE x <= y
    <2>1. <<y, x>> \in Nat \X Nat /\ <<y, x>>[1] = y /\ <<y, x>>[2] = x
        OBVIOUS
    <2>2. ~(<<y, x>>[1] < <<y, x>>[2])
        BY <1>2, <2>1
    <2>. QED
        BY <2>1, <2>2
<1>. QED
    BY <1>3

(* The least of a set is in it. *)
LEMMA Minimum ==
    ASSUME NEW S \in SUBSET Nat, S # {}
    PROVE  Min(S) \in S /\ \A y \in S : Min(S) <= y
BY Least DEF Min

(* And so is the greatest, if the set is bounded. *)
LEMMA Maximum ==
    ASSUME NEW S \in SUBSET Nat, S # {}, NEW n \in Nat, \A x \in S : x <= n
    PROVE  Max(S) \in S /\ \A x \in S : x <= Max(S)
<1>. DEFINE U == {m \in Nat : \A x \in S : x <= m}
<1>1. PICK m \in U : \A k \in U : m <= k
    BY Least
<1>2. m \in S
    <2>1. SUFFICES ASSUME m \notin S PROVE FALSE
        OBVIOUS
    <2>2. \A x \in S : x \in Nat /\ x <= m - 1
        BY <1>1, <2>1
    <2>3. m - 1 \in Nat
        <3>1. PICK y \in S : TRUE
            OBVIOUS
        <3>2. y \in Nat /\ m \in Nat /\ y <= m - 1
            BY <1>1, <2>2
        <3>. QED
            BY <3>2
    <2>4. m - 1 \in U
        BY <2>2, <2>3
    <2>. QED
        BY <1>1, <2>4
<1>3. \E y \in S : \A x \in S : y >= x
    BY <1>1, <1>2
<1>. QED
    BY <1>3 DEF Max

(* A product grows with its first factor.                                  *)
LEMMA Times ==
    ASSUME NEW a \in Int, NEW b \in Int, NEW n \in Nat, a <= b
    PROVE  a * n <= b * n
OBVIOUS

(* What a quotient is. *)
LEMMA Quotient ==
    ASSUME NEW a \in Int, NEW n \in Nat \ {0}, NEW q \in Int, q * n <= a, a < q * n + n
    PROVE  a \div n = q
<1>. DEFINE d == a \div n
<1>1. d \in Int /\ d * n <= a /\ a < d * n + n
    OBVIOUS
<1>. HIDE DEF d
<1>2. (d + 1) * n = d * n + n /\ (q + 1) * n = q * n + n /\ d * n \in Int /\ q * n \in Int
    BY <1>1
<1>3. ASSUME d + 1 <= q PROVE FALSE
    <2>1. (d + 1) * n <= q * n
        BY <1>1, <1>3, Times
    <2>. QED
        BY <1>1, <1>2, <2>1
<1>4. ASSUME q + 1 <= d PROVE FALSE
    <2>1. (q + 1) * n <= d * n
        BY <1>1, <1>4, Times
    <2>. QED
        BY <1>1, <1>2, <2>1
<1>5. d = q
    BY <1>1, <1>3, <1>4
<1>. QED
    BY <1>5 DEF d

(* An extended volume is converted back, one in plain lots to what Scale   *)
(* times is the broker's (extended_volume_to_lots).                        *)
LEMMA Converted ==
    ASSUME NEW v \in Volumes, NEW x,
           \/ x \in {Nothing, Bad, 0, Scale * Truth[v]}
           \/ v \in Plain /\ x = Truth[v]
    PROVE  ToLots(x) \in {Nothing, Bad, 0} \/ Meant(ToLots(x), v)
<1>1. Scale \in Nat \ {0} /\ Truth[v] \in Nat \ {0}
    BY SpecAssumption, ReportAssumption DEF Volumes
<1>2. CASE x \in {Nothing, Bad}
    BY <1>2 DEF ToLots, Usable
<1>3. CASE x = 0
    <2>1. 0 * Scale = 0 /\ 0 \in Int /\ 0 < 0 + Scale
        BY <1>1
    <2>2. 0 \div Scale = 0
        BY <1>1, <2>1, Quotient
    <2>. QED
        BY <1>3, <2>2 DEF ToLots, Usable
<1>4. ASSUME NEW n \in Nat
      PROVE  (Scale * n) \div Scale = n
    <2>1. n * Scale = Scale * n /\ Scale * n \in Int /\ Scale * n < n * Scale + Scale
        BY <1>1, <1>4
    <2>. QED
        BY <1>1, <1>4, <2>1, Quotient
<1>5. CASE x = Scale * Truth[v]
    <2>1. (Scale * Truth[v]) \div Scale = Truth[v]
        BY <1>1, <1>4
    <2>. QED
        BY <1>5, <2>1 DEF ToLots, Usable, Meant
<1>6. CASE v \in Plain /\ x = Truth[v]
    <2>1. PICK n \in 1 .. Truth[v] : Truth[v] = Scale * n
        BY <1>6, ReportAssumption
    <2>2. n \in Nat
        BY <1>1, <2>1
    <2>3. (Scale * n) \div Scale = n
        BY <1>4, <2>2
    <2>4. CASE Usable(x)
        <3>1. ToLots(x) = x \div Scale
            BY <2>4 DEF ToLots
        <3>2. x = Scale * n
            BY <1>6, <2>1
        <3>3. ToLots(x) = n
            BY <2>3, <3>1, <3>2
        <3>. QED
            BY <1>6, <2>1, <3>3 DEF Meant
    <2>5. CASE ~Usable(x)
        BY <2>5 DEF ToLots, Usable
    <2>. QED
        BY <2>4, <2>5
<1>. QED
    BY <1>2, <1>3, <1>5, <1>6

(* The value that is read is one of a section, or no section has one.      *)
LEMMA FirstIs ==
    ASSUME NEW params, NEW field, NEW missing, Nothing \in missing
    PROVE  LET x == FirstBeyond(params, field, missing)
           IN  \/ x = Nothing /\ \A s \in Sections : params.sections[s][field] \in missing
               \/ x \notin missing /\ \E s \in Sections : x = params.sections[s][field]
<1>. DEFINE order == <<"info", "root", "group">>
            having == {i \in 1 .. 3 : params.sections[order[i]][field] \notin missing}
<1>1. /\ \A i \in 1 .. 3 : order[i] \in Sections
      /\ \A s \in Sections : \E i \in 1 .. 3 : order[i] = s
    <2>1. order[1] = "info" /\ order[2] = "root" /\ order[3] = "group"
        OBVIOUS
    <2>2. \A i \in 1 .. 3 : i = 1 \/ i = 2 \/ i = 3
        OBVIOUS
    <2>3. 1 \in 1 .. 3 /\ 2 \in 1 .. 3 /\ 3 \in 1 .. 3
        OBVIOUS
    <2>. QED
        BY <2>1, <2>2, <2>3 DEF Sections
<1>2. FirstBeyond(params, field, missing) =
          IF having = {} THEN Nothing ELSE params.sections[order[Min(having)]][field]
    BY DEF FirstBeyond
<1>. HIDE DEF order
<1>3. CASE having = {}
    BY <1>1, <1>2, <1>3
<1>4. CASE having # {}
    <2>1. Min(having) \in having
        BY <1>4, Minimum
    <2>. QED
        BY <1>1, <1>2, <1>4, <2>1
<1>. QED
    BY <1>3, <1>4

(* Two reports that agree on a field are read alike.                       *)
LEMMA FirstAgrees ==
    ASSUME NEW p, NEW q, NEW field, NEW missing,
           \A s \in Sections : p.sections[s][field] = q.sections[s][field]
    PROVE  FirstBeyond(p, field, missing) = FirstBeyond(q, field, missing)
<1>. DEFINE order == <<"info", "root", "group">>
            having(r) == {i \in 1 .. 3 : r.sections[order[i]][field] \notin missing}
<1>1. \A i \in 1 .. 3 : order[i] \in Sections
    <2>1. order[1] = "info" /\ order[2] = "root" /\ order[3] = "group"
        OBVIOUS
    <2>2. \A i \in 1 .. 3 : i = 1 \/ i = 2 \/ i = 3
        OBVIOUS
    <2>. QED
        BY <2>1, <2>2 DEF Sections
<1>2. \A r : FirstBeyond(r, field, missing) =
          IF having(r) = {} THEN Nothing ELSE r.sections[order[Min(having(r))]][field]
    BY DEF FirstBeyond
<1>. HIDE DEF order
<1>3. having(p) = having(q)
    BY <1>1
<1>4. having(q) # {} => Min(having(q)) \in 1 .. 3
    BY Minimum
<1>. HIDE DEF having
<1>. QED
    BY <1>1, <1>2, <1>3, <1>4

(* What a truthful report leaves after the conversion: volumes that are    *)
(* meant, or such as nobody can use; and a value of a tick or a contract that is     *)
(* right wherever its currency lets it be read.                            *)
Shaped(p) ==
    /\ p = [sections |-> p.sections, units |-> p.units, error |-> p.error]
    /\ p.sections = [s \in Sections |-> [f \in Fields |-> p.sections[s][f]]]

TrueParams(p) ==
    /\ \A s \in Sections, v \in Volumes :
           p.sections[s][v] \in {Nothing, Bad, 0} \/ Meant(p.sections[s][v], v)
    /\ p.units = "lots" \/ \A s \in Sections, v \in Volumes : p.sections[s][v] = Nothing
    /\ First(p, "tickCurrency") \in {Nothing, Currency} =>
           \A s \in Sections : p.sections[s]["tickValue"] \in {Nothing, Bad, Truth.tickValue}
    /\ \/ First(p, "profit") = Nothing /\ Currency = "USD" /\ Gold
       \/ First(p, "profit") = Currency
       => \A s \in Sections : p.sections[s]["contract"] \notin {Nothing, Bad} =>
              /\ p.sections[s]["contract"] \in Nat
              /\ p.sections[s]["contract"] * Truth.tickSize = Truth.tickValue

(* The volumes of a report that passes are those meant, and so is the      *)
(* worth of a tick whose size is known (build_symbol_risk_spec).           *)
LEMMA SpecIsTrue ==
    ASSUME NEW p, TrueParams(p), SpecOf(p) # Nothing
    PROVE  /\ \A v \in {"min", "step", "max"} : Meant(SpecOf(p)[v], v)
           /\ TickSizeOf(p) = Truth.tickSize =>
                  SpecOf(p).tickSize = Truth.tickSize /\ SpecOf(p).tickValue = Truth.tickValue
<1>. DEFINE spec == [tickSize |-> FirstUsable(p, "tickSize"), tickValue |-> TickValue(p),
                     min |-> LotsOf(p, "min"), step |-> LotsOf(p, "step"),
                     max |-> LotsOf(p, "max")]
<1>1. SpecOf(p) = spec /\ spec.tickValue # Nothing /\ Plausible(spec, p)
    BY DEF SpecOf
<1>2. ASSUME NEW v \in Volumes
      PROVE  Meant(LotsOf(p, v), v)
    <2>1. spec[v] = LotsOf(p, v) /\ spec[v] \notin {Nothing, Bad} /\ spec[v] > 0
        BY <1>1, <1>2 DEF Plausible, Usable, Volumes
    <2>2. \/ First(p, v) = Nothing
          \/ \E s \in Sections : First(p, v) = p.sections[s][v]
        BY FirstIs DEF First
    <2>3. First(p, v) \in {Nothing, Bad, 0} \/ Meant(First(p, v), v)
        BY <1>2, <2>2 DEF TrueParams
    <2>4. p.units = "lots"
        <3>. SUFFICES ASSUME p.units # "lots" PROVE FALSE
            OBVIOUS
        <3>1. First(p, v) = Nothing
            BY <1>2, <2>2 DEF TrueParams
        <3>. QED
            BY <2>1, <3>1 DEF LotsOf, ToLots, Usable
    <2>5. LotsOf(p, v) = First(p, v)
        BY <2>4 DEF LotsOf
    <2>6. ~(0 > 0)
        OBVIOUS
    <2>. QED
        BY <2>1, <2>3, <2>5, <2>6
<1>3. ASSUME TickSizeOf(p) = Truth.tickSize
      PROVE  spec.tickSize = Truth.tickSize /\ TickValue(p) = Truth.tickValue
    <2>1. FirstUsable(p, "tickSize") = Truth.tickSize
        BY <1>3 DEF TickSizeOf
    <2>2. TickValue(p) # Nothing
        BY <1>1
    <2>3. \/ FirstUsable(p, "tickValue") = Nothing
          \/ /\ FirstUsable(p, "tickValue") \notin {Nothing, Bad}
             /\ \E s \in Sections : FirstUsable(p, "tickValue") = p.sections[s]["tickValue"]
        BY FirstIs DEF FirstUsable
    <2>4. \/ FirstUsable(p, "contract") = Nothing
          \/ /\ FirstUsable(p, "contract") \notin {Nothing, Bad}
             /\ \E s \in Sections : FirstUsable(p, "contract") = p.sections[s]["contract"]
        BY FirstIs DEF FirstUsable
    <2>5. CASE FirstUsable(p, "tickValue") # Nothing
        <3>1. /\ First(p, "tickCurrency") \in {Nothing, Currency}
              /\ TickValue(p) = FirstUsable(p, "tickValue")
            BY <2>2, <2>5 DEF TickValue
        <3>. QED
            BY <2>1, <2>3, <2>5, <3>1 DEF TrueParams
    <2>6. CASE FirstUsable(p, "tickValue") = Nothing
        <3>. DEFINE contract == FirstUsable(p, "contract")
        <3>1. /\ contract # Nothing
              /\ \/ First(p, "profit") = Nothing /\ Currency = "USD" /\ Gold
                 \/ First(p, "profit") = Currency
              /\ TickValue(p) = Truth.tickSize * contract
            BY <2>1, <2>2, <2>6 DEF TickValue
        <3>2. contract \in Nat /\ contract * Truth.tickSize = Truth.tickValue
            BY <2>4, <3>1 DEF TrueParams
        <3>3. Truth.tickSize \in Nat
            BY ReportAssumption
        <3>. HIDE DEF contract
        <3>4. Truth.tickSize * contract = contract * Truth.tickSize
            BY <3>2, <3>3
        <3>. QED
            BY <2>1, <3>1, <3>2, <3>4
    <2>. QED
        BY <2>1, <2>5, <2>6
<1>4. /\ spec.min = LotsOf(p, "min") /\ spec.step = LotsOf(p, "step")
      /\ spec.max = LotsOf(p, "max") /\ spec.tickValue = TickValue(p)
    OBVIOUS
<1>. HIDE DEF spec
<1>. QED
    BY <1>1, <1>2, <1>3, <1>4 DEF Volumes

(* A report is converted once, section by section                          *)
(* (_normalize_symbol_params).                                             *)
LEMMA NormalIsTrue ==
    ASSUME NEW report, Truthful(report, Truth)
    PROVE  /\ Shaped(Normalize(report)) /\ TrueParams(Normalize(report))
           /\ \A s \in Sections :
                 Normalize(report).sections[s]["tickSize"] \in {Nothing, Bad, Truth.tickSize}
<1>. DEFINE source == [s \in Sections |->
                         IF report[s] # Nothing THEN report[s]
                         ELSE IF s = "info" THEN report.root ELSE Empty]
            sections == {report.info, report.root, report.group} \ {Nothing}
            p == Normalize(report)
<1>1. /\ Shaped(p) /\ p.units = "lots"
      /\ \A s \in Sections, f \in Fields :
            p.sections[s][f] = IF f \in Volumes THEN ToLots(source[s][f]) ELSE source[s][f]
    BY DEF Normalize, Shaped
<1>2. /\ report.root # Nothing
      /\ \A s \in Sections : source[s] \in sections \/ source[s] = Empty
      /\ \A t \in sections : \E s \in Sections : t = source[s]
    BY DEF Truthful, Sections
<1>3. \A f \in Fields : Empty[f] = Nothing
    BY DEF Empty
<1>4. Fields = {"tickSize", "tickValue", "tickCurrency", "contract", "profit", "min", "step", "max"}
    BY DEF Fields, Volumes
<1>5. ASSUME NEW s \in Sections, NEW v \in Volumes
      PROVE  p.sections[s][v] \in {Nothing, Bad, 0} \/ Meant(p.sections[s][v], v)
    <2>1. \/ source[s][v] \in {Nothing, Bad, 0, Scale * Truth[v]}
          \/ v \in Plain /\ source[s][v] = Truth[v]
        BY <1>2, <1>3 DEF Truthful, TruthfulVolumes, Fields
    <2>2. p.sections[s][v] = ToLots(source[s][v])
        BY <1>1 DEF Fields
    <2>. HIDE DEF source, p
    <2>. QED
        BY <2>1, <2>2, Converted
<1>6. ASSUME NEW f \in Fields \ Volumes
      PROVE  /\ \A s \in Sections : p.sections[s][f] = source[s][f]
             /\ \A s \in Sections : p.sections[s][f] = Nothing \/ source[s] \in sections
    BY <1>1, <1>2, <1>3
<1>7. ASSUME NEW f \in Fields \ Volumes
      PROVE  /\ First(p, f) = Nothing => \A t \in sections : t[f] = Nothing
             /\ First(p, f) = Currency => \E t \in sections : t[f] = Currency
    <2>1. \/ First(p, f) = Nothing /\ \A s \in Sections : p.sections[s][f] = Nothing
          \/ First(p, f) # Nothing /\ \E s \in Sections : First(p, f) = p.sections[s][f]
        BY FirstIs DEF First
    <2>. HIDE DEF source, p, sections
    <2>. QED
        BY <1>2, <1>6, <2>1, SpecAssumption
<1>8. {"tickSize", "tickValue", "tickCurrency", "contract", "profit"} \subseteq Fields \ Volumes
    BY <1>4 DEF Volumes
<1>9. /\ \A t \in sections : t["tickSize"] \in {Nothing, Bad, Truth.tickSize}
      /\ \/ \A t \in sections : t["tickCurrency"] = Nothing
         \/ \E t \in sections : t["tickCurrency"] = Currency
         => \A t \in sections : t["tickValue"] \in {Nothing, Bad, Truth.tickValue}
      /\ \/ (\A t \in sections : t["profit"] = Nothing) /\ Currency = "USD" /\ Gold
         \/ \E t \in sections : t["profit"] = Currency
         => \A t \in sections : t["contract"] \notin {Nothing, Bad} =>
                t["contract"] \in Nat /\ t["contract"] * Truth.tickSize = Truth.tickValue
    BY DEF Truthful
<1>. HIDE DEF source, p, sections
<1>10. \A s \in Sections : p.sections[s]["tickSize"] \in {Nothing, Bad, Truth.tickSize}
    BY <1>6, <1>8, <1>9
<1>11. First(p, "tickCurrency") \in {Nothing, Currency} =>
           \A s \in Sections : p.sections[s]["tickValue"] \in {Nothing, Bad, Truth.tickValue}
    BY <1>6, <1>7, <1>8, <1>9
<1>12. \/ First(p, "profit") = Nothing /\ Currency = "USD" /\ Gold
       \/ First(p, "profit") = Currency
       => \A s \in Sections : p.sections[s]["contract"] \notin {Nothing, Bad} =>
              /\ p.sections[s]["contract"] \in Nat
              /\ p.sections[s]["contract"] * Truth.tickSize = Truth.tickValue
    <2>. SUFFICES ASSUME \/ First(p, "profit") = Nothing /\ Currency = "USD" /\ Gold
                         \/ First(p, "profit") = Currency,
                         NEW s \in Sections, p.sections[s]["contract"] \notin {Nothing, Bad}
                  PROVE  /\ p.sections[s]["contract"] \in Nat
                         /\ p.sections[s]["contract"] * Truth.tickSize = Truth.tickValue
        OBVIOUS
    <2>1. source[s] \in sections /\ p.sections[s]["contract"] = source[s]["contract"]
        BY <1>6, <1>8
    <2>. QED
        BY <1>6, <1>7, <1>8, <1>9, <2>1
<1>. QED
    BY <1>1, <1>5, <1>10, <1>11, <1>12 DEF TrueParams, p

(* Another tick size leaves the rest of a report as it is                  *)
(* (_with_tick_size).                                                      *)
LEMMA TickSet ==
    ASSUME NEW p, NEW t, Shaped(p), TrueParams(p)
    PROVE  /\ TrueParams(WithTickSize(p, t))
           /\ t \notin {Nothing, Bad} => TickSizeOf(WithTickSize(p, t)) = t
<1>. DEFINE q == WithTickSize(p, t)
<1>1. Fields = {"tickSize", "tickValue", "tickCurrency", "contract", "profit", "min", "step", "max"}
    BY DEF Fields, Volumes
<1>2. /\ q.units = p.units
      /\ \A s \in Sections, f \in Fields \ {"tickSize"} : q.sections[s][f] = p.sections[s][f]
      /\ q.sections["info"]["tickSize"] = t
    <2>1. /\ p = [sections |-> p.sections, units |-> p.units, error |-> p.error]
          /\ p.sections = [s \in Sections |-> [f \in Fields |-> p.sections[s][f]]]
        BY DEF Shaped
    <2>2. q = [p EXCEPT !.sections = [p.sections EXCEPT !["info"] =
                                        [p.sections["info"] EXCEPT !.tickSize = t]]]
        BY DEF WithTickSize
    <2>3. /\ q.units = p.units
          /\ q.sections = [p.sections EXCEPT !["info"] =
                              [p.sections["info"] EXCEPT !.tickSize = t]]
        BY <2>1, <2>2
    <2>4. "info" \in Sections /\ "tickSize" \in Fields
        BY <1>1 DEF Sections
    <2>5. \A s \in Sections \ {"info"} : q.sections[s] = p.sections[s]
        BY <2>1, <2>3
    <2>6. /\ q.sections["info"] = [p.sections["info"] EXCEPT !.tickSize = t]
          /\ p.sections["info"] = [f \in Fields |-> p.sections["info"][f]]
        BY <2>1, <2>3, <2>4
    <2>7. /\ q.sections["info"]["tickSize"] = t
          /\ \A f \in Fields \ {"tickSize"} : q.sections["info"][f] = p.sections["info"][f]
        BY <2>4, <2>6
    <2>. QED
        BY <2>3, <2>5, <2>7
<1>. HIDE DEF q
<1>3. /\ First(q, "tickCurrency") = First(p, "tickCurrency")
      /\ First(q, "profit") = First(p, "profit")
    <2>1. "tickCurrency" \in Fields \ {"tickSize"} /\ "profit" \in Fields \ {"tickSize"}
        BY <1>1
    <2>. QED
        BY <1>2, <2>1, FirstAgrees DEF First
<1>4. TrueParams(q)
    <2>1. /\ Volumes \subseteq Fields \ {"tickSize"}
          /\ "tickValue" \in Fields \ {"tickSize"} /\ "contract" \in Fields \ {"tickSize"}
        BY <1>1 DEF Volumes
    <2>. QED
        BY <1>2, <1>3, <2>1 DEF TrueParams
<1>5. ASSUME t \notin {Nothing, Bad} PROVE TickSizeOf(q) = t
    <2>. DEFINE order == <<"info", "root", "group">>
                having == {i \in 1 .. 3 : q.sections[order[i]]["tickSize"] \notin {Nothing, Bad}}
    <2>1. order[1] = "info"
        OBVIOUS
    <2>2. TickSizeOf(q) = IF having = {} THEN Nothing
                          ELSE q.sections[order[Min(having)]]["tickSize"]
        BY DEF TickSizeOf, FirstUsable, FirstBeyond
    <2>. HIDE DEF order
    <2>3. 1 \in having
        <3>1. 1 \in 1 .. 3
            OBVIOUS
        <3>2. q.sections[order[1]]["tickSize"] = t
            BY <1>2, <2>1
        <3>. QED
            BY <1>5, <3>1, <3>2
    <2>4. having \in SUBSET (1 .. 3) /\ having \in SUBSET Nat /\ having # {}
        BY <2>3
    <2>. HIDE DEF having
    <2>5. Min(having) \in having /\ Min(having) <= 1
        BY <2>3, <2>4, Minimum
    <2>6. Min(having) = 1
        <3>1. Min(having) \in 1 .. 3 /\ Min(having) <= 1
            BY <2>4, <2>5
        <3>2. \A m \in 1 .. 3 : m <= 1 => m = 1
            OBVIOUS
        <3>. QED
            BY <3>1, <3>2
    <2>7. TickSizeOf(q) = q.sections["info"]["tickSize"]
        <3>1. order[Min(having)] = "info"
            BY <2>1, <2>6
        <3>. QED
            BY <2>2, <2>4, <3>1
    <2>. QED
        BY <1>2, <2>7
<1>. QED
    BY <1>4, <1>5 DEF q

(* Without any report there is nothing that could be wrong.                *)
LEMMA NoneIsTrue == Shaped(NoParams) /\ TrueParams(NoParams)
<1>1. \A s \in Sections, f \in Fields : NoParams.sections[s][f] = Nothing
    BY DEF NoParams, Empty
<1>2. Shaped(NoParams)
    BY DEF Shaped, NoParams, Empty
<1>3. {"tickValue", "contract"} \union Volumes \subseteq Fields
    BY DEF Fields
<1>. QED
    BY <1>1, <1>2, <1>3 DEF TrueParams

(* Whatever the attempts bring, what is kept of them is true, and a tick   *)
(* size that is remembered is the broker's (get_symbol_params).            *)
LEMMA FetchIsTrue ==
    ASSUME NEW cached \in {Nothing, Truth.tickSize}, NEW answers \in [1 .. Attempts -> Answers]
    PROVE  LET fetch == Fetch(answers, cached)
           IN  /\ TrueParams(fetch.params)
               /\ fetch.tick \in {Nothing, Truth.tickSize}
               /\ fetch.tick # Nothing => TickSizeOf(fetch.params) = Truth.tickSize
<1>. DEFINE made == IF cached # Nothing THEN 1 ELSE Attempts
            params(i) == Normalize(answers[i].report)
            loaded == {i \in 1 .. made : /\ answers[i] # Nothing /\ answers[i].ok
                                         /\ TickSizeOf(params(i)) # Nothing}
            arrived == {i \in 1 .. made : answers[i] # Nothing}
            last == IF arrived = {} THEN NoParams ELSE params(Max(arrived))
            fetch == Fetch(answers, cached)
<1>1. made \in Nat /\ \A i \in 1 .. made : i \in 1 .. Attempts
    BY SpecAssumption
<1>2. Truth.tickSize \notin {Nothing, Bad}
    BY SpecAssumption, ReportAssumption
<1>3. ASSUME NEW i \in arrived
      PROVE  /\ Shaped(params(i)) /\ TrueParams(params(i))
             /\ TickSizeOf(params(i)) \in {Nothing, Truth.tickSize}
    <2>1. answers[i] \in Answers \ {Nothing}
        BY <1>1
    <2>2. Truthful(answers[i].report, Truth)
        BY <2>1, ReportAssumption
    <2>3. /\ Shaped(params(i)) /\ TrueParams(params(i))
          /\ \A s \in Sections : params(i).sections[s]["tickSize"] \in {Nothing, Bad, Truth.tickSize}
        BY <2>2, NormalIsTrue
    <2>4. \/ TickSizeOf(params(i)) = Nothing
          \/ /\ TickSizeOf(params(i)) \notin {Nothing, Bad}
             /\ \E s \in Sections : TickSizeOf(params(i)) = params(i).sections[s]["tickSize"]
        BY FirstIs DEF TickSizeOf, FirstUsable
    <2>. HIDE DEF params
    <2>. QED
        BY <2>3, <2>4
<1>4. Shaped(last) /\ TrueParams(last)
    <2>1. CASE arrived = {}
        BY <2>1, NoneIsTrue
    <2>2. CASE arrived # {}
        <3>1. arrived \in SUBSET Nat /\ \A i \in arrived : i <= made
            BY <1>1
        <3>2. Max(arrived) \in arrived
            BY <1>1, <2>2, <3>1, Maximum
        <3>. HIDE DEF arrived, params
        <3>. QED
            BY <1>3, <2>2, <3>2
    <2>. QED
        BY <2>1, <2>2
<1>5. CASE loaded # {}
    <2>. DEFINE i == Min(loaded)
    <2>1. i \in loaded
        <3>1. loaded \in SUBSET Nat
            BY <1>1
        <3>. HIDE DEF loaded
        <3>. QED
            BY <1>5, <3>1, Minimum
    <2>2. fetch = [params |-> WithTickSize(params(i), TickSizeOf(params(i))),
                   tick |-> TickSizeOf(params(i))]
        BY <1>5 DEF Fetch
    <2>3. i \in arrived /\ TickSizeOf(params(i)) # Nothing
        BY <2>1
    <2>. HIDE DEF i, params, arrived, loaded, fetch
    <2>4. TickSizeOf(params(i)) = Truth.tickSize
        BY <1>3, <2>3
    <2>5. fetch.params = WithTickSize(params(i), Truth.tickSize) /\ fetch.tick = Truth.tickSize
        BY <2>2, <2>4
    <2>6. /\ TrueParams(fetch.params) /\ fetch.tick = Truth.tickSize
          /\ TickSizeOf(fetch.params) = Truth.tickSize
        BY <1>2, <1>3, <2>3, <2>5, TickSet
    <2>. QED
        BY <2>6 DEF fetch
<1>6. CASE loaded = {}
    <2>1. fetch = [params |-> IF cached # Nothing THEN WithTickSize(last, cached)
                              ELSE IF Gold THEN WithTickSize(last, FixedTick) ELSE last,
                   tick |-> cached]
        BY <1>6 DEF Fetch
    <2>. HIDE DEF last, fetch
    <2>2. fetch.tick = cached
        BY <2>1
    <2>3. CASE cached # Nothing
        <3>1. fetch.params = WithTickSize(last, cached) /\ cached = Truth.tickSize
            BY <2>1, <2>3
        <3>2. TrueParams(fetch.params) /\ TickSizeOf(fetch.params) = Truth.tickSize
            BY <1>2, <1>4, <3>1, TickSet
        <3>. QED
            BY <2>2, <3>2 DEF fetch
    <2>4. CASE cached = Nothing
        <3>1. fetch.params = WithTickSize(last, FixedTick) \/ fetch.params = last
            BY <2>1, <2>4
        <3>2. TrueParams(fetch.params)
            BY <1>4, <3>1, TickSet
        <3>. QED
            BY <2>2, <2>4, <3>2 DEF fetch
    <2>. QED
        BY <2>3, <2>4
<1>. QED
    BY <1>5, <1>6

(* A report that is fetched: its volumes are the broker's, and once a tick *)
(* size is remembered, so is the worth of a tick.                          *)
LEMMA FetchedIsTrue ==
    ASSUME NEW cached \in {Nothing, Truth.tickSize}, NEW fetch \in Fetched(cached),
           fetch.spec # Nothing
    PROVE  /\ fetch.tick \in {Nothing, Truth.tickSize}
           /\ \A v \in {"min", "step", "max"} : Meant(fetch.spec[v], v)
           /\ \/ fetch.tick = Nothing
              \/ fetch.spec.tickValue * Truth.tickSize = Truth.tickValue * fetch.spec.tickSize
<1>1. fetch \in FetchedWith(cached)
    BY DEF Fetched, FetchedFirst, FetchedLater
<1>2. PICK answers \in [1 .. Attempts -> Answers] :
          fetch = [spec |-> SpecOf(Fetch(answers, cached).params),
                   tick |-> Fetch(answers, cached).tick]
    BY <1>1 DEF FetchedWith
<1>. DEFINE params == Fetch(answers, cached).params
            tick == Fetch(answers, cached).tick
<1>3. /\ TrueParams(params) /\ tick \in {Nothing, Truth.tickSize}
      /\ tick # Nothing => TickSizeOf(params) = Truth.tickSize
    BY FetchIsTrue
<1>4. fetch.spec = SpecOf(params) /\ fetch.tick = tick
    BY <1>2
<1>. HIDE DEF params, tick
<1>5. /\ \A v \in {"min", "step", "max"} : Meant(fetch.spec[v], v)
      /\ TickSizeOf(params) = Truth.tickSize =>
             fetch.spec.tickSize = Truth.tickSize /\ fetch.spec.tickValue = Truth.tickValue
    BY <1>3, <1>4, SpecIsTrue
<1>. QED
    BY <1>3, <1>4, <1>5

(* Whatever a request brings, a tick size that it leaves is the broker's.  *)
LEMMA FetchedTick ==
    ASSUME NEW cached \in {Nothing, Truth.tickSize}, NEW fetch \in Fetched(cached)
    PROVE  fetch.tick \in {Nothing, Truth.tickSize}
<1>1. fetch \in FetchedWith(cached)
    BY DEF Fetched, FetchedFirst, FetchedLater
<1>2. PICK answers \in [1 .. Attempts -> Answers] :
          fetch = [spec |-> SpecOf(Fetch(answers, cached).params),
                   tick |-> Fetch(answers, cached).tick]
    BY <1>1 DEF FetchedWith
<1>. QED
    BY <1>2, FetchIsTrue

-----------------------------------------------------------------------------
(* The plan and the last quote.                                            *)

(* Of two numbers the greater one. *)
LEMMA MaxOfTwo ==
    ASSUME NEW a \in Int, NEW b \in Int
    PROVE  Max({a, b}) \in Int /\ Max({a, b}) >= a /\ Max({a, b}) >= b
<1>1. \E x \in {a, b} : \A y \in {a, b} : x >= y
    OBVIOUS
<1>. QED
    BY <1>1 DEF Max

(* Outside of ranges a target is two risks away, and the regime asks for   *)
(* no more than 1.8 of them (calc_trade_parameters, REGIME_RULES); only    *)
(* high volatility asks for the two.                                       *)
LEMMA CalmPlan ==
    ASSUME NEW d \in Verdicts, d.regime.kind \notin {"RANGE", "HIGH_VOLATILITY"}
    PROVE  /\ d.plan.entry \in Int /\ d.plan.stop \in Int /\ d.plan.target \in Int
           /\ d.minimumRR \in {15, 18}
           /\ Abs(d.plan.target - d.plan.entry) >= 2 * Abs(d.plan.entry - d.plan.stop)
<1>1. PICK r \in {ReadingOfWindow(w) : w \in Windows}, f \in Facts, x \in Circumstances :
          /\ d = Decide(r, MarketOf(f), x, AdxMin, Symbol, Timeframe)
          /\ d # Refusal
    BY DEF Verdicts
<1>. DEFINE m == MarketOf(f)
            side == Direction(r, m)
<1>2. d = Draft(side, r, m, x) /\ Authorised(side, r, m)
    BY <1>1 DEF Decide
<1>. HIDE DEF side
<1>3. /\ d.regime = m.regime /\ d.plan = PlanFor(side, m, x)
      /\ d.minimumRR = MinimumReward(m.regime) /\ side \in Sides
    BY <1>2 DEF Draft, Authorised
<1>. HIDE DEF m
<1>4. d.minimumRR \in {15, 18}
    <2>1. CASE m.regime.kind \in {"PULLBACK", "ACCUMULATION", "DISTRIBUTION"}
        BY <1>3, <2>1 DEF MinimumReward
    <2>2. CASE m.regime.kind \notin {"PULLBACK", "ACCUMULATION", "DISTRIBUTION"}
        BY <1>3, <2>2 DEF MinimumReward
    <2>. QED
        BY <2>1, <2>2
<1>. DEFINE least == (Atr * MinStop) \div 100
            reach == StopReach(m.regime, Atr, BaseStop, QuietStop)
            envelope == [max |-> Max({least, reach}), min |-> least,
                         buffer |-> (Atr * StopBuffer) \div 100]
            stop == StopPlan(side, x.close, {}, envelope).stop
<1>5. d.plan = [entry |-> x.close, stop |-> stop,
                valid |-> StopPlan(side, x.close, {}, envelope).valid,
                target |-> Target(side, x.close, stop, Nothing, FixedReward)]
    <2>. DEFINE plan(levels) ==
                    [entry |-> x.close, stop |-> StopPlan(side, x.close, levels, envelope).stop,
                     valid |-> StopPlan(side, x.close, levels, envelope).valid,
                     target |-> Target(side, x.close, StopPlan(side, x.close, levels, envelope).stop,
                                       Nothing, FixedReward)]
    <2>1. (m.regime.kind = "RANGE") = FALSE
        BY <1>3
    <2>2. PlanFor(side, m, x) = plan({Nothing} \ {Nothing})
        BY <2>1, Zenon DEF PlanFor
    <2>3. {Nothing} \ {Nothing} = {}
        OBVIOUS
    <2>. QED
        BY <1>3, <2>2, <2>3
<1>6. x.close \in Int /\ least \in Int /\ reach \in Int
    <2>1. {Atr, BaseStop, QuietStop, MinStop} \subseteq Int
        BY PlanAssumption
    <2>2. StopFactor(m.regime) \in Int
        <3>1. CASE m.regime.kind = "RANGE"
            BY <3>1 DEF StopFactor
        <3>2. CASE m.regime.kind = "WEAK_TREND"
            BY <3>2 DEF StopFactor
        <3>3. CASE m.regime.kind = "PULLBACK"
            BY <3>3 DEF StopFactor
        <3>4. CASE m.regime.kind = "HIGH_VOLATILITY"
            BY <3>4 DEF StopFactor
        <3>5. CASE m.regime.kind \notin {"RANGE", "WEAK_TREND", "PULLBACK", "HIGH_VOLATILITY"}
            BY <3>5 DEF StopFactor
        <3>. QED
            BY <3>1, <3>2, <3>3, <3>4, <3>5
    <2>3. BaseStop * StopFactor(m.regime) \in Int
        BY <2>1, <2>2
    <2>4. \A n \in Int : n \div 100 \in Int /\ Atr * n \in Int
        BY <2>1
    <2>5. reach \in Int
        <3>. DEFINE multiplier == IF m.regime.kind = "LOW_VOLATILITY" THEN BaseStop + QuietStop
                                  ELSE (BaseStop * StopFactor(m.regime)) \div 100
                    bounded == IF multiplier > 350 THEN 350 ELSE multiplier
        <3>1. multiplier \in Int
            BY <2>1, <2>3, <2>4
        <3>. HIDE DEF multiplier
        <3>2. bounded \in Int
            BY <3>1
        <3>. HIDE DEF bounded
        <3>3. (Atr * bounded) \div 100 \in Int
            BY <2>4, <3>2
        <3>. QED
            BY <3>3 DEF StopReach, multiplier, bounded
    <2>. QED
        BY <2>1, <2>4, <2>5, QuoteAssumption
<1>. HIDE DEF least, reach
<1>7. stop \in Int
    <2>. DEFINE distance == IF Max({least, reach}) < least THEN least ELSE Max({least, reach})
    <2>1. Structure(side, x.close, {}) = Nothing
        BY DEF Structure
    <2>2. stop = Ahead(side, x.close, -distance)
        BY <2>1, <1>6, MaxOfTwo DEF StopPlan
    <2>3. distance \in Int
        BY <1>6, MaxOfTwo
    <2>. HIDE DEF distance
    <2>. QED
        BY <1>6, <2>2, <2>3 DEF Ahead
<1>8. /\ d.plan.entry = x.close /\ d.plan.stop = stop
      /\ d.plan.target = Target(side, x.close, stop, Nothing, FixedReward)
    BY <1>5
<1>. HIDE DEF stop
<1>. DEFINE a == Abs(x.close - stop)
            q == (FixedReward * a) \div 10
<1>9. a \in Nat
    BY <1>6, <1>7 DEF Abs
<1>. HIDE DEF a
<1>10. q \in Int /\ q >= 2 * a
    <2>1. FixedReward * a \in Int /\ 20 * a <= FixedReward * a
        BY <1>9, PlanAssumption, Times
    <2>. QED
        BY <1>9, <2>1
<1>. HIDE DEF q
<1>11. d.plan.target = Ahead(side, x.close, q)
    BY <1>8 DEF Target, a, q
<1>12. d.plan.target \in Int /\ Abs(d.plan.target - x.close) = q
    BY <1>3, <1>6, <1>9, <1>10, <1>11 DEF Ahead, Abs
<1>. QED
    BY <1>4, <1>6, <1>7, <1>8, <1>10, <1>12 DEF a

(* The distance the broker asks for, if it gives any level                 *)
(* (_broker_stop_constraints).                                             *)
LEMMA RequiredIs ==
    ASSUME NEW levels \in StopLevels, Constrained(levels), NEW own \in {levels.sl, levels.tp}
    PROVE  Required(levels, own) \in Nat
<1>. DEFINE num(x) == IF x \in Nat THEN x ELSE 0
            n == num(levels.stops) + num(levels.freeze) + num(levels.sl) + num(levels.tp)
            given == {levels.stops, levels.freeze, own} \ {Nothing}
            all == {levels.stops, levels.freeze, levels.sl, levels.tp} \ {Nothing}
<1>1. /\ given \in SUBSET Nat /\ all \in SUBSET Nat /\ all # {}
      /\ given \subseteq all
    BY QuoteAssumption DEF Constrained
<1>2. n \in Nat /\ \A x \in all : x <= n
    BY <1>1
<1>. HIDE DEF n
<1>3. Required(levels, own) = IF given # {} THEN Max(given) ELSE Max(all)
    BY DEF Required
<1>. HIDE DEF given, all
<1>4. Max(all) \in Nat
    BY <1>1, <1>2, Maximum
<1>5. given # {} => Max(given) \in Nat
    BY <1>1, <1>2, Maximum
<1>. QED
    BY <1>3, <1>4, <1>5

(* At the quote no target is nearer than the plan has it                   *)
(* (_rebase_order_prices).                                                 *)
LEMMA TargetKept ==
    ASSUME NEW side \in Sides, NEW plan, plan.entry \in Int, plan.stop \in Int, plan.target \in Int,
           NEW quote, quote.bid \in Int, quote.ask \in Int,
           NEW levels \in StopLevels, Constrained(levels)
    PROVE  LET prices == Rebased(side, plan, quote, levels)
           IN  /\ prices.entry \in Int /\ prices.stop \in Int /\ prices.target \in Int
               /\ Abs(prices.target - prices.entry) >= Abs(plan.target - plan.entry)
<1>. DEFINE a == Abs(plan.entry - plan.stop)
            t == Abs(plan.target - plan.entry)
            sl == Required(levels, levels.sl) + 1
            tp == Required(levels, levels.tp) + 1
            entry == Executable(side, quote)
            prices == Rebased(side, plan, quote, levels)
<1>1. a \in Int /\ t \in Int /\ t >= 0
    BY DEF Abs
<1>2. sl \in Int /\ tp \in Int
    BY RequiredIs
<1>3. entry \in Int /\ Reference(side, quote) \in Int
    BY DEF Executable, Reference
<1>4. /\ prices.entry = entry
      /\ prices.stop = Ahead(side, Reference(side, quote), -Max({a, sl}))
      /\ prices.target = Ahead(side, entry, Max({t, tp}))
    BY DEF Rebased
<1>. HIDE DEF a, t, sl, tp, entry, prices
<1>5. /\ Max({a, sl}) \in Int
      /\ Max({t, tp}) \in Int /\ Max({t, tp}) >= t
    BY <1>1, <1>2, MaxOfTwo
<1>6. prices.stop \in Int
    BY <1>3, <1>4, <1>5 DEF Ahead
<1>7. prices.target \in Int /\ Abs(prices.target - prices.entry) >= t
    BY <1>1, <1>3, <1>4, <1>5 DEF Ahead, Abs
<1>. QED
    BY <1>3, <1>4, <1>6, <1>7 DEF t, prices

(* A plan with something to spare loses its reward only to a risk that has *)
(* grown by more than a ninth.                                             *)
LEMMA LostToWidening ==
    ASSUME NEW d \in Verdicts, d.regime.kind \notin {"RANGE", "HIGH_VOLATILITY"},
           NEW quote, quote.bid \in Int, quote.ask \in Int,
           NEW levels \in StopLevels, Constrained(levels),
           ~Rewarding(Rebased(d.side, d.plan, quote, levels), d.minimumRR)
    PROVE  LET prices == Rebased(d.side, d.plan, quote, levels)
           IN  9 * Abs(prices.entry - prices.stop) > 10 * Abs(d.plan.entry - d.plan.stop)
<1>. DEFINE prices == Rebased(d.side, d.plan, quote, levels)
            risk == Abs(prices.entry - prices.stop)
            reward == Abs(prices.target - prices.entry)
            a == Abs(d.plan.entry - d.plan.stop)
            t == Abs(d.plan.target - d.plan.entry)
<1>1. /\ d.plan.entry \in Int /\ d.plan.stop \in Int /\ d.plan.target \in Int
      /\ d.minimumRR \in {15, 18} /\ t >= 2 * a
    BY CalmPlan
<1>2. d.side \in Sides
    BY DecidedIsSound
<1>3. /\ prices.entry \in Int /\ prices.stop \in Int /\ prices.target \in Int
      /\ reward >= t
    BY <1>1, <1>2, TargetKept
<1>4. 10 * reward < d.minimumRR * risk
    <2>1. risk \in Int /\ reward \in Int /\ ~(10 * reward >= d.minimumRR * risk)
        BY <1>3 DEF Rewarding, Abs
    <2>2. d.minimumRR * risk \in Int
        BY <1>1, <2>1
    <2>. HIDE DEF risk, reward
    <2>. QED
        BY <2>1, <2>2
<1>5. risk \in Nat /\ reward \in Nat /\ a \in Nat /\ t \in Nat
    BY <1>1, <1>3 DEF Abs
<1>. HIDE DEF prices, risk, reward, a, t
<1>6. d.minimumRR * risk <= 18 * risk
    BY <1>1, <1>5
<1>7. 9 * risk > 10 * a
    <2>1. d.minimumRR * risk \in Int
        BY <1>1, <1>5
    <2>. QED
        BY <1>1, <1>3, <1>4, <1>5, <1>6, <2>1
<1>. QED
    BY <1>7 DEF prices, risk, a

-----------------------------------------------------------------------------
(* What an order is worth.                                                 *)

(* What is remembered of the symbol is the broker's, a reward is lost only *)
(* to a wider risk, and an order on its way has the terms that are meant.  *)
WorthInv ==
    /\ cachedTick \in {Nothing, Truth.tickSize}
    /\ RewardLost
    /\ SizedByTruth

(* The boundary: the report is fetched, then the plan is taken to the      *)
(* quote.                                                                  *)
LEMMA SubmitKeepsWorth ==
    ASSUME IInv, WorthInv, Submit
    PROVE  WorthInv'
<1>1. attempt # Nothing /\ attempt.stage = "decided"
    BY DEF Submit
<1>. DEFINE d == attempt.decision
<1>2. d \in Verdicts /\ Sound(d)
    BY <1>1, AttemptIs, DecidedIsSound
<1>3. PICK fetch \in Fetched(cachedTick), levels \in StopLevels, move \in Moves :
          LET bid == d.plan.entry + move
          IN  /\ cachedTick' = fetch.tick
              /\ Priced(d, fetch, levels, [bid |-> bid, ask |-> bid + Spread])
    BY <1>2 DEF Submit
<1>. DEFINE quote == [bid |-> d.plan.entry + move, ask |-> d.plan.entry + move + Spread]
            prices == Rebased(d.side, d.plan, quote, levels)
<1>4. \/ attempt' = Nothing
      \/ /\ Constrained(levels) /\ ~Rewarding(prices, d.minimumRR)
         /\ attempt' = [attempt EXCEPT !.stage = "refused", !.reason = "reward", !.prices = prices]
      \/ /\ fetch.spec # Nothing
         /\ attempt' = [attempt EXCEPT !.stage = "sent", !.spec = fetch.spec]
    BY <1>3 DEF Priced, Refused
<1>5. cachedTick' \in {Nothing, Truth.tickSize}
    BY <1>3, FetchedTick DEF WorthInv
<1>6. CASE attempt' = Nothing
    BY <1>5, <1>6 DEF WorthInv, RewardLost, SizedByTruth, InFlight
<1>7. CASE /\ Constrained(levels) /\ ~Rewarding(prices, d.minimumRR)
           /\ attempt' = [attempt EXCEPT !.stage = "refused", !.reason = "reward", !.prices = prices]
    <2>. HIDE DEF prices
    <2>1. attempt'.stage = "refused" /\ attempt'.decision = d /\ attempt'.prices = prices
        BY <1>1, <1>7, AttemptIs
    <2>2. \/ d.regime.kind \in {"RANGE", "HIGH_VOLATILITY"}
          \/ 9 * Abs(prices.entry - prices.stop) > 10 * Abs(d.plan.entry - d.plan.stop)
        <3>. SUFFICES ASSUME d.regime.kind \notin {"RANGE", "HIGH_VOLATILITY"}
                      PROVE  9 * Abs(prices.entry - prices.stop)
                                 > 10 * Abs(d.plan.entry - d.plan.stop)
            OBVIOUS
        <3>1. d.plan.entry \in Int
            BY <1>2, CalmPlan
        <3>2. quote.bid \in Int /\ quote.ask \in Int
            BY <3>1, QuoteAssumption
        <3>. HIDE DEF quote, d
        <3>. QED
            BY <1>2, <1>7, <3>2, LostToWidening DEF prices
    <2>. QED
        BY <1>5, <2>1, <2>2 DEF WorthInv, RewardLost, SizedByTruth, InFlight
<1>8. CASE /\ fetch.spec # Nothing
           /\ attempt' = [attempt EXCEPT !.stage = "sent", !.spec = fetch.spec]
    <2>1. attempt'.stage = "sent" /\ attempt'.spec = fetch.spec
        BY <1>1, <1>8, AttemptIs
    <2>2. /\ \A v \in {"min", "step", "max"} : Meant(fetch.spec[v], v)
          /\ \/ fetch.tick = Nothing
             \/ fetch.spec.tickValue * Truth.tickSize = Truth.tickValue * fetch.spec.tickSize
        BY <1>3, <1>8, FetchedIsTrue DEF WorthInv
    <2>. QED
        BY <1>3, <1>5, <2>1, <2>2 DEF WorthInv, RewardLost, SizedByTruth, InFlight
<1>. QED
    BY <1>4, <1>6, <1>7, <1>8

(* Every other step leaves the order and what is remembered as they are,   *)
(* ends the attempt, or begins one that has no prices yet.                 *)
LEMMA OthersKeepWorth ==
    ASSUME IInv, WorthInv, [Next]_vars, ~Submit
    PROVE  WorthInv'
<1>1. \/ UNCHANGED <<attempt, cachedTick>>
      \/ attempt' = Nothing /\ cachedTick' \in {cachedTick, Nothing}
      \/ attempt' # Nothing /\ attempt'.stage = "decided" /\ cachedTick' = cachedTick
    <2>1. CASE Evaluate
        BY <2>1 DEF Evaluate
    <2>2. CASE CandleCloses \/ Baseline \/ Lags \/ RowsPushedOut \/ UNCHANGED vars
        BY <2>2 DEF CandleCloses, Baseline, Lags, RowsPushedOut, vars
    <2>3. CASE Stopped \/ Answered \/ Unanswered \/ Restart
        BY <2>3 DEF Stopped, Answered, Unanswered, Restart
    <2>. QED
        BY <2>1, <2>2, <2>3 DEF Next
<1>. QED
    BY <1>1 DEF WorthInv, RewardLost, SizedByTruth, InFlight

-----------------------------------------------------------------------------
(* The theorems.                                                           *)

(* What was asked of an entry when it was decided is still so when it is   *)
(* made, and the memory of the entries of this life is complete.           *)
THEOREM Invariance == Spec => []IInv
<1>1. Init => IInv
    <2>. SUFFICES ASSUME Init PROVE IInv
        OBVIOUS
    <2>1. TypesOK
        BY FS_EmptySet, CandleAssumption DEF Init, TypesOK
    <2>2. \A s : Cardinality(RangeEntries(rows, s)) = 0
        <3>1. \A s : RangeEntries(rows, s) = {}
            BY DEF RangeEntries, Init
        <3>. QED
            BY <3>1, FS_EmptySet
    <2>3. RangeQuota
        BY <2>2, CandleAssumption DEF RangeQuota
    <2>4. StillAllowed /\ Remembered /\ CooldownKept
        BY DEF Init, StillAllowed, Remembered, CooldownKept
    <2>. QED
        BY <2>1, <2>3, <2>4 DEF IInv
<1>2. IInv /\ [Next]_vars => IInv'
    <2>. SUFFICES ASSUME IInv, [Next]_vars PROVE IInv'
        OBVIOUS
    <2>1. CASE UNCHANGED vars
        <3>1. UNCHANGED <<candle, seen, attempt, lastEntry, opened, rows, life>>
            BY <2>1 DEF vars
        <3>2. TypesOK' /\ RangeQuota' /\ CooldownKept'
            BY <3>1 DEF IInv, TypesOK, RangeQuota, CooldownKept
        <3>3. StillAllowed' /\ Remembered'
            BY <3>1 DEF IInv, StillAllowed, QuotaLeft, Cooling, Remembered
        <3>. QED
            BY <3>2, <3>3 DEF IInv
    <2>2. CASE CandleCloses \/ Baseline \/ Lags \/ Evaluate
        BY <2>2, CandleClosesKeeps, CursorKeeps, EvaluateKeeps
    <2>3. CASE Stopped \/ Submit \/ Answered \/ Unanswered
        BY <2>3, BoundaryKeeps, AnswersKeep
    <2>4. CASE RowsPushedOut \/ Restart
        BY <2>4, RowsPushedOutKeeps, RestartKeeps
    <2>. QED
        BY <2>1, <2>2, <2>3, <2>4 DEF Next
<1>. QED
    BY <1>1, <1>2, PTL DEF Spec

(* No entry is decided on a candle that is still open, but for a quote     *)
(* without a time and a broker behind UTC (connector.py, fetch_candles).   *)
THEOREM OnlyClosedCandles == Spec => []ClosedCandlesOnly
<1>1. IInv => ClosedCandlesOnly
    BY DEF IInv, StillAllowed, ClosedCandlesOnly
<1>. QED
    BY <1>1, Invariance, PTL

(* The boundary never turns down on policy what the engine has approved    *)
(* (live_loop.py, _safe_entry_order), whatever the market.                 *)
THEOREM OneAuthority == Spec => []BoundaryAgrees
<1>1. IInv => BoundaryAgrees
    BY DEF IInv, StillAllowed, BoundaryAgrees
<1>. QED
    BY <1>1, Invariance, PTL

(* The history never has more range entries of a session than the limit.   *)
THEOREM QuotaKept == Spec => []RangeQuota
<1>1. IInv => RangeQuota
    BY DEF IInv
<1>. QED
    BY <1>1, Invariance, PTL

(* The cooldown is kept between the entries of one life that were          *)
(* answered.                                                               *)
THEOREM CooldownAlwaysKept == Spec => []CooldownKept
<1>1. IInv => CooldownKept
    BY DEF IInv
<1>. QED
    BY <1>1, Invariance, PTL

(* What is remembered of the symbol and what an attempt carries of it are  *)
(* the broker's in every state.                                            *)
THEOREM WorthInvariance == Spec => []WorthInv
<1>1. Init => WorthInv
    BY DEF Init, WorthInv, RewardLost, SizedByTruth, InFlight
<1>2. IInv /\ WorthInv /\ [Next]_vars => WorthInv'
    BY SubmitKeepsWorth, OthersKeepWorth
<1>. QED
    BY <1>1, <1>2, Invariance, PTL DEF Spec

(* Taking a plan to the last quote loses the reward its regime asks for    *)
(* only in a range, in high volatility, or to a risk that has grown by     *)
(* more than a ninth (live_loop.py, _rebase_order_prices).                 *)
THEOREM RewardLostOnlySo == Spec => []RewardLost
<1>1. WorthInv => RewardLost
    BY DEF WorthInv
<1>. QED
    BY <1>1, WorthInvariance, PTL

(* Every order is sized with the broker's volumes, or Scale times smaller  *)
(* ones where the bridge may report in plain lots, and, once a report has  *)
(* brought a tick size, with the true worth of a move of the price         *)
(* (connector.py, get_symbol_params; aggregate_risk.py,                    *)
(* build_symbol_risk_spec).                                                *)
THEOREM AlwaysSizedByTruth == Spec => []SizedByTruth
<1>1. WorthInv => SizedByTruth
    BY DEF WorthInv
<1>. QED
    BY <1>1, WorthInvariance, PTL
=============================================================================

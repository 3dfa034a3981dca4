----------------------------- MODULE EntryOrder -----------------------------
(***************************************************************************)
(* From a closed candle to an answered order: _check_new_bars,             *)
(* _on_new_bar and _safe_entry_order of live_trading/trading/live_loop.py, *)
(* the claim of a signal in Redis (redis_ipc.py) and the order request     *)
(* (mt5/executor.py), for engines that may overlap (a deployment starts    *)
(* the new one before the old one ends), die and start again.              *)
(*                                                                         *)
(* A signal is the length of a timeframe and the start of its bar: two     *)
(* labels of one timeframe, "M5" and "5m", give the same signal.  What the *)
(* strategy makes of a bar is a choice: no trade, or a direction.  So is   *)
(* what the other gates say, all of which can only drop the signal.        *)
(***************************************************************************)
EXTENDS Integers, Sequences, FiniteSets

CONSTANTS
    Engines,
    Timeframes,  \* TRADE_TIMEFRAMES, the labels
    LengthOf,    \* [Timeframes -> its length]
    Directions,  \* BUY and SELL
    NoBar,       \* no bar seen yet
    NoDirection,
    Cap,         \* MAX_OPEN_TRADES
    Shared,      \* REDIS_URL is set
    MaxTime,     \* bound: candles close until then
    MaxOrders,   \* bound: order requests in a behaviour
    Outages,     \* Redis may be out of reach
    Worlds       \* the worlds to look at: which of these may happen
                 \*   ambiguous: an order request goes unanswered
                 \*   lag: the bridge does not report an open position
                 \*   crashes: an engine dies
                 \*   stale: the history ends before the last closed bar

Signals == Nat \X Int

ASSUME EntryAssumption ==
    /\ IsFiniteSet(Engines)
    /\ LengthOf \in [Timeframes -> Nat \ {0}]
    /\ Cap \in Nat \ {0} /\ MaxTime \in Nat /\ MaxOrders \in Nat
    /\ Shared \in BOOLEAN /\ Outages \in BOOLEAN
    /\ Worlds \subseteq [ambiguous : BOOLEAN, lag : BOOLEAN, crashes : BOOLEAN,
                        stale : BOOLEAN]
    /\ NoBar \notin Int \cup Timeframes /\ NoDirection \notin Directions

VARIABLES
    world,     \* the world this behaviour is in
    now,       \* the clock
    closed,    \* [Timeframes -> Int]: start of the last completed bar
    claim,     \* signals in Redis and their status; the others are free
    redisUp,
    orders,    \* the order requests sent, in order: [sig, dir, status]
    pc,        \* [Engines -> off, poll, bars, checked, confirmed, placing]
    cursor,    \* engine._last_bar_times
    queue,     \* timeframes with a new bar still to evaluate in this tick
    opened,    \* engine._trade_opened_this_tick
    attempted, \* engine._attempted_entry_signal_ids
    last,      \* engine._last_entry_bar_time, _last_entry_direction
    entry,     \* the timeframe and direction of the entry in progress
    ticket,    \* index of the request an engine waits for, or 0
    fired      \* history: requests an engine sent in this tick

clockVars == <<world, now, closed>>
redisVars == <<claim, redisUp>>
memory == <<cursor, queue, opened, attempted, last, entry, ticket>>
vars == <<clockVars, redisVars, orders, pc, memory, fired>>

-----------------------------------------------------------------------------
(* The broker.                                                             *)

Set(f, e, x) == [f EXCEPT ![e] = x]

Accepted(o) == o.status \in {"hidden", "open", "closed"}
Live(o) == o.status \in {"hidden", "open"}

(* What get_open_positions reports. *)
Visible == {i \in DOMAIN orders : orders[i].status = "open"}

(* Mutant of Room: one position too many. *)
RoomForOneMore == Cardinality(Visible) <= Cap

(* available_for_strategy_slots: the positions of this strategy, and all   *)
(* positions in the model are, leave room for one more.                    *)
Room == Cardinality(Visible) < Cap

Settle(i, from, to) ==
    /\ orders[i].status = from
    /\ orders' = [orders EXCEPT ![i].status = to]
    /\ UNCHANGED <<clockVars, redisVars, pc, memory, fired>>

(* The broker accepts or refuses a request, also one nobody waits for any  *)
(* more; the bridge reports a position late, or drops its row for a while. *)
Broker(i) ==
    \/ Settle(i, "sent", "open")
    \/ Settle(i, "sent", "refused")
    \/ world.lag /\ Settle(i, "sent", "hidden")
    \/ Settle(i, "hidden", "open")
    \/ world.lag /\ Settle(i, "open", "hidden")
    \/ Settle(i, "open", "closed")

-----------------------------------------------------------------------------
(* The engine.                                                             *)

NoEntry == [tf |-> NoBar, dir |-> NoDirection]

Fresh(e) ==
    /\ cursor' = Set(cursor, e, [tf \in Timeframes |-> NoBar])
    /\ queue' = Set(queue, e, {})
    /\ opened' = Set(opened, e, FALSE)
    /\ attempted' = Set(attempted, e, {})
    /\ last' = Set(last, e, [bar |-> NoBar, dir |-> NoDirection])
    /\ entry' = Set(entry, e, NoEntry)
    /\ ticket' = Set(ticket, e, 0)
    /\ fired' = Set(fired, e, {})

Start(e) ==
    /\ pc[e] = "off"
    /\ pc' = Set(pc, e, "poll")
    /\ UNCHANGED <<clockVars, redisVars, orders, memory, fired>>

(* A stage that times out ends the engine as well, and the supervisor      *)
(* starts another: nothing in memory survives.                             *)
Crash(e) ==
    /\ world.crashes
    /\ pc[e] # "off"
    /\ pc' = Set(pc, e, "off")
    /\ Fresh(e)
    /\ UNCHANGED <<clockVars, redisVars, orders>>

(* The last bar a history request may report: the one that closed last, or *)
(* an older one while the bridge still serves what it had.  Of the guard    *)
(* against bars of more than two hours ago nothing is left, all bars of the *)
(* model being younger.                                                     *)
Reported(tf) ==
    IF world.stale
    THEN {0 - LengthOf[tf]} \cup {b \in 0..closed[tf] : b % LengthOf[tf] = 0}
    ELSE {closed[tf]}

(* What polling all timeframes may answer; a poll may fail. *)
Polls ==
    LET shown == [tf \in Timeframes |-> Reported(tf) \cup {NoBar}]
    IN  {answer \in [Timeframes -> UNION {shown[tf] : tf \in Timeframes}] :
            \A tf \in Timeframes : answer[tf] \in shown[tf]}

First(e, tf) == cursor[e][tf] = NoBar
Later(e, tf, b) == IF First(e, tf) THEN FALSE ELSE cursor[e][tf] < b

Answered(answer) == {tf \in Timeframes : answer[tf] # NoBar}

(* The timeframes that have a bar to evaluate. *)
NewBars(e, answer) == {tf \in Answered(answer) : Later(e, tf, answer[tf])}

(* _check_new_bars.  The first bar an engine sees of a timeframe only sets *)
(* its cursor, which never moves back.                                     *)
Poll(e, answer) ==
    LET seen == NewBars(e, answer) \cup {tf \in Answered(answer) : First(e, tf)}
    IN  /\ pc[e] = "poll"
        /\ seen # {}
        /\ cursor' = Set(cursor, e, [tf \in Timeframes |->
                         IF tf \in seen THEN answer[tf] ELSE cursor[e][tf]])
        /\ queue' = Set(queue, e, NewBars(e, answer))
        /\ opened' = Set(opened, e, FALSE)
        /\ fired' = Set(fired, e, {})
        /\ pc' = Set(pc, e, IF NewBars(e, answer) = {} THEN "poll" ELSE "bars")
        /\ UNCHANGED <<clockVars, redisVars, orders, attempted, last, entry, ticket>>

(* The longest timeframe goes first. *)
IsNext(e, tf) ==
    /\ pc[e] = "bars"
    /\ tf \in queue[e]
    /\ \A u \in queue[e] : LengthOf[u] <= LengthOf[tf]

SignalOf(e, tf) == <<LengthOf[tf], cursor[e][tf]>>
Signal(e) == SignalOf(e, entry[e].tf)

PcAfter(rest) == IF rest = {} THEN "poll" ELSE "bars"

(* The bar _on_new_bar decides on: its own history request ends with the   *)
(* bar that was polled, or with one that has closed since; an older one is *)
(* refused.                                                                *)
Fetched(e, tf) == {b \in Reported(tf) : cursor[e][tf] <= b}

Advance(e, tf, b) == cursor' = Set(cursor, e, Set(cursor[e], tf, b))

(* _on_new_bar up to the entry: the strategy wants a trade on bar b and    *)
(* the gates let it pass, the slot and tick guards among them.             *)
Evaluate(e, tf, b, d) ==
    /\ IsNext(e, tf)
    /\ b \in Fetched(e, tf)
    /\ Advance(e, tf, b)
    /\ Room
    /\ ~opened[e]
    /\ entry' = Set(entry, e, [tf |-> tf, dir |-> d])
    /\ queue' = Set(queue, e, queue[e] \ {tf})
    /\ pc' = Set(pc, e, "checked")
    /\ UNCHANGED <<clockVars, redisVars, orders, opened, attempted, last,
                   ticket, fired>>

(* A gate of _on_new_bar drops the signal, before its history is taken or  *)
(* after, or the strategy has none.                                        *)
Skip(e, tf, b) ==
    /\ IsNext(e, tf)
    /\ b \in Fetched(e, tf) \cup {cursor[e][tf]}
    /\ Advance(e, tf, b)
    /\ queue' = Set(queue, e, queue[e] \ {tf})
    /\ pc' = Set(pc, e, PcAfter(queue'[e]))
    /\ UNCHANGED <<clockVars, redisVars, orders, opened, attempted, last,
                   entry, ticket, fired>>

(* The entry in progress is done with. *)
Done(e) ==
    /\ entry' = Set(entry, e, NoEntry)
    /\ pc' = Set(pc, e, PcAfter(queue[e]))

(* A gate of _safe_entry_order, before or after its position check, drops  *)
(* the signal.                                                             *)
Drop(e) ==
    /\ pc[e] \in {"checked", "confirmed"}
    /\ Done(e)
    /\ UNCHANGED <<clockVars, redisVars, orders, cursor, queue, opened,
                   attempted, last, ticket, fired>>

(* The broker reports a position with the tag of this signal. *)
Tagged(e) == \E i \in Visible : orders[i].sig = Signal(e)

(* Mutant of OneWayAllowed: positions of either direction are fine. *)
OneWayHedged(e) == TRUE

(* one_way_entry_allowed *)
OneWayAllowed(e) == \A i \in Visible : orders[i].dir = entry[e].dir

MayEnter(e) ==
    /\ Signal(e) \notin attempted[e]
    /\ ~Tagged(e)
    /\ OneWayAllowed(e)
    /\ ~ (last[e].bar = Signal(e)[2] /\ last[e].dir # entry[e].dir)
    /\ Room

(* The position check of _safe_entry_order.  Three requests to the bridge  *)
(* follow before the order goes out.                                       *)
Confirm(e) ==
    /\ pc[e] = "checked"
    /\ MayEnter(e)
    /\ pc' = Set(pc, e, "confirmed")
    /\ UNCHANGED <<clockVars, redisVars, orders, memory, fired>>

SeenAtBroker(e) ==
    /\ pc[e] = "checked"
    /\ Tagged(e)
    /\ attempted' = Set(attempted, e, attempted[e] \cup {Signal(e)})
    /\ Done(e)
    /\ UNCHANGED <<clockVars, redisVars, orders, cursor, queue, opened, last,
                   ticket, fired>>

(* Mutant of Free: a failed request gives its claim back. *)
FreeAfterFailure(s) == s \in DOMAIN claim => claim[s] = "FAILED"

Free(s) == s \notin DOMAIN claim

Claims(s, status) ==
    claim' = [t \in DOMAIN claim \cup {s} |-> IF t = s THEN status ELSE claim[t]]

(* SET NX. *)
TakesClaim(s) ==
    IF Shared THEN /\ redisUp /\ Free(s)
                   /\ Claims(s, "PENDING")
    ELSE UNCHANGED claim

(* The claim and the request, with nothing in between. *)
Send(e) ==
    LET s == Signal(e)
    IN  /\ pc[e] = "confirmed"
        /\ Len(orders) < MaxOrders
        /\ TakesClaim(s)
        /\ orders' = Append(orders, [sig |-> s, dir |-> entry[e].dir, status |-> "sent"])
        /\ attempted' = Set(attempted, e, attempted[e] \cup {s})
        /\ ticket' = Set(ticket, e, Len(orders) + 1)
        /\ fired' = Set(fired, e, fired[e] \cup {Len(orders) + 1})
        /\ pc' = Set(pc, e, "placing")
        /\ UNCHANGED <<clockVars, redisUp, cursor, queue, opened, last, entry>>

(* Somebody else's claim. *)
ClaimTaken(e) ==
    /\ pc[e] = "confirmed"
    /\ Shared /\ redisUp /\ ~Free(Signal(e))
    /\ attempted' = Set(attempted, e, attempted[e] \cup {Signal(e)})
    /\ Done(e)
    /\ UNCHANGED <<clockVars, redisVars, orders, cursor, queue, opened, last,
                   ticket, fired>>

(* Without Redis there is no order.  The claim may have arrived, if the    *)
(* connection broke under it.                                              *)
ClaimFails(e) ==
    /\ pc[e] = "confirmed"
    /\ Shared /\ Outages
    /\ IF redisUp
       THEN Free(Signal(e)) /\ Claims(Signal(e), "PENDING") /\ redisUp' = FALSE
       ELSE UNCHANGED redisVars
    /\ Done(e)
    /\ UNCHANGED <<clockVars, orders, cursor, queue, opened, attempted, last,
                   ticket, fired>>

(* Mutant of Mark: every answered request is a success. *)
MarkSuccess(s, status) ==
    IF Shared /\ redisUp THEN Claims(s, "SUCCESS") ELSE UNCHANGED claim

(* redis_mark_entry_signal, best effort. *)
Mark(s, status) ==
    IF Shared /\ redisUp THEN Claims(s, status) ELSE UNCHANGED claim

(* Mutant of Placed: the flag of the tick is forgotten. *)
PlacedUnflagged(e) ==
    /\ pc[e] = "placing"
    /\ Accepted(orders[ticket[e]])
    /\ Mark(Signal(e), "SUCCESS")
    /\ last' = Set(last, e, [bar |-> Signal(e)[2], dir |-> entry[e].dir])
    /\ ticket' = Set(ticket, e, 0)
    /\ Done(e)
    /\ UNCHANGED <<clockVars, redisUp, orders, cursor, queue, opened,
                   attempted, fired>>

(* The broker's answer has a ticket. *)
Placed(e) ==
    /\ pc[e] = "placing"
    /\ Accepted(orders[ticket[e]])
    /\ Mark(Signal(e), "SUCCESS")
    /\ opened' = Set(opened, e, TRUE)
    /\ last' = Set(last, e, [bar |-> Signal(e)[2], dir |-> entry[e].dir])
    /\ ticket' = Set(ticket, e, 0)
    /\ Done(e)
    /\ UNCHANGED <<clockVars, redisUp, orders, cursor, queue, attempted, fired>>

(* A refusal, an answer that makes no sense, or none in 60 seconds.        *)
NotPlaced(e) ==
    /\ pc[e] = "placing"
    /\ orders[ticket[e]].status = "refused" \/ world.ambiguous
    /\ Mark(Signal(e), "FAILED")
    /\ ticket' = Set(ticket, e, 0)
    /\ Done(e)
    /\ UNCHANGED <<clockVars, redisUp, orders, cursor, queue, opened,
                   attempted, last, fired>>

-----------------------------------------------------------------------------
(* The market and Redis.                                                   *)

CandlesClose ==
    /\ now < MaxTime
    /\ now' = now + 1
    /\ closed' = [tf \in Timeframes |-> IF now' % LengthOf[tf] = 0
                                 THEN now' - LengthOf[tf] ELSE closed[tf]]
    /\ UNCHANGED <<world, redisVars, orders, pc, memory, fired>>

RedisConnection ==
    /\ Outages
    /\ redisUp' = ~redisUp
    /\ UNCHANGED <<clockVars, claim, orders, pc, memory, fired>>

-----------------------------------------------------------------------------
Init ==
    /\ world \in Worlds
    /\ now = 0
    /\ closed = [tf \in Timeframes |-> 0 - LengthOf[tf]]
    /\ claim = [s \in {} |-> "PENDING"]
    /\ redisUp = TRUE
    /\ orders = <<>>
    /\ pc = [e \in Engines |-> "off"]
    /\ cursor = [e \in Engines |-> [tf \in Timeframes |-> NoBar]]
    /\ queue = [e \in Engines |-> {}]
    /\ opened = [e \in Engines |-> FALSE]
    /\ attempted = [e \in Engines |-> {}]
    /\ last = [e \in Engines |-> [bar |-> NoBar, dir |-> NoDirection]]
    /\ entry = [e \in Engines |-> NoEntry]
    /\ ticket = [e \in Engines |-> 0]
    /\ fired = [e \in Engines |-> {}]

Engine(e) ==
    \/ Start(e)
    \/ Crash(e)
    \/ \E answer \in Polls : Poll(e, answer)
    \/ \E tf \in Timeframes : \E b \in Reported(tf), d \in Directions :
          Evaluate(e, tf, b, d)
    \/ \E tf \in Timeframes : \E b \in Reported(tf) \cup {cursor[e][tf]} :
          Skip(e, tf, b)
    \/ Drop(e)
    \/ Confirm(e)
    \/ SeenAtBroker(e)
    \/ Send(e)
    \/ ClaimTaken(e)
    \/ ClaimFails(e)
    \/ Placed(e)
    \/ NotPlaced(e)

Next ==
    \/ \E e \in Engines : Engine(e)
    \/ \E i \in DOMAIN orders : Broker(i)
    \/ CandlesClose
    \/ RedisConnection

Spec == Init /\ [][Next]_vars

-----------------------------------------------------------------------------
(* Properties.                                                             *)

Statuses == {"sent", "hidden", "open", "closed", "refused"}

ClockOK == world \in Worlds /\ now \in Nat /\ closed \in [Timeframes -> Int]

RedisOK ==
    /\ DOMAIN claim \subseteq Signals
    /\ \A s \in DOMAIN claim : claim[s] \in {"PENDING", "SUCCESS", "FAILED"}
    /\ redisUp \in BOOLEAN

OrdersOK == orders \in Seq([sig : Signals, dir : Directions, status : Statuses])

PcOK == pc \in [Engines -> {"off", "poll", "bars", "checked", "confirmed", "placing"}]

EntryOK == entry \in [Engines -> [tf : Timeframes, dir : Directions] \cup {NoEntry}]

MemoryOK ==
    /\ cursor \in [Engines -> [Timeframes -> Int \cup {NoBar}]]
    /\ queue \in [Engines -> SUBSET Timeframes]
    /\ opened \in [Engines -> BOOLEAN]
    /\ attempted \in [Engines -> SUBSET Signals]
    /\ last \in [Engines -> [bar : Int \cup {NoBar}, dir : Directions \cup {NoDirection}]]
    /\ ticket \in [Engines -> Nat]
    /\ fired \in [Engines -> SUBSET Nat]

(* What an engine holds fits where it is in its tick. *)
StageOK(e) ==
    /\ pc[e] = "bars" => queue[e] # {}
    /\ pc[e] \in {"checked", "confirmed", "placing"} <=> entry[e] # NoEntry
    /\ \A tf \in Timeframes :
           tf \in queue[e] \/ tf = entry[e].tf => cursor[e][tf] \in Int
    /\ pc[e] = "placing" => ticket[e] \in DOMAIN orders
    /\ fired[e] \subseteq DOMAIN orders

TypeOK ==
    /\ ClockOK /\ RedisOK /\ OrdersOK /\ PcOK /\ EntryOK /\ MemoryOK
    /\ \A e \in Engines : StageOK(e)

(* A closed candle of a timeframe leads to at most one order request:      *)
(* across engines that share Redis, whatever bars they are shown; and for  *)
(* a single engine without Redis, also across its restarts if the history  *)
(* always ends with the last closed bar, and in one life if it does not.   *)
AtMostOneOrder ==
    Shared \/ (Cardinality(Engines) = 1 /\ ~(world.stale /\ world.crashes)) =>
        \A i, j \in DOMAIN orders : orders[i].sig = orders[j].sig => i = j

(* The signals of the protocol: bars that close within the bound. *)
BarSignals == {LengthOf[tf] : tf \in Timeframes} \X (0..MaxTime)

ClaimOf == [s \in BarSignals |-> IF Free(s) THEN "free" ELSE claim[s]]

OrderOf ==
    [s \in BarSignals |->
        IF \A i \in DOMAIN orders : orders[i].sig # s THEN "none"
        ELSE LET o == orders[CHOOSE i \in DOMAIN orders : orders[i].sig = s]
             IN  IF Accepted(o) THEN "accepted" ELSE o.status]

Protocol == INSTANCE EntryProtocol
                WITH Signals <- BarSignals, claim <- ClaimOf, order <- OrderOf

(* With a shared Redis the entry path keeps the promises of EntryProtocol. *)
FollowsProtocol == Protocol!Spec

(* When an order request is always answered, an engine has at most one     *)
(* request of a tick accepted, however late the bridge reports it.         *)
OneEntryPerTick ==
    ~world.ambiguous => \A e \in Engines :
        Cardinality({i \in fired[e] : Accepted(orders[i])}) <= 1

LiveOrders == {i \in DOMAIN orders : Live(orders[i])}
OneWay == \A i, j \in LiveOrders : orders[i].dir = orders[j].dir

(* A single engine that gets its answers, over a bridge that reports what  *)
(* is open, never holds more than MAX_OPEN_TRADES positions ...            *)
CapKept ==
    ~world.ambiguous /\ ~world.lag /\ ~world.crashes /\ Cardinality(Engines) = 1
        => Cardinality(LiveOrders) <= Cap

(* ... and never a BUY and a SELL at once.                                 *)
OneWayKept ==
    ~world.ambiguous /\ ~world.lag /\ ~world.crashes /\ Cardinality(Engines) = 1 => OneWay

(* live_loop.py:1225 "The latest completed candle may already have         *)
(* produced an order before this process restarted. Establish a cursor     *)
(* without replaying it".                                                  *)
NeverReplayed ==
    Cardinality(Engines) = 1 =>
        \A i, j \in DOMAIN orders : orders[i].sig = orders[j].sig => i = j

(* live_loop.py: re-polling and placing under one lock closes the race     *)
(* where two timeframe evaluations both see a flat account and submit      *)
(* opposite orders before the bridge exposes the first fill.               *)
NoOppositeInTick ==
    \A e \in Engines : \A i, j \in fired[e] \cap LiveOrders :
        orders[i].dir = orders[j].dir
=============================================================================

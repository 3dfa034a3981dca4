-------------------------- MODULE EntryOrderProofs --------------------------
(***************************************************************************)
(* Why a closed candle leads to at most one order request, for any number  *)
(* of engines and timeframes, any clock and any bounds.  Over a shared     *)
(* Redis every request left a claim behind, and a claim is never released. *)
(* A single engine without Redis has two things to go by: the signals it   *)
(* remembers to have attempted, which die with it, and its bar cursors,    *)
(* which a restart sets to the last bar of the history, and so never       *)
(* behind a bar that was traded as long as the history is not stale.       *)
(* Then, that over a shared Redis the entry path implements EntryProtocol: *)
(* every step of an engine, of the broker or of time is one of the         *)
(* protocol's for one signal, or changes nothing it speaks of.             *)
(* At the end, its limits: when an order request is always answered, an    *)
(* engine has at most one request of a tick accepted, and a single engine  *)
(* over a bridge that reports what is open stays within its cap and on one *)
(* side of the market.                                                     *)
(***************************************************************************)
EXTENDS EntryOrder, FiniteSetTheorems, SequenceTheorems, TLAPS

(* No engine and no order is ahead of the market, and two labels of one    *)
(* timeframe close their bars together.                                    *)
NotAhead ==
    /\ \A tf \in Timeframes : 0 - LengthOf[tf] <= closed[tf] /\ closed[tf] <= now - LengthOf[tf]
    /\ \A tf, u \in Timeframes : LengthOf[tf] = LengthOf[u] => closed[tf] = closed[u]
    /\ \A e \in Engines, tf \in Timeframes : First(e, tf) \/ cursor[e][tf] <= closed[tf]
    /\ \A i \in DOMAIN orders, tf \in Timeframes :
           LengthOf[tf] = orders[i].sig[1] => orders[i].sig[2] <= closed[tf]

(* A claim stands behind every order request. *)
Reserved == Shared => \A i \in DOMAIN orders : orders[i].sig \in DOMAIN claim

(* What an engine is about to send it has not attempted. *)
Untried == \A e \in Engines : pc[e] = "confirmed" => Signal(e) \notin attempted[e]

(* Engine e is done with bar b of timeframe tf, in this life. *)
Past(e, tf, b) ==
    \/ First(e, tf)
    \/ b < cursor[e][tf]
    \/ b = cursor[e][tf] /\ tf \notin queue[e] /\ tf # entry[e].tf

(* Engine e cannot send signal s once more. *)
DoneWith(e, s) ==
    \/ s \in attempted[e]
    \/ \A tf \in Timeframes : LengthOf[tf] = s[1] => Past(e, tf, s[2])

Remembered ==
    Cardinality(Engines) = 1 =>
        \A e \in Engines, i \in DOMAIN orders :
            /\ ~world.crashes => orders[i].sig \in attempted[e]
            /\ ~world.stale => DoneWith(e, orders[i].sig)

IInv == TypeOK /\ NotAhead /\ Reserved /\ Untried /\ Remembered /\ AtMostOneOrder

-----------------------------------------------------------------------------
(* Every signal an engine works on is one. *)
LEMMA SignalIsOne ==
    ASSUME TypeOK, NEW e \in Engines, entry[e] # NoEntry
    PROVE  /\ entry[e].tf \in Timeframes /\ entry[e].dir \in Directions
           /\ cursor[e][entry[e].tf] \in Int
           /\ Signal(e) = <<LengthOf[entry[e].tf], cursor[e][entry[e].tf]>>
           /\ Signal(e) \in Signals
<1>1. entry[e].tf \in Timeframes /\ entry[e].dir \in Directions
    BY DEF TypeOK, EntryOK
<1>2. cursor[e][entry[e].tf] \in Int
    BY <1>1 DEF TypeOK, StageOK
<1>. QED
    BY <1>1, <1>2, EntryAssumption DEF Signal, SignalOf, Signals

(* Having no entry is not an entry. *)
LEMMA NoEntryIsNone == NoEntry \notin [tf : Timeframes, dir : Directions]
    BY EntryAssumption DEF NoEntry

(* A bar the history may report is closed, and one of the bars there are.  *)
LEMMA ReportedFacts ==
    ASSUME TypeOK, NEW tf \in Timeframes, NEW b \in Reported(tf)
    PROVE  /\ b \in Int
           /\ 0 - LengthOf[tf] <= closed[tf] => 0 - LengthOf[tf] <= b /\ b <= closed[tf]
           /\ b = closed[tf] \/ b = 0 - LengthOf[tf] \/ b >= 0
           /\ ~world.stale => b = closed[tf]
<1>1. closed[tf] \in Int /\ LengthOf[tf] \in Nat
    BY EntryAssumption DEF TypeOK, ClockOK
<1>2. CASE world.stale
    <2>1. b = 0 - LengthOf[tf] \/ b \in 0..closed[tf]
        BY <1>2 DEF Reported
    <2>. QED
        BY <1>1, <1>2, <2>1
<1>3. CASE ~world.stale
    <2>1. b = closed[tf]
        BY <1>3 DEF Reported
    <2>. QED
        BY <1>1, <2>1
<1>. QED
    BY <1>2, <1>3

(* What is chosen in the steps of an engine: always a bar. *)
LEMMA EngineSteps ==
    ASSUME TypeOK, NEW e \in Engines, Engine(e)
    PROVE  \/ Start(e)
           \/ Crash(e)
           \/ \E answer \in Polls : Poll(e, answer)
           \/ \E tf \in Timeframes, b \in Int, d \in Directions : Evaluate(e, tf, b, d)
           \/ \E tf \in Timeframes, b \in Int : Skip(e, tf, b)
           \/ Drop(e) \/ Confirm(e) \/ SeenAtBroker(e)
           \/ Send(e) \/ ClaimTaken(e) \/ ClaimFails(e) \/ Placed(e) \/ NotPlaced(e)
<1>1. ASSUME NEW tf \in Timeframes, NEW b \in Reported(tf), NEW d \in Directions,
             Evaluate(e, tf, b, d)
      PROVE  \E t \in Timeframes, c \in Int, dir \in Directions : Evaluate(e, t, c, dir)
    BY <1>1, ReportedFacts
<1>2. ASSUME NEW tf \in Timeframes, NEW b \in Reported(tf) \cup {cursor[e][tf]}, Skip(e, tf, b)
      PROVE  \E t \in Timeframes, c \in Int : Skip(e, t, c)
    <2>1. cursor[e][tf] \in Int
        BY <1>2 DEF Skip, IsNext, TypeOK, StageOK
    <2>2. b \in Int
        BY <1>2, <2>1, ReportedFacts
    <2>. QED
        BY <1>2, <2>2
<1>. QED
    BY <1>1, <1>2 DEF Engine

(* A poll goes forward, to bars of the history: over the first bar of a    *)
(* timeframe in silence, otherwise to a bar to evaluate.                   *)
PollMoves(e) ==
    \A tf \in Timeframes :
        \/ cursor'[e][tf] = cursor[e][tf] /\ tf \notin queue'[e]
        \/ First(e, tf) /\ cursor'[e][tf] \in Reported(tf) /\ tf \notin queue'[e]
        \/ /\ cursor[e][tf] \in Int /\ cursor'[e][tf] \in Reported(tf)
           /\ cursor[e][tf] < cursor'[e][tf]

(* What a poll does to the engine that polls. *)
LEMMA PollFacts ==
    ASSUME TypeOK, NEW e \in Engines, NEW answer \in Polls, Poll(e, answer)
    PROVE  /\ PollMoves(e)
           /\ cursor' \in [Engines -> [Timeframes -> Int \cup {NoBar}]]
           /\ queue' \in [Engines -> SUBSET Timeframes]
           /\ pc'[e] = IF queue'[e] = {} THEN "poll" ELSE "bars"
           /\ entry' = entry /\ entry[e] = NoEntry /\ attempted' = attempted
           /\ orders' = orders /\ fired'[e] = {} /\ opened'[e] = FALSE
<1>. DEFINE new == NewBars(e, answer)
            seen == new \cup {tf \in Answered(answer) : First(e, tf)}
<1>1. \A tf \in Timeframes : answer[tf] = NoBar \/ answer[tf] \in Reported(tf)
    BY DEF Polls
<1>2. \A tf \in Timeframes : tf \in seen => answer[tf] \in Reported(tf)
    BY <1>1 DEF NewBars, Answered
<1>3. \A tf \in Timeframes : tf \in new => cursor[e][tf] \in Int /\ cursor[e][tf] < answer[tf]
    BY DEF NewBars, Later, First, TypeOK, MemoryOK
<1>4. \A tf \in Timeframes : tf \in seen => tf \in new \/ First(e, tf)
    OBVIOUS
<1>5. new \subseteq seen /\ new \subseteq Timeframes
    BY DEF NewBars, Answered
<1>6. /\ cursor' = Set(cursor, e, [tf \in Timeframes |->
                          IF tf \in seen THEN answer[tf] ELSE cursor[e][tf]])
      /\ queue' = Set(queue, e, new)
      /\ opened' = Set(opened, e, FALSE)
      /\ fired' = Set(fired, e, {})
      /\ pc' = Set(pc, e, IF new = {} THEN "poll" ELSE "bars")
      /\ pc[e] = "poll"
      /\ UNCHANGED <<entry, attempted, orders>>
    BY DEF Poll
<1>. HIDE DEF new, seen
<1>7. queue'[e] = new /\ queue' \in [Engines -> SUBSET Timeframes]
    BY <1>5, <1>6 DEF Set, TypeOK, MemoryOK
<1>8. /\ pc'[e] = IF queue'[e] = {} THEN "poll" ELSE "bars"
      /\ fired'[e] = {} /\ opened'[e] = FALSE
    BY <1>6, <1>7 DEF Set, TypeOK, PcOK, MemoryOK
<1>9. \A tf \in Timeframes :
          cursor'[e][tf] = IF tf \in seen THEN answer[tf] ELSE cursor[e][tf]
    BY <1>6 DEF Set, TypeOK, MemoryOK
<1>10. PollMoves(e)
    BY <1>2, <1>3, <1>4, <1>5, <1>7, <1>9 DEF PollMoves
<1>11. [tf \in Timeframes |-> IF tf \in seen THEN answer[tf] ELSE cursor[e][tf]]
           \in [Timeframes -> Int \cup {NoBar}]
    BY <1>2, ReportedFacts DEF TypeOK, MemoryOK
<1>12. cursor' \in [Engines -> [Timeframes -> Int \cup {NoBar}]]
    BY <1>6, <1>11 DEF Set, TypeOK, MemoryOK
<1>. QED
    BY <1>6, <1>7, <1>8, <1>10, <1>12 DEF TypeOK, StageOK

(* The engine's cursor of one timeframe goes forward to a bar the history  *)
(* reports, or stays.                                                      *)
Forward(e, tf) ==
    /\ cursor[e][tf] \in Int /\ cursor'[e][tf] \in Int
    /\ cursor[e][tf] <= cursor'[e][tf]
    /\ cursor'[e][tf] \in Reported(tf) \cup {cursor[e][tf]}
    /\ \A u \in Timeframes : u # tf => cursor'[e][u] = cursor[e][u]
    /\ cursor' \in [Engines -> [Timeframes -> Int \cup {NoBar}]]

(* The history of the timeframe in turn moves its cursor.                  *)
LEMMA AdvanceFacts ==
    ASSUME TypeOK, NEW e \in Engines, NEW tf \in Timeframes, NEW b \in Int, IsNext(e, tf),
           b \in Fetched(e, tf) \cup {cursor[e][tf]}, Advance(e, tf, b)
    PROVE  Forward(e, tf)
<1>1. cursor[e][tf] \in Int
    BY DEF IsNext, TypeOK, StageOK
<1>2. cursor' = Set(cursor, e, Set(cursor[e], tf, b))
    BY DEF Advance
<1>3. Set(cursor[e], tf, b) \in [Timeframes -> Int \cup {NoBar}]
    BY DEF Set, TypeOK, MemoryOK
<1>4. /\ cursor'[e] = Set(cursor[e], tf, b)
      /\ cursor' \in [Engines -> [Timeframes -> Int \cup {NoBar}]]
    BY <1>2, <1>3 DEF Set, TypeOK, MemoryOK
<1>5. \A u \in Timeframes : cursor'[e][u] = IF u = tf THEN b ELSE cursor[e][u]
    BY <1>4 DEF Set, TypeOK, MemoryOK
<1>6. cursor[e][tf] <= b /\ b \in Reported(tf) \cup {cursor[e][tf]}
    BY <1>1 DEF Fetched
<1>. QED
    BY <1>1, <1>4, <1>5, <1>6 DEF Forward

(* A bar that is taken up or dropped. *)
LEMMA TakenForward ==
    ASSUME TypeOK, NEW e \in Engines, NEW tf \in Timeframes, NEW b \in Int,
           Skip(e, tf, b) \/ \E d \in Directions : Evaluate(e, tf, b, d)
    PROVE  /\ Forward(e, tf) /\ tf \in queue[e] /\ pc[e] = "bars" /\ entry[e] = NoEntry
           /\ queue'[e] = queue[e] \ {tf}
<1>1. IsNext(e, tf) /\ b \in Fetched(e, tf) \cup {cursor[e][tf]} /\ Advance(e, tf, b)
    BY DEF Skip, Evaluate
<1>2. queue' = Set(queue, e, queue[e] \ {tf})
    BY DEF Skip, Evaluate
<1>3. tf \in queue[e] /\ pc[e] = "bars" /\ entry[e] = NoEntry
    BY <1>1 DEF IsNext, TypeOK, StageOK
<1>4. queue'[e] = queue[e] \ {tf}
    BY <1>2 DEF Set, TypeOK, MemoryOK
<1>. QED
    BY <1>1, <1>3, <1>4, AdvanceFacts

(* A claim or its outcome is written, and no claim is ever lost. *)
LEMMA ClaimsKept ==
    ASSUME RedisOK, NEW s \in Signals,
           NEW status \in {"PENDING", "SUCCESS", "FAILED"}, Claims(s, status)
    PROVE  /\ DOMAIN claim' = DOMAIN claim \cup {s}
           /\ DOMAIN claim' \subseteq Signals
           /\ \A t \in DOMAIN claim' : claim'[t] \in {"PENDING", "SUCCESS", "FAILED"}
    BY DEF RedisOK, Claims

(* Everything but the stages is typed after an engine's step. *)
LEMMA EngineTyped ==
    ASSUME TypeOK, NEW e \in Engines, Engine(e)
    PROVE  ClockOK' /\ RedisOK' /\ OrdersOK' /\ PcOK' /\ EntryOK' /\ MemoryOK'
<1>1. CASE Start(e)
    BY <1>1, SignalIsOne DEF Start,
        StageOK, Set, clockVars, redisVars, memory, TypeOK, ClockOK, RedisOK, OrdersOK,
        PcOK, EntryOK, MemoryOK
<1>2. CASE Crash(e)
    BY <1>2, SignalIsOne DEF Crash, Fresh, NoEntry,
        StageOK, Set, clockVars, redisVars, memory, TypeOK, ClockOK, RedisOK, OrdersOK,
        PcOK, EntryOK, MemoryOK
<1>3. CASE \E answer \in Polls : Poll(e, answer)
    <2>1. PICK answer \in Polls : Poll(e, answer)
        BY <1>3
    <2>2. cursor' \in [Engines -> [Timeframes -> Int \cup {NoBar}]]
          /\ queue' \in [Engines -> SUBSET Timeframes]
        BY <2>1, PollFacts
    <2>. QED
        BY <2>1, <2>2 DEF Poll, Set, clockVars, redisVars, TypeOK, ClockOK, RedisOK, OrdersOK,
            PcOK, EntryOK, MemoryOK
<1>4. CASE \E tf \in Timeframes, b \in Int, d \in Directions : Evaluate(e, tf, b, d)
    <2>1. PICK tf \in Timeframes, b \in Int, d \in Directions : Evaluate(e, tf, b, d)
        BY <1>4
    <2>2. cursor' \in [Engines -> [Timeframes -> Int \cup {NoBar}]]
        BY <2>1, TakenForward DEF Forward
    <2>3. PcOK' /\ EntryOK'
        BY <2>1 DEF Evaluate, Set, TypeOK, PcOK, EntryOK
    <2>4. queue' \in [Engines -> SUBSET Timeframes]
        BY <2>1 DEF Evaluate, Set, TypeOK, MemoryOK
    <2>. QED
        BY <2>1, <2>2, <2>3, <2>4 DEF Evaluate, clockVars, redisVars, TypeOK, ClockOK, RedisOK,
            OrdersOK, MemoryOK
<1>5. CASE \E tf \in Timeframes, b \in Int : Skip(e, tf, b)
    <2>1. PICK tf \in Timeframes, b \in Int : Skip(e, tf, b)
        BY <1>5
    <2>2. cursor' \in [Engines -> [Timeframes -> Int \cup {NoBar}]]
        BY <2>1, TakenForward DEF Forward
    <2>3. PcOK'
        BY <2>1 DEF Skip, PcAfter, Set, TypeOK, PcOK
    <2>4. queue' \in [Engines -> SUBSET Timeframes]
        BY <2>1 DEF Skip, Set, TypeOK, MemoryOK
    <2>. QED
        BY <2>1, <2>2, <2>3, <2>4 DEF Skip, clockVars, redisVars, TypeOK, ClockOK, RedisOK,
            OrdersOK, EntryOK, MemoryOK
<1>6. CASE Drop(e)
    BY <1>6, SignalIsOne DEF Drop, Done, PcAfter,
        StageOK, Set, clockVars, redisVars, memory, TypeOK, ClockOK, RedisOK, OrdersOK,
        PcOK, EntryOK, MemoryOK
<1>7. CASE Confirm(e)
    BY <1>7, SignalIsOne DEF Confirm,
        StageOK, Set, clockVars, redisVars, memory, TypeOK, ClockOK, RedisOK, OrdersOK,
        PcOK, EntryOK, MemoryOK
<1>8. CASE SeenAtBroker(e)
    BY <1>8, SignalIsOne DEF SeenAtBroker, Done, PcAfter,
        StageOK, Set, clockVars, redisVars, memory, TypeOK, ClockOK, RedisOK, OrdersOK,
        PcOK, EntryOK, MemoryOK
<1>9. CASE Send(e)
    BY <1>9, SignalIsOne DEF Send, TakesClaim, Claims, Statuses,
        StageOK, Set, clockVars, redisVars, memory, TypeOK, ClockOK, RedisOK, OrdersOK,
        PcOK, EntryOK, MemoryOK
<1>10. CASE ClaimTaken(e)
    BY <1>10, SignalIsOne DEF ClaimTaken, Done, PcAfter,
        StageOK, Set, clockVars, redisVars, memory, TypeOK, ClockOK, RedisOK, OrdersOK,
        PcOK, EntryOK, MemoryOK
<1>11. CASE ClaimFails(e)
    <2>1. entry[e] # NoEntry /\ Signal(e) \in Signals
        BY <1>11, SignalIsOne DEF ClaimFails, TypeOK, StageOK
    <2>2. RedisOK'
        BY <1>11, <2>1, ClaimsKept DEF ClaimFails, TypeOK, RedisOK, redisVars
    <2>3. PcOK' /\ EntryOK'
        BY <1>11 DEF ClaimFails, Done, PcAfter, Set, TypeOK, PcOK, EntryOK
    <2>4. ClockOK' /\ OrdersOK' /\ MemoryOK'
        BY <1>11 DEF ClaimFails, clockVars, TypeOK, ClockOK, OrdersOK, MemoryOK
    <2>. QED
        BY <2>2, <2>3, <2>4
<1>12. CASE Placed(e)
    BY <1>12, SignalIsOne DEF Placed, Done, PcAfter, Mark, Claims,
        StageOK, Set, clockVars, redisVars, memory, TypeOK, ClockOK, RedisOK, OrdersOK,
        PcOK, EntryOK, MemoryOK
<1>13. CASE NotPlaced(e)
    BY <1>13, SignalIsOne DEF NotPlaced, Done, PcAfter, Mark, Claims,
        StageOK, Set, clockVars, redisVars, memory, TypeOK, ClockOK, RedisOK, OrdersOK,
        PcOK, EntryOK, MemoryOK
<1>. QED
    BY <1>1, <1>2, <1>3, <1>4, <1>5, <1>6, <1>7, <1>8, <1>9, <1>10, <1>11, <1>12, <1>13, EngineSteps

(* What an engine does leaves what it holds in line with its stage. *)
LEMMA OwnStage ==
    ASSUME TypeOK, NEW e \in Engines, Engine(e)
    PROVE  StageOK(e)'
<1>1. CASE Start(e)
    BY <1>1, NoEntryIsNone, EntryAssumption DEF Start, NoEntry,
        Set, memory, StageOK, TypeOK, ClockOK, OrdersOK, PcOK, EntryOK, MemoryOK
<1>2. CASE Crash(e)
    BY <1>2, NoEntryIsNone, EntryAssumption DEF Crash, Fresh, NoEntry, NoEntry,
        Set, memory, StageOK, TypeOK, ClockOK, OrdersOK, PcOK, EntryOK, MemoryOK
<1>3. CASE \E answer \in Polls : Poll(e, answer)
    <2>1. PICK answer \in Polls : Poll(e, answer)
        BY <1>3
    <2>2. /\ entry[e] = NoEntry /\ entry' = entry /\ orders' = orders /\ fired'[e] = {}
          /\ pc'[e] = IF queue'[e] = {} THEN "poll" ELSE "bars"
          /\ PollMoves(e)
        BY <2>1, PollFacts
    <2>3. NoEntry.tf \notin Timeframes
        BY EntryAssumption DEF NoEntry
    <2>4. \A tf \in Timeframes : tf \in queue'[e] => cursor'[e][tf] \in Int
        BY <2>2, ReportedFacts DEF PollMoves
    <2>. QED
        BY <2>2, <2>3, <2>4 DEF StageOK
<1>4. CASE \E tf \in Timeframes, b \in Int, d \in Directions : Evaluate(e, tf, b, d)
    <2>1. PICK tf \in Timeframes, b \in Int, d \in Directions : Evaluate(e, tf, b, d)
        BY <1>4
    <2>2. Forward(e, tf) /\ tf \in queue[e] /\ queue'[e] = queue[e] \ {tf}
        BY <2>1, TakenForward
    <2>3. /\ pc'[e] = "checked" /\ entry'[e] = [tf |-> tf, dir |-> d]
          /\ UNCHANGED <<orders, fired>>
        BY <2>1 DEF Evaluate, Set, TypeOK, PcOK, EntryOK
    <2>4. entry'[e] # NoEntry /\ entry'[e].tf = tf
        BY <2>3, NoEntryIsNone
    <2>. QED
        BY <2>2, <2>3, <2>4 DEF Forward, StageOK, TypeOK
<1>5. CASE \E tf \in Timeframes, b \in Int : Skip(e, tf, b)
    <2>1. PICK tf \in Timeframes, b \in Int : Skip(e, tf, b)
        BY <1>5
    <2>2. /\ Forward(e, tf) /\ tf \in queue[e] /\ entry[e] = NoEntry
          /\ queue'[e] = queue[e] \ {tf}
        BY <2>1, TakenForward
    <2>3. entry' = entry /\ UNCHANGED <<orders, fired>> /\ pc'[e] = PcAfter(queue'[e])
        BY <2>1 DEF Skip, Set, TypeOK, PcOK
    <2>4. pc'[e] = IF queue'[e] = {} THEN "poll" ELSE "bars"
        BY <2>3 DEF PcAfter
    <2>. QED
        BY <2>2, <2>3, <2>4 DEF Forward, StageOK, TypeOK
<1>6. CASE Drop(e)
    BY <1>6, NoEntryIsNone, EntryAssumption DEF Drop, Done, PcAfter, NoEntry,
        Set, memory, StageOK, TypeOK, ClockOK, OrdersOK, PcOK, EntryOK, MemoryOK
<1>7. CASE Confirm(e)
    BY <1>7, NoEntryIsNone, EntryAssumption DEF Confirm, NoEntry,
        Set, memory, StageOK, TypeOK, ClockOK, OrdersOK, PcOK, EntryOK, MemoryOK
<1>8. CASE SeenAtBroker(e)
    BY <1>8, NoEntryIsNone, EntryAssumption DEF SeenAtBroker, Done, PcAfter, NoEntry,
        Set, memory, StageOK, TypeOK, ClockOK, OrdersOK, PcOK, EntryOK, MemoryOK
<1>9. CASE Send(e)
    BY <1>9, NoEntryIsNone, EntryAssumption DEF Send, NoEntry,
        Set, memory, StageOK, TypeOK, ClockOK, OrdersOK, PcOK, EntryOK, MemoryOK
<1>10. CASE ClaimTaken(e)
    BY <1>10, NoEntryIsNone, EntryAssumption DEF ClaimTaken, Done, PcAfter, NoEntry,
        Set, memory, StageOK, TypeOK, ClockOK, OrdersOK, PcOK, EntryOK, MemoryOK
<1>11. CASE ClaimFails(e)
    BY <1>11, NoEntryIsNone, EntryAssumption DEF ClaimFails, Done, PcAfter, NoEntry,
        Set, memory, StageOK, TypeOK, ClockOK, OrdersOK, PcOK, EntryOK, MemoryOK
<1>12. CASE Placed(e)
    BY <1>12, NoEntryIsNone, EntryAssumption DEF Placed, Done, PcAfter, NoEntry,
        Set, memory, StageOK, TypeOK, ClockOK, OrdersOK, PcOK, EntryOK, MemoryOK
<1>13. CASE NotPlaced(e)
    BY <1>13, NoEntryIsNone, EntryAssumption DEF NotPlaced, Done, PcAfter, NoEntry,
        Set, memory, StageOK, TypeOK, ClockOK, OrdersOK, PcOK, EntryOK, MemoryOK
<1>. QED
    BY <1>1, <1>2, <1>3, <1>4, <1>5, <1>6, <1>7, <1>8, <1>9, <1>10, <1>11, <1>12, <1>13, EngineSteps

(* Another engine's memory is its own. *)
Untouched(f) ==
    /\ pc'[f] = pc[f] /\ cursor'[f] = cursor[f] /\ queue'[f] = queue[f]
    /\ attempted'[f] = attempted[f] /\ entry'[f] = entry[f]
    /\ opened'[f] = opened[f] /\ ticket'[f] = ticket[f] /\ fired'[f] = fired[f]

(* A step of one engine leaves the memory of the others. *)
LEMMA OthersUntouched ==
    ASSUME TypeOK, NEW e \in Engines, Engine(e), NEW f \in Engines, f # e
    PROVE  Untouched(f)
<1>1. CASE Start(e)
    BY <1>1 DEF Start, Set, memory, Untouched, TypeOK, PcOK, EntryOK, MemoryOK
<1>2. CASE Crash(e)
    BY <1>2 DEF Crash, Fresh, Set, memory, Untouched, TypeOK, PcOK, EntryOK, MemoryOK
<1>3. CASE \E answer \in Polls : Poll(e, answer)
    BY <1>3 DEF Poll, Set, memory, Untouched, TypeOK, PcOK, EntryOK, MemoryOK
<1>4. CASE \E tf \in Timeframes, b \in Int, d \in Directions : Evaluate(e, tf, b, d)
    BY <1>4 DEF Evaluate, Advance, Set, memory, Untouched, TypeOK, PcOK, EntryOK, MemoryOK
<1>5. CASE \E tf \in Timeframes, b \in Int : Skip(e, tf, b)
    BY <1>5 DEF Skip, Advance, Set, memory, Untouched, TypeOK, PcOK, EntryOK, MemoryOK
<1>6. CASE Drop(e)
    BY <1>6 DEF Drop, Done, Set, memory, Untouched, TypeOK, PcOK, EntryOK, MemoryOK
<1>7. CASE Confirm(e)
    BY <1>7 DEF Confirm, Set, memory, Untouched, TypeOK, PcOK, EntryOK, MemoryOK
<1>8. CASE SeenAtBroker(e)
    BY <1>8 DEF SeenAtBroker, Done, Set, memory, Untouched, TypeOK, PcOK, EntryOK, MemoryOK
<1>9. CASE Send(e)
    BY <1>9 DEF Send, Set, memory, Untouched, TypeOK, PcOK, EntryOK, MemoryOK
<1>10. CASE ClaimTaken(e)
    BY <1>10 DEF ClaimTaken, Done, Set, memory, Untouched, TypeOK, PcOK, EntryOK, MemoryOK
<1>11. CASE ClaimFails(e)
    BY <1>11 DEF ClaimFails, Done, Set, memory, Untouched, TypeOK, PcOK, EntryOK, MemoryOK
<1>12. CASE Placed(e)
    BY <1>12 DEF Placed, Done, Set, memory, Untouched, TypeOK, PcOK, EntryOK, MemoryOK
<1>13. CASE NotPlaced(e)
    BY <1>13 DEF NotPlaced, Done, Set, memory, Untouched, TypeOK, PcOK, EntryOK, MemoryOK
<1>. QED
    BY <1>1, <1>2, <1>3, <1>4, <1>5, <1>6, <1>7, <1>8, <1>9, <1>10, <1>11, <1>12, <1>13, EngineSteps

(* A request once sent keeps its place, its signal and its direction.      *)
OrdersKept ==
    /\ DOMAIN orders \subseteq DOMAIN orders'
    /\ \A i \in DOMAIN orders : orders'[i].sig = orders[i].sig

(* The only engine step that adds one, and a claim is never taken back.    *)
LEMMA EngineOrders ==
    ASSUME TypeOK, NEW e \in Engines, Engine(e)
    PROVE  /\ OrdersKept
           /\ DOMAIN claim \subseteq DOMAIN claim'
           /\ Send(e) \/ orders' = orders
<1>1. CASE Start(e)
    BY <1>1 DEF Start, redisVars, OrdersKept
<1>2. CASE Crash(e)
    BY <1>2 DEF Crash, redisVars, OrdersKept
<1>3. CASE \E answer \in Polls : Poll(e, answer)
    BY <1>3 DEF Poll, redisVars, OrdersKept
<1>4. CASE \E tf \in Timeframes, b \in Int, d \in Directions : Evaluate(e, tf, b, d)
    BY <1>4 DEF Evaluate, redisVars, OrdersKept
<1>5. CASE \E tf \in Timeframes, b \in Int : Skip(e, tf, b)
    BY <1>5 DEF Skip, redisVars, OrdersKept
<1>6. CASE Drop(e)
    BY <1>6 DEF Drop, redisVars, OrdersKept
<1>7. CASE Confirm(e)
    BY <1>7 DEF Confirm, redisVars, OrdersKept
<1>8. CASE SeenAtBroker(e)
    BY <1>8 DEF SeenAtBroker, redisVars, OrdersKept
<1>9. CASE Send(e)
    BY <1>9 DEF Send, TakesClaim, Claims, TypeOK, OrdersOK, redisVars, OrdersKept
<1>10. CASE ClaimTaken(e)
    BY <1>10 DEF ClaimTaken, redisVars, OrdersKept
<1>11. CASE ClaimFails(e)
    BY <1>11 DEF ClaimFails, Claims, redisVars, OrdersKept
<1>12. CASE Placed(e)
    BY <1>12 DEF Placed, Mark, Claims, redisVars, OrdersKept
<1>13. CASE NotPlaced(e)
    BY <1>13 DEF NotPlaced, Mark, Claims, redisVars, OrdersKept
<1>. QED
    BY <1>1, <1>2, <1>3, <1>4, <1>5, <1>6, <1>7, <1>8, <1>9, <1>10, <1>11, <1>12, <1>13, EngineSteps

Requests == [sig : Signals, dir : Directions, status : Statuses]

(* Every request is one. *)
LEMMA RequestTyped ==
    ASSUME OrdersOK, NEW i \in DOMAIN orders
    PROVE  orders[i] \in Requests /\ orders[i].sig[1] \in Nat /\ orders[i].sig[2] \in Int
<1>1. orders \in Seq(Requests) /\ i \in 1..Len(orders)
    BY DEF OrdersOK, Requests
<1>2. orders[i] \in Requests
    BY <1>1
<1>. QED
    BY <1>2 DEF Requests, Signals

(* The broker only changes the status of a request. *)
LEMMA BrokerFacts ==
    ASSUME TypeOK, NEW i \in DOMAIN orders, Broker(i)
    PROVE  /\ OrdersOK' /\ DOMAIN orders' = DOMAIN orders
           /\ \A j \in DOMAIN orders : orders'[j].sig = orders[j].sig
           /\ UNCHANGED <<clockVars, redisVars, pc, memory, fired>>
<1>1. PICK st \in Statuses : orders' = [orders EXCEPT ![i].status = st]
    BY DEF Broker, Settle, Statuses
<1>. DEFINE r == [orders[i] EXCEPT !.status = st]
<1>2. r \in Requests /\ r.sig = orders[i].sig
    BY RequestTyped DEF TypeOK, Requests
<1>3. orders' = [orders EXCEPT ![i] = r]
    BY <1>1
<1>4. orders \in Seq(Requests) /\ i \in 1..Len(orders)
    BY DEF TypeOK, OrdersOK, Requests
<1>. HIDE DEF r
<1>5. /\ orders' \in Seq(Requests) /\ Len(orders') = Len(orders)
      /\ \A j \in 1..Len(orders) : orders'[j] = IF j = i THEN r ELSE orders[j]
    BY <1>2, <1>3, <1>4, ExceptSeq
<1>6. DOMAIN orders = 1..Len(orders) /\ DOMAIN orders' = 1..Len(orders)
    BY <1>4, <1>5
<1>7. OrdersOK'
    BY <1>5 DEF OrdersOK, Requests
<1>8. \A j \in DOMAIN orders : orders'[j].sig = orders[j].sig
    BY <1>2, <1>5, <1>6
<1>. QED
    BY <1>6, <1>7, <1>8 DEF Broker, Settle

(* Types are inductive. *)
THEOREM TypeInductive == TypeOK /\ [Next]_vars => TypeOK'
<1>. SUFFICES ASSUME TypeOK, [Next]_vars PROVE TypeOK'
    OBVIOUS
<1>1. ASSUME NEW e \in Engines, Engine(e) PROVE TypeOK'
    <2>1. ASSUME NEW f \in Engines, f # e PROVE StageOK(f)'
        BY <1>1, <2>1, OthersUntouched, EngineOrders DEF Untouched, OrdersKept, StageOK, TypeOK
    <2>. QED
        BY <1>1, <2>1, EngineTyped, OwnStage DEF TypeOK
<1>2. ASSUME NEW i \in DOMAIN orders, Broker(i) PROVE TypeOK'
    BY <1>2, BrokerFacts DEF clockVars, redisVars, memory, TypeOK, ClockOK, RedisOK,
        PcOK, EntryOK, MemoryOK, StageOK
<1>3. CASE CandlesClose
    <2>1. ClockOK'
        BY <1>3, EntryAssumption DEF CandlesClose, TypeOK, ClockOK
    <2>. QED
        BY <1>3, <2>1 DEF CandlesClose, redisVars, memory, TypeOK, RedisOK, OrdersOK,
            PcOK, EntryOK, MemoryOK, StageOK
<1>4. CASE RedisConnection
    BY <1>4 DEF RedisConnection, clockVars, memory, TypeOK, ClockOK, RedisOK, OrdersOK,
        PcOK, EntryOK, MemoryOK, StageOK
<1>5. CASE UNCHANGED vars
    BY <1>5 DEF vars, clockVars, redisVars, memory, TypeOK, ClockOK, RedisOK, OrdersOK,
        PcOK, EntryOK, MemoryOK, StageOK
<1>. QED
    BY <1>1, <1>2, <1>3, <1>4, <1>5 DEF Next

(* The one new request carries the signal its engine was working on.       *)
LEMMA NewRequest ==
    ASSUME TypeOK, NEW e \in Engines, Send(e)
    PROVE  /\ Signal(e) \in Signals /\ entry[e] # NoEntry
           /\ \A i \in DOMAIN orders' :
                  \/ i \in DOMAIN orders /\ orders'[i].sig = orders[i].sig
                  \/ i \notin DOMAIN orders /\ i = Len(orders) + 1 /\ orders'[i].sig = Signal(e)
<1>1. entry[e] # NoEntry
    BY DEF Send, TypeOK, StageOK
<1>2. Signal(e) \in Signals
    BY <1>1, SignalIsOne
<1>. QED
    BY <1>1, <1>2 DEF Send, TypeOK, OrdersOK

(* No engine moves the market; a bar cursor is kept, set to a bar of the   *)
(* history, or forgotten by a crash.                                       *)
LEMMA CursorFollows ==
    ASSUME TypeOK, NEW e \in Engines, Engine(e)
    PROVE  /\ world' = world /\ now' = now /\ closed' = closed
           /\ \A tf \in Timeframes :
                  cursor'[e][tf] \in {cursor[e][tf], NoBar} \cup Reported(tf)
<1>1. CASE Start(e)
    BY <1>1 DEF Start, Set, clockVars, memory, TypeOK, MemoryOK
<1>2. CASE Crash(e)
    BY <1>2 DEF Crash, Fresh, Set, clockVars, memory, TypeOK, MemoryOK
<1>3. CASE \E answer \in Polls : Poll(e, answer)
    BY <1>3, PollFacts DEF Poll, PollMoves, clockVars
<1>4. CASE \E tf \in Timeframes, b \in Int, d \in Directions : Evaluate(e, tf, b, d)
    BY <1>4, TakenForward DEF Evaluate, Forward, clockVars
<1>5. CASE \E tf \in Timeframes, b \in Int : Skip(e, tf, b)
    BY <1>5, TakenForward DEF Skip, Forward, clockVars
<1>6. CASE Drop(e)
    BY <1>6 DEF Drop, Set, clockVars, memory, TypeOK, MemoryOK
<1>7. CASE Confirm(e)
    BY <1>7 DEF Confirm, Set, clockVars, memory, TypeOK, MemoryOK
<1>8. CASE SeenAtBroker(e)
    BY <1>8 DEF SeenAtBroker, Set, clockVars, memory, TypeOK, MemoryOK
<1>9. CASE Send(e)
    BY <1>9 DEF Send, Set, clockVars, memory, TypeOK, MemoryOK
<1>10. CASE ClaimTaken(e)
    BY <1>10 DEF ClaimTaken, Set, clockVars, memory, TypeOK, MemoryOK
<1>11. CASE ClaimFails(e)
    BY <1>11 DEF ClaimFails, Set, clockVars, memory, TypeOK, MemoryOK
<1>12. CASE Placed(e)
    BY <1>12 DEF Placed, Set, clockVars, memory, TypeOK, MemoryOK
<1>13. CASE NotPlaced(e)
    BY <1>13 DEF NotPlaced, Set, clockVars, memory, TypeOK, MemoryOK
<1>. QED
    BY <1>1, <1>2, <1>3, <1>4, <1>5, <1>6, <1>7, <1>8, <1>9, <1>10, <1>11, <1>12, <1>13, EngineSteps

(* No step takes an engine or a request ahead of the market. *)
LEMMA NotAheadInductive ==
    ASSUME TypeOK, TypeOK', NotAhead, [Next]_vars
    PROVE  NotAhead'
<1>1. ASSUME NEW e \in Engines, Engine(e) PROVE NotAhead'
    <2>1. now' = now /\ closed' = closed
        BY <1>1, CursorFollows
    <2>2. ASSUME NEW f \in Engines, NEW tf \in Timeframes
          PROVE  First(f, tf)' \/ cursor'[f][tf] <= closed[tf]
        <3>1. CASE f = e
            BY <1>1, <3>1, CursorFollows, ReportedFacts DEF NotAhead, First, TypeOK, ClockOK
        <3>2. CASE f # e
            BY <1>1, <3>2, OthersUntouched DEF NotAhead, First, Untouched
        <3>. QED
            BY <3>1, <3>2
    <2>3. ASSUME NEW i \in DOMAIN orders', NEW tf \in Timeframes, LengthOf[tf] = orders'[i].sig[1]
          PROVE  orders'[i].sig[2] <= closed[tf]
        <3>1. CASE i \in DOMAIN orders /\ orders'[i].sig = orders[i].sig
            BY <2>3, <3>1 DEF NotAhead
        <3>2. CASE Send(e) /\ orders'[i].sig = Signal(e)
            <4>1. /\ entry[e].tf \in Timeframes
                  /\ Signal(e) = <<LengthOf[entry[e].tf], cursor[e][entry[e].tf]>>
                  /\ cursor[e][entry[e].tf] \in Int
                BY <3>2, NewRequest, SignalIsOne
            <4>2. cursor[e][entry[e].tf] <= closed[entry[e].tf]
                BY <4>1, EntryAssumption DEF NotAhead, First
            <4>3. closed[entry[e].tf] = closed[tf]
                BY <2>3, <3>2, <4>1 DEF NotAhead
            <4>. QED
                BY <3>2, <4>1, <4>2, <4>3
        <3>. QED
            BY <1>1, <3>1, <3>2, EngineOrders, NewRequest
    <2>. QED
        BY <2>1, <2>2, <2>3 DEF NotAhead
<1>2. ASSUME NEW i \in DOMAIN orders, Broker(i) PROVE NotAhead'
    BY <1>2, BrokerFacts DEF clockVars, memory, NotAhead, First
<1>3. CASE CandlesClose
    <2>1. \A tf \in Timeframes : /\ closed'[tf] >= closed[tf] /\ closed'[tf] <= now' - LengthOf[tf]
                                 /\ 0 - LengthOf[tf] <= closed'[tf]
        BY <1>3, EntryAssumption DEF CandlesClose, NotAhead, TypeOK, ClockOK
    <2>2. \A tf, u \in Timeframes : LengthOf[tf] = LengthOf[u] => closed'[tf] = closed'[u]
        BY <1>3 DEF CandlesClose, NotAhead
    <2>3. ASSUME NEW f \in Engines, NEW tf \in Timeframes
          PROVE  First(f, tf)' \/ cursor'[f][tf] <= closed'[tf]
        BY <1>3, <2>1 DEF CandlesClose, memory, NotAhead, First, TypeOK, ClockOK, MemoryOK
    <2>4. ASSUME NEW i \in DOMAIN orders, NEW tf \in Timeframes, LengthOf[tf] = orders[i].sig[1]
          PROVE  orders[i].sig[2] <= closed'[tf]
        <3>1. orders[i].sig[2] \in Int
            BY RequestTyped DEF TypeOK
        <3>. QED
            BY <1>3, <2>1, <2>4, <3>1 DEF CandlesClose, NotAhead, TypeOK, ClockOK
    <2>. QED
        BY <1>3, <2>1, <2>2, <2>3, <2>4 DEF CandlesClose, NotAhead
<1>4. CASE RedisConnection
    BY <1>4 DEF RedisConnection, clockVars, memory, NotAhead, First
<1>5. CASE UNCHANGED vars
    BY <1>5 DEF vars, clockVars, memory, NotAhead, First
<1>. QED
    BY <1>1, <1>2, <1>3, <1>4, <1>5 DEF Next

(* No request goes out without its claim. *)
LEMMA ReservedInductive ==
    ASSUME TypeOK, Reserved, [Next]_vars
    PROVE  Reserved'
<1>1. ASSUME NEW e \in Engines, Engine(e) PROVE Reserved'
    <2>1. ASSUME Shared, Send(e) PROVE Signal(e) \in DOMAIN claim'
        BY <2>1 DEF Send, TakesClaim, Claims
    <2>. QED
        BY <1>1, <2>1, EngineOrders, NewRequest DEF Reserved, OrdersKept
<1>2. ASSUME NEW i \in DOMAIN orders, Broker(i) PROVE Reserved'
    BY <1>2, BrokerFacts DEF redisVars, Reserved
<1>3. CASE CandlesClose \/ RedisConnection \/ UNCHANGED vars
    BY <1>3 DEF CandlesClose, RedisConnection, vars, redisVars, Reserved
<1>. QED
    BY <1>1, <1>2, <1>3 DEF Next

(* The position check is the one way to a confirmed entry. *)
LEMMA OnlyConfirmed ==
    ASSUME TypeOK, NEW e \in Engines, Engine(e), pc'[e] = "confirmed"
    PROVE  Confirm(e)
<1>1. CASE Start(e)
    BY <1>1 DEF Start, Set, TypeOK, PcOK
<1>2. CASE Crash(e)
    BY <1>2 DEF Crash, Set, TypeOK, PcOK
<1>3. CASE \E answer \in Polls : Poll(e, answer)
    BY <1>3 DEF Poll, Set, TypeOK, PcOK
<1>4. CASE \E tf \in Timeframes, b \in Int, d \in Directions : Evaluate(e, tf, b, d)
    BY <1>4 DEF Evaluate, Set, TypeOK, PcOK
<1>5. CASE \E tf \in Timeframes, b \in Int : Skip(e, tf, b)
    BY <1>5 DEF Skip, PcAfter, Set, TypeOK, PcOK
<1>6. CASE Drop(e)
    BY <1>6 DEF Drop, Done, PcAfter, Set, TypeOK, PcOK
<1>8. CASE SeenAtBroker(e)
    BY <1>8 DEF SeenAtBroker, Done, PcAfter, Set, TypeOK, PcOK
<1>9. CASE Send(e)
    BY <1>9 DEF Send, Set, TypeOK, PcOK
<1>10. CASE ClaimTaken(e)
    BY <1>10 DEF ClaimTaken, Done, PcAfter, Set, TypeOK, PcOK
<1>11. CASE ClaimFails(e)
    BY <1>11 DEF ClaimFails, Done, PcAfter, Set, TypeOK, PcOK
<1>12. CASE Placed(e)
    BY <1>12 DEF Placed, Done, PcAfter, Set, TypeOK, PcOK
<1>13. CASE NotPlaced(e)
    BY <1>13 DEF NotPlaced, Done, PcAfter, Set, TypeOK, PcOK
<1>. QED
    BY <1>1, <1>2, <1>3, <1>4, <1>5, <1>6, <1>8, <1>9, <1>10, <1>11, <1>12, <1>13, EngineSteps

(* The position check lets no attempted signal pass. *)
LEMMA UntriedInductive ==
    ASSUME TypeOK, Untried, [Next]_vars
    PROVE  Untried'
<1>1. ASSUME NEW e \in Engines, Engine(e) PROVE Untried'
    <2>. SUFFICES ASSUME NEW f \in Engines, pc'[f] = "confirmed"
                  PROVE  Signal(f)' \notin attempted'[f]
        BY DEF Untried
    <2>1. CASE f = e
        BY <1>1, <2>1, OnlyConfirmed DEF Confirm, MayEnter, memory, Signal, SignalOf
    <2>2. CASE f # e
        BY <1>1, <2>2, OthersUntouched DEF Untouched, Untried, Signal, SignalOf
    <2>. QED
        BY <2>1, <2>2
<1>2. ASSUME NEW i \in DOMAIN orders, Broker(i) PROVE Untried'
    BY <1>2, BrokerFacts DEF memory, Untried, Signal, SignalOf
<1>3. CASE CandlesClose \/ RedisConnection \/ UNCHANGED vars
    BY <1>3 DEF CandlesClose, RedisConnection, vars, memory, Untried, Signal, SignalOf
<1>. QED
    BY <1>1, <1>2, <1>3 DEF Next

(* Engine e learns of no timeframe with a new bar: it takes one from its    *)
(* queue at most, with the bar that is the last by then.                   *)
NoNewBar(e) ==
    /\ attempted[e] \subseteq attempted'[e]
    /\ \A tf \in Timeframes :
           \/ cursor'[e][tf] = cursor[e][tf]
           \/ /\ tf \in queue[e] /\ cursor[e][tf] \in Int /\ cursor'[e][tf] \in Int
              /\ cursor[e][tf] <= cursor'[e][tf]
    /\ queue'[e] \subseteq queue[e]
    /\ \A tf \in Timeframes : tf = entry'[e].tf => tf = entry[e].tf \/ tf \in queue[e]

(* Only a poll and a death change what bars an engine knows. *)
LEMMA MostStepsBringNoBar ==
    ASSUME TypeOK, NEW e \in Engines, Engine(e)
    PROVE  NoNewBar(e) \/ Crash(e) \/ \E answer \in Polls : Poll(e, answer)
<1>1. NoEntry.tf \notin Timeframes
    BY EntryAssumption DEF NoEntry
<1>2. CASE Start(e)
    BY <1>1, <1>2 DEF Start, NoNewBar, Set, memory, TypeOK, EntryOK, MemoryOK
<1>3. CASE \E tf \in Timeframes, b \in Int, d \in Directions : Evaluate(e, tf, b, d)
    <2>1. PICK tf \in Timeframes, b \in Int, d \in Directions : Evaluate(e, tf, b, d)
        BY <1>3
    <2>2. Forward(e, tf) /\ tf \in queue[e] /\ queue'[e] = queue[e] \ {tf}
        BY <2>1, TakenForward
    <2>3. attempted' = attempted /\ entry'[e].tf = tf
        BY <2>1 DEF Evaluate, Set, TypeOK, EntryOK
    <2>. QED
        BY <2>2, <2>3 DEF Forward, NoNewBar
<1>4. CASE \E tf \in Timeframes, b \in Int : Skip(e, tf, b)
    <2>1. PICK tf \in Timeframes, b \in Int : Skip(e, tf, b)
        BY <1>4
    <2>2. Forward(e, tf) /\ tf \in queue[e] /\ queue'[e] = queue[e] \ {tf}
        BY <2>1, TakenForward
    <2>3. attempted' = attempted /\ entry' = entry
        BY <2>1 DEF Skip
    <2>. QED
        BY <2>2, <2>3 DEF Forward, NoNewBar
<1>5. CASE Drop(e)
    BY <1>1, <1>5 DEF Drop, Done, NoNewBar, Set, memory, TypeOK, EntryOK, MemoryOK
<1>6. CASE Confirm(e)
    BY <1>1, <1>6 DEF Confirm, NoNewBar, Set, memory, TypeOK, EntryOK, MemoryOK
<1>7. CASE SeenAtBroker(e)
    BY <1>1, <1>7 DEF SeenAtBroker, Done, NoNewBar, Set, memory, TypeOK, EntryOK, MemoryOK
<1>8. CASE Send(e)
    BY <1>1, <1>8 DEF Send, NoNewBar, Set, memory, TypeOK, EntryOK, MemoryOK
<1>9. CASE ClaimTaken(e)
    BY <1>1, <1>9 DEF ClaimTaken, Done, NoNewBar, Set, memory, TypeOK, EntryOK, MemoryOK
<1>10. CASE ClaimFails(e)
    BY <1>1, <1>10 DEF ClaimFails, Done, NoNewBar, Set, memory, TypeOK, EntryOK, MemoryOK
<1>11. CASE Placed(e)
    BY <1>1, <1>11 DEF Placed, Done, NoNewBar, Set, memory, TypeOK, EntryOK, MemoryOK
<1>12. CASE NotPlaced(e)
    BY <1>1, <1>12 DEF NotPlaced, Done, NoNewBar, Set, memory, TypeOK, EntryOK, MemoryOK
<1>. QED
    BY <1>1, <1>2, <1>3, <1>4, <1>5, <1>6, <1>7, <1>8, <1>9, <1>10, <1>11, <1>12, EngineSteps

(* A bar an engine is done with stays done with, through polls and deaths, *)
(* as long as the history ends with the last closed bar.                   *)
LEMMA StaysDone ==
    ASSUME TypeOK, NotAhead, ~world.stale, NEW e \in Engines, Engine(e), NEW s \in Signals,
           \A tf \in Timeframes : LengthOf[tf] = s[1] => s[2] <= closed[tf],
           DoneWith(e, s)
    PROVE  DoneWith(e, s)'
<1>1. CASE NoNewBar(e)
    <2>1. CASE s \in attempted[e]
        BY <1>1, <2>1 DEF NoNewBar, DoneWith
    <2>2. ASSUME NEW tf \in Timeframes, Past(e, tf, s[2]) PROVE Past(e, tf, s[2])'
        <3>1. s[2] \in Int
            BY DEF Signals
        <3>. QED
            BY <1>1, <2>2, <3>1, EntryAssumption DEF NoNewBar, Past, First
    <2>. QED
        BY <2>1, <2>2 DEF DoneWith
<1>2. CASE Crash(e)
    BY <1>2 DEF Crash, Fresh, Set, DoneWith, Past, First, TypeOK, MemoryOK
<1>3. CASE \E answer \in Polls : Poll(e, answer)
    <2>1. PICK answer \in Polls : Poll(e, answer)
        BY <1>3
    <2>2. /\ attempted' = attempted /\ entry' = entry /\ entry[e] = NoEntry
          /\ PollMoves(e)
        BY <2>1, PollFacts
    <2>3. CASE s \in attempted[e]
        BY <2>2, <2>3 DEF DoneWith
    <2>4. ASSUME NEW tf \in Timeframes, LengthOf[tf] = s[1], Past(e, tf, s[2])
          PROVE  Past(e, tf, s[2])'
        <3>1. tf # entry'[e].tf
            BY <2>2, EntryAssumption DEF NoEntry
        <3>2. s[2] \in Int /\ closed[tf] \in Int /\ s[2] <= closed[tf]
            BY <2>4 DEF Signals, TypeOK, ClockOK
        <3>3. cursor'[e][tf] \in Reported(tf) => cursor'[e][tf] = closed[tf]
            BY ReportedFacts
        <3>4. CASE cursor'[e][tf] = cursor[e][tf] /\ tf \notin queue'[e]
            BY <2>2, <2>4, <3>1, <3>4 DEF Past, First
        <3>5. CASE cursor'[e][tf] \in Reported(tf) /\ tf \notin queue'[e]
            BY <3>1, <3>2, <3>3, <3>5 DEF Past
        <3>6. CASE cursor[e][tf] \in Int /\ cursor'[e][tf] = closed[tf]
                   /\ cursor[e][tf] < cursor'[e][tf]
            BY <2>4, <3>2, <3>6, EntryAssumption DEF Past, First
        <3>. QED
            BY <2>2, <3>3, <3>4, <3>5, <3>6 DEF PollMoves
    <2>. QED
        BY <2>3, <2>4 DEF DoneWith
<1>. QED
    BY <1>1, <1>2, <1>3, MostStepsBringNoBar

(* A single engine is alone. *)
LEMMA OneEngine ==
    ASSUME Cardinality(Engines) = 1, NEW e \in Engines, NEW f \in Engines
    PROVE  e = f
    BY FS_Singleton, EntryAssumption

(* An engine that lives remembers every attempt. *)
LEMMA AttemptsKept ==
    ASSUME TypeOK, ~world.crashes, NEW e \in Engines, Engine(e)
    PROVE  attempted[e] \subseteq attempted'[e]
<1>1. CASE NoNewBar(e)
    BY <1>1 DEF NoNewBar
<1>2. CASE Crash(e)
    BY <1>2 DEF Crash
<1>3. CASE \E answer \in Polls : Poll(e, answer)
    BY <1>3, PollFacts
<1>. QED
    BY <1>1, <1>2, <1>3, MostStepsBringNoBar

(* A single engine remembers every signal it sent as long as it lives, and *)
(* stays done with it as long as the history is not stale.                 *)
LEMMA RememberedInductive ==
    ASSUME TypeOK, NotAhead, Remembered, [Next]_vars
    PROVE  Remembered'
<1>1. ASSUME NEW e \in Engines, Engine(e), Cardinality(Engines) = 1,
             NEW f \in Engines, NEW i \in DOMAIN orders'
      PROVE  /\ ~world.crashes => orders'[i].sig \in attempted'[f]
             /\ ~world.stale => DoneWith(f, orders[i].sig)'
    <2>1. f = e
        BY <1>1, OneEngine
    <2>2. CASE i \in DOMAIN orders /\ orders'[i].sig = orders[i].sig
        <3>1. orders[i].sig \in Signals
            BY <2>2, RequestTyped DEF TypeOK, Requests
        <3>2. \A tf \in Timeframes :
                  LengthOf[tf] = orders[i].sig[1] => orders[i].sig[2] <= closed[tf]
            BY <2>2 DEF NotAhead
        <3>3. /\ ~world.crashes => orders[i].sig \in attempted[e]
              /\ ~world.stale => DoneWith(e, orders[i].sig)
            BY <1>1, <2>2 DEF Remembered
        <3>4. ~world.crashes => orders[i].sig \in attempted'[e]
            BY <1>1, <3>3, AttemptsKept
        <3>. DEFINE s == orders[i].sig
        <3>5. \A t : t = s /\ ~world.stale => (DoneWith(e, t) => (t \in attempted'[e]
                  \/ \A tf \in Timeframes : LengthOf[tf] = t[1] => Past(e, tf, t[2])'))
            BY <1>1, <3>1, <3>2, StaysDone DEF DoneWith
        <3>. QED
            BY <2>1, <2>2, <3>3, <3>4, <3>5 DEF DoneWith, Past
    <2>3. CASE Send(e) /\ orders'[i].sig = Signal(e)
        BY <2>1, <2>3 DEF Send, Set, DoneWith, TypeOK, MemoryOK
    <2>. QED
        BY <1>1, <2>2, <2>3, EngineOrders, NewRequest
<1>2. ASSUME NEW e \in Engines, Engine(e) PROVE Remembered'
    BY <1>1, <1>2, CursorFollows DEF Remembered
<1>3. ASSUME NEW i \in DOMAIN orders, Broker(i) PROVE Remembered'
    BY <1>3, BrokerFacts DEF clockVars, memory, Remembered, DoneWith, Past, First
<1>4. CASE CandlesClose \/ RedisConnection \/ UNCHANGED vars
    BY <1>4 DEF CandlesClose, RedisConnection, vars, clockVars, memory, Remembered,
        DoneWith, Past, First
<1>. QED
    BY <1>2, <1>3, <1>4 DEF Next

(* Where one candle is to lead to one order: engines share Redis, or there *)
(* is one, and either its history is up to date or it lives.               *)
Guarded == Shared \/ (Cardinality(Engines) = 1 /\ ~(world.stale /\ world.crashes))

(* A request never repeats a signal.                                       *)
LEMMA SendsNewSignal ==
    ASSUME TypeOK, Reserved, Untried, Remembered, Guarded,
           NEW e \in Engines, Send(e), NEW i \in DOMAIN orders
    PROVE  orders[i].sig # Signal(e)
<1>1. CASE Shared
    BY <1>1 DEF Reserved, Send, TakesClaim, Free
<1>2. Signal(e) \notin attempted[e]
    BY DEF Untried, Send
<1>3. CASE Cardinality(Engines) = 1 /\ ~world.crashes
    BY <1>2, <1>3 DEF Remembered
<1>4. CASE Cardinality(Engines) = 1 /\ ~world.stale
    <2>1. /\ entry[e].tf \in Timeframes
          /\ Signal(e) = <<LengthOf[entry[e].tf], cursor[e][entry[e].tf]>>
          /\ cursor[e][entry[e].tf] \in Int
        BY NewRequest, SignalIsOne
    <2>2. DoneWith(e, orders[i].sig)
        BY <1>4 DEF Remembered
    <2>3. ~ Past(e, entry[e].tf, cursor[e][entry[e].tf])
        BY <2>1, EntryAssumption DEF Past, First
    <2>. QED
        BY <1>2, <2>1, <2>2, <2>3 DEF DoneWith
<1>. QED
    BY <1>1, <1>3, <1>4 DEF Guarded

(* A second request of a signal is never sent. *)
LEMMA AtMostOneInductive ==
    ASSUME TypeOK, Reserved, Untried, Remembered, AtMostOneOrder, [Next]_vars
    PROVE  AtMostOneOrder'
<1>1. ASSUME NEW e \in Engines, Engine(e) PROVE AtMostOneOrder'
    <2>1. CASE Send(e)
        BY <1>1, <2>1, NewRequest, SendsNewSignal, CursorFollows DEF AtMostOneOrder, Guarded
    <2>2. CASE orders' = orders
        BY <1>1, <2>2, CursorFollows DEF AtMostOneOrder
    <2>. QED
        BY <1>1, <2>1, <2>2, EngineOrders
<1>2. ASSUME NEW i \in DOMAIN orders, Broker(i) PROVE AtMostOneOrder'
    BY <1>2, BrokerFacts DEF clockVars, AtMostOneOrder
<1>3. CASE CandlesClose \/ RedisConnection \/ UNCHANGED vars
    BY <1>3 DEF CandlesClose, RedisConnection, vars, clockVars, AtMostOneOrder
<1>. QED
    BY <1>1, <1>2, <1>3 DEF Next

(* The invariant holds before the first engine starts. *)
LEMMA InitIInv == Init => IInv
<1>. SUFFICES ASSUME Init PROVE IInv
    OBVIOUS
<1>1. TypeOK
    BY EntryAssumption DEF Init, NoEntry, TypeOK, ClockOK, RedisOK, OrdersOK,
        PcOK, EntryOK, MemoryOK, StageOK
<1>2. NotAhead /\ Reserved /\ Untried /\ Remembered /\ AtMostOneOrder
    BY EntryAssumption DEF Init, NotAhead, First, Reserved, Untried, Remembered, AtMostOneOrder
<1>. QED
    BY <1>1, <1>2 DEF IInv

(* The invariant of the entry path. *)
THEOREM Invariance == Spec => []IInv
<1>1. IInv /\ [Next]_vars => IInv'
    BY TypeInductive, NotAheadInductive, ReservedInductive, UntriedInductive,
        RememberedInductive, AtMostOneInductive DEF IInv
<1>. QED
    BY InitIInv, <1>1, PTL DEF Spec

(* Types hold, and every engine holds what its stage needs. *)
THEOREM TypeCorrect == Spec => []TypeOK
<1>1. IInv => TypeOK
    BY DEF IInv
<1>. QED
    BY Invariance, <1>1, PTL

(* A closed candle leads to at most one order request: however many        *)
(* engines share Redis, however often they die and whatever bars they are  *)
(* shown; and for a single engine without Redis, however often it dies     *)
(* where the history always ends with the last closed bar, and whatever    *)
(* bars it is shown while it lives.                                        *)
THEOREM NeverTwoOrders == Spec => []AtMostOneOrder
<1>1. IInv => AtMostOneOrder
    BY DEF IInv
<1>. QED
    BY Invariance, <1>1, PTL

-----------------------------------------------------------------------------
(* The broker decides what was undecided; what it refused stays refused    *)
(* and what it accepted stays accepted.                                    *)
LEMMA BrokerDecides ==
    ASSUME TypeOK, NEW i \in DOMAIN orders, Broker(i)
    PROVE  /\ DOMAIN orders' = DOMAIN orders
           /\ \A j \in DOMAIN orders :
                  /\ orders'[j].dir = orders[j].dir
                  /\ j # i => orders'[j] = orders[j]
                  /\ orders'[j].status = "sent" => orders[j].status = "sent"
                  /\ orders[j].status # "sent" =>
                         (Accepted(orders'[j]) <=> Accepted(orders[j]))
                  /\ orders[j].status = "refused" => orders'[j].status = "refused"
                  /\ orders'[j].status = "open" => orders[j].status \in {"sent", "hidden", "open"}
                  /\ orders'[j].status = "hidden" => world.lag \/ orders[j].status = "hidden"
<1>1. PICK st \in Statuses :
          /\ orders' = [orders EXCEPT ![i].status = st]
          /\ \/ orders[i].status = "sent" /\ st \in {"open", "refused"}
             \/ orders[i].status \in {"sent", "open"} /\ st = "hidden" /\ world.lag
             \/ orders[i].status = "hidden" /\ st = "open"
             \/ orders[i].status = "open" /\ st = "closed"
    BY DEF Broker, Settle, Statuses
<1>2. orders \in Seq(Requests) /\ i \in 1..Len(orders)
    BY DEF TypeOK, OrdersOK, Requests
<1>3. orders[i] \in Requests
    BY RequestTyped DEF TypeOK
<1>. DEFINE r == [orders[i] EXCEPT !.status = st]
<1>4. r \in Requests /\ r.dir = orders[i].dir /\ r.status = st
    BY <1>3 DEF Requests
<1>5. orders' = [orders EXCEPT ![i] = r]
    BY <1>1
<1>. HIDE DEF r
<1>6. /\ DOMAIN orders' = DOMAIN orders
      /\ \A j \in DOMAIN orders : orders'[j] = IF j = i THEN r ELSE orders[j]
    BY <1>2, <1>4, <1>5, ExceptSeq
<1>. QED
    BY <1>1, <1>4, <1>6 DEF Accepted

(* A new request is the last one, undecided, and what was there stays.     *)
LEMMA SendAppends ==
    ASSUME TypeOK, NEW e \in Engines, Send(e)
    PROVE  /\ DOMAIN orders' = DOMAIN orders \cup {Len(orders) + 1}
           /\ Len(orders) + 1 \in Nat \ {0} /\ Len(orders) + 1 \notin DOMAIN orders
           /\ \A j \in DOMAIN orders : orders'[j] = orders[j]
           /\ orders'[Len(orders) + 1].sig = Signal(e)
           /\ orders'[Len(orders) + 1].status = "sent"
           /\ orders'[Len(orders) + 1].dir = entry[e].dir
    BY DEF Send, TypeOK, OrdersOK

(* An engine's step decides nothing that was sent before.                  *)
LEMMA EngineDecidesNothing ==
    ASSUME TypeOK, NEW e \in Engines, Engine(e)
    PROVE  /\ \A j \in DOMAIN orders : j \in DOMAIN orders' /\ orders'[j] = orders[j]
           /\ world' = world
<1>1. world' = world
    BY CursorFollows
<1>2. CASE Send(e)
    BY <1>1, <1>2, SendAppends
<1>3. CASE orders' = orders
    BY <1>1, <1>3
<1>. QED
    BY <1>2, <1>3, EngineOrders

(* An engine waits for an answer after its own request only.               *)
LEMMA OnlySent ==
    ASSUME TypeOK, NEW e \in Engines, Engine(e), pc'[e] = "placing"
    PROVE  Send(e)
<1>1. CASE Start(e)
    BY <1>1 DEF Start, Set, TypeOK, PcOK
<1>2. CASE Crash(e)
    BY <1>2 DEF Crash, Fresh, Set, TypeOK, PcOK
<1>3. CASE \E answer \in Polls : Poll(e, answer)
    BY <1>3 DEF Poll, Set, TypeOK, PcOK
<1>4. CASE \E tf \in Timeframes, b \in Int, d \in Directions : Evaluate(e, tf, b, d)
    BY <1>4 DEF Evaluate, IsNext, Set, TypeOK, PcOK
<1>5. CASE \E tf \in Timeframes, b \in Int : Skip(e, tf, b)
    BY <1>5 DEF Skip, IsNext, PcAfter, Set, TypeOK, PcOK
<1>6. CASE Drop(e)
    BY <1>6 DEF Drop, Done, PcAfter, Set, TypeOK, PcOK
<1>7. CASE Confirm(e)
    BY <1>7 DEF Confirm, Set, TypeOK, PcOK
<1>8. CASE SeenAtBroker(e)
    BY <1>8 DEF SeenAtBroker, Done, PcAfter, Set, TypeOK, PcOK
<1>10. CASE ClaimTaken(e)
    BY <1>10 DEF ClaimTaken, Done, PcAfter, Set, TypeOK, PcOK
<1>11. CASE ClaimFails(e)
    BY <1>11 DEF ClaimFails, Done, PcAfter, Set, TypeOK, PcOK
<1>12. CASE Placed(e)
    BY <1>12 DEF Placed, Done, PcAfter, Set, TypeOK, PcOK
<1>13. CASE NotPlaced(e)
    BY <1>13 DEF NotPlaced, Done, PcAfter, Set, TypeOK, PcOK
<1>. QED
    BY <1>1, <1>2, <1>3, <1>4, <1>5, <1>6, <1>7, <1>8, <1>10, <1>11, <1>12, <1>13, EngineSteps

-----------------------------------------------------------------------------
(* The entry path implements EntryProtocol.                                *)

(* A bar an engine works on has closed within the bound, and so has every  *)
(* signal that was claimed or sent.                                        *)
InBounds ==
    /\ now <= MaxTime
    /\ \A tf \in Timeframes : closed[tf] < 0 => closed[tf] = 0 - LengthOf[tf]
    /\ \A e \in Engines, tf \in Timeframes : First(e, tf) \/ cursor[e][tf] >= 0 - LengthOf[tf]
    /\ \A e \in Engines, tf \in Timeframes :
           tf \in queue[e] \/ tf = entry[e].tf => cursor[e][tf] >= 0
    /\ DOMAIN claim \subseteq BarSignals
    /\ \A i \in DOMAIN orders : orders[i].sig \in BarSignals

(* Engine e waits for the answer to a request of its own, under a claim    *)
(* without an outcome.                                                     *)
TicketOK(e) ==
    pc[e] = "placing" =>
        /\ orders[ticket[e]].sig = Signal(e)
        /\ Shared => Signal(e) \in DOMAIN claim /\ claim[Signal(e)] = "PENDING"

Tickets ==
    /\ \A e \in Engines : TicketOK(e)
    /\ \A e, f \in Engines :
           pc[e] = "placing" /\ pc[f] = "placing" /\ ticket[e] = ticket[f] => e = f

ProtocolInv == IInv /\ InBounds /\ Tickets

(* What an engine's step makes known outside the engine. *)
LEMMA WhatIsPublished ==
    ASSUME TypeOK, NEW e \in Engines, Engine(e)
    PROVE  \/ claim' = claim /\ orders' = orders
           \/ Send(e)
           \/ /\ pc[e] = "confirmed" /\ Shared /\ Free(Signal(e))
              /\ Claims(Signal(e), "PENDING") /\ orders' = orders
           \/ /\ pc[e] = "placing" /\ Shared /\ Accepted(orders[ticket[e]])
              /\ Claims(Signal(e), "SUCCESS") /\ orders' = orders
           \/ /\ pc[e] = "placing" /\ Shared
              /\ Claims(Signal(e), "FAILED") /\ orders' = orders
<1>1. CASE Start(e)
    BY <1>1 DEF Start, redisVars
<1>2. CASE Crash(e)
    BY <1>2 DEF Crash, redisVars
<1>3. CASE \E answer \in Polls : Poll(e, answer)
    BY <1>3 DEF Poll, redisVars
<1>4. CASE \E tf \in Timeframes, b \in Int, d \in Directions : Evaluate(e, tf, b, d)
    BY <1>4 DEF Evaluate, redisVars
<1>5. CASE \E tf \in Timeframes, b \in Int : Skip(e, tf, b)
    BY <1>5 DEF Skip, redisVars
<1>6. CASE Drop(e)
    BY <1>6 DEF Drop, redisVars
<1>7. CASE Confirm(e)
    BY <1>7 DEF Confirm, redisVars
<1>8. CASE SeenAtBroker(e)
    BY <1>8 DEF SeenAtBroker, redisVars
<1>9. CASE ClaimTaken(e)
    BY <1>9 DEF ClaimTaken, redisVars
<1>10. CASE ClaimFails(e)
    BY <1>10 DEF ClaimFails, redisVars
<1>11. CASE Placed(e)
    BY <1>11 DEF Placed, Mark
<1>12. CASE NotPlaced(e)
    BY <1>12 DEF NotPlaced, Mark
<1>. QED
    BY <1>1, <1>2, <1>3, <1>4, <1>5, <1>6, <1>7, <1>8, <1>9, <1>10, <1>11, <1>12, EngineSteps

(* An engine works on signals of the protocol only. *)
LEMMA SignalInBounds ==
    ASSUME TypeOK, NotAhead, InBounds, NEW e \in Engines, entry[e] # NoEntry
    PROVE  Signal(e) \in BarSignals
<1>. DEFINE tf == entry[e].tf
<1>1. tf \in Timeframes /\ cursor[e][tf] \in Int /\ Signal(e) = <<LengthOf[tf], cursor[e][tf]>>
    BY SignalIsOne
<1>2. cursor[e][tf] >= 0
    BY <1>1 DEF InBounds
<1>3. cursor[e][tf] <= closed[tf]
    BY <1>1, EntryAssumption DEF NotAhead, First
<1>4. closed[tf] \in Int /\ closed[tf] <= now - LengthOf[tf] /\ now \in Nat /\ now <= MaxTime
    BY <1>1 DEF NotAhead, InBounds, TypeOK, ClockOK
<1>5. LengthOf[tf] \in Nat /\ MaxTime \in Nat
    BY <1>1, EntryAssumption
<1>. HIDE DEF tf
<1>6. cursor[e][tf] \in 0..MaxTime
    BY <1>1, <1>2, <1>3, <1>4, <1>5
<1>. QED
    BY <1>1, <1>6 DEF BarSignals

(* A number below its divisor is its own remainder. *)
LEMMA FirstMultiple ==
    ASSUME NEW n \in Nat, NEW d \in Nat, 0 < n, 0 < d, n % d = 0
    PROVE  d <= n
    OBVIOUS

(* Only closed bars within the bound are worked on. *)
LEMMA InBoundsInductive ==
    ASSUME TypeOK, NotAhead, InBounds, [Next]_vars
    PROVE  InBounds'
<1>0. ASSUME NEW tf \in Timeframes PROVE closed[tf] \in Int /\ closed[tf] >= 0 - LengthOf[tf]
    BY EntryAssumption DEF InBounds, TypeOK, ClockOK
<1>1. ASSUME NEW e \in Engines, Engine(e) PROVE InBounds'
    <2>1. now' = now /\ closed' = closed
        BY <1>1, CursorFollows
    <2>2. ASSUME NEW f \in Engines, NEW tf \in Timeframes
          PROVE  First(f, tf)' \/ cursor'[f][tf] >= 0 - LengthOf[tf]
        <3>1. CASE f = e
            BY <1>0, <1>1, <3>1, CursorFollows, ReportedFacts DEF InBounds, First
        <3>2. CASE f # e
            BY <1>1, <3>2, OthersUntouched DEF Untouched, InBounds, First
        <3>. QED
            BY <3>1, <3>2
    <2>3. ASSUME NEW f \in Engines, NEW tf \in Timeframes,
                 tf \in queue'[f] \/ tf = entry'[f].tf
          PROVE  cursor'[f][tf] >= 0
        <3>1. CASE f # e
            BY <1>1, <2>3, <3>1, OthersUntouched DEF Untouched, InBounds
        <3>2. CASE f = e /\ NoNewBar(e)
            <4>1. tf \in queue[e] \/ tf = entry[e].tf
                BY <2>3, <3>2 DEF NoNewBar
            <4>2. cursor[e][tf] >= 0 /\ cursor[e][tf] \in Int
                BY <4>1 DEF InBounds, TypeOK, StageOK
            <4>. QED
                BY <3>2, <4>2 DEF NoNewBar
        <3>3. CASE f = e /\ Crash(e)
            BY <2>3, <3>3, EntryAssumption DEF Crash, Fresh, Set, NoEntry, TypeOK, MemoryOK, EntryOK
        <3>4. CASE f = e /\ \E answer \in Polls : Poll(e, answer)
            <4>1. PICK answer \in Polls : Poll(e, answer)
                BY <3>4
            <4>2. entry' = entry /\ entry[e] = NoEntry /\ tf # NoEntry.tf /\ PollMoves(e)
                BY <4>1, PollFacts, EntryAssumption DEF NoEntry
            <4>3. /\ cursor[e][tf] \in Int /\ cursor'[e][tf] \in Reported(tf)
                  /\ cursor[e][tf] < cursor'[e][tf]
                BY <2>3, <3>4, <4>2 DEF PollMoves
            <4>4. cursor[e][tf] >= 0 - LengthOf[tf]
                BY <4>3, EntryAssumption DEF InBounds, First
            <4>5. LengthOf[tf] \in Nat /\ (closed[tf] < 0 => closed[tf] = 0 - LengthOf[tf])
                BY EntryAssumption DEF InBounds
            <4>6. /\ cursor'[e][tf] \in Int
                  /\ cursor'[e][tf] = closed[tf] \/ cursor'[e][tf] = 0 - LengthOf[tf] \/ cursor'[e][tf] >= 0
                BY <4>3, ReportedFacts
            <4>. QED
                BY <1>0, <3>4, <4>3, <4>4, <4>5, <4>6
        <3>. QED
            BY <1>1, <3>1, <3>2, <3>3, <3>4, MostStepsBringNoBar
    <2>4. DOMAIN claim' \subseteq BarSignals
        <3>1. pc[e] \in {"confirmed", "placing"} => Signal(e) \in BarSignals
            BY SignalInBounds DEF TypeOK, StageOK
        <3>2. CASE Send(e)
            BY <3>1, <3>2 DEF Send, TakesClaim, Claims, InBounds
        <3>3. ASSUME NEW status, Claims(Signal(e), status)
              PROVE  DOMAIN claim' = DOMAIN claim \cup {Signal(e)}
            BY <3>3 DEF Claims
        <3>4. DOMAIN claim \subseteq BarSignals
            BY DEF InBounds
        <3>. QED
            BY <1>1, <3>1, <3>2, <3>3, <3>4, WhatIsPublished
    <2>5. \A i \in DOMAIN orders' : orders'[i].sig \in BarSignals
        <3>1. CASE Send(e)
            BY <3>1, NewRequest, SignalInBounds DEF InBounds
        <3>2. CASE orders' = orders
            BY <3>2 DEF InBounds
        <3>. QED
            BY <1>1, <3>1, <3>2, EngineOrders
    <2>. QED
        BY <2>1, <2>2, <2>3, <2>4, <2>5 DEF InBounds
<1>2. ASSUME NEW i \in DOMAIN orders, Broker(i) PROVE InBounds'
    BY <1>2, BrokerFacts DEF clockVars, redisVars, memory, InBounds, First
<1>3. CASE CandlesClose
    <2>1. now' \in Nat /\ now' <= MaxTime /\ 0 < now'
        BY <1>3, EntryAssumption DEF CandlesClose, TypeOK, ClockOK
    <2>2. ASSUME NEW tf \in Timeframes PROVE closed'[tf] < 0 => closed'[tf] = 0 - LengthOf[tf]
        <3>1. LengthOf[tf] \in Nat /\ 0 < LengthOf[tf]
            BY EntryAssumption
        <3>2. CASE now' % LengthOf[tf] = 0
            <4>1. LengthOf[tf] <= now'
                BY <2>1, <3>1, <3>2, FirstMultiple
            <4>. QED
                BY <1>3, <2>1, <3>1, <3>2, <4>1 DEF CandlesClose
        <3>3. CASE now' % LengthOf[tf] # 0
            BY <1>3, <3>3 DEF CandlesClose, InBounds
        <3>. QED
            BY <3>2, <3>3
    <2>. QED
        BY <1>3, <2>1, <2>2 DEF CandlesClose, redisVars, memory, InBounds, First
<1>4. CASE RedisConnection
    BY <1>4 DEF RedisConnection, clockVars, memory, InBounds, First
<1>5. CASE UNCHANGED vars
    BY <1>5 DEF vars, clockVars, redisVars, memory, InBounds, First
<1>. QED
    BY <1>1, <1>2, <1>3, <1>4, <1>5 DEF Next

(* Two engines wait for answers about different signals. *)
LEMMA OwnSignal ==
    ASSUME TypeOK, AtMostOneOrder, Shared, Tickets, NEW e \in Engines, NEW f \in Engines,
           pc[e] = "placing", pc[f] = "placing", Signal(e) = Signal(f)
    PROVE  e = f
<1>1. ticket[e] \in DOMAIN orders /\ ticket[f] \in DOMAIN orders
    BY DEF TypeOK, StageOK
<1>2. orders[ticket[e]].sig = orders[ticket[f]].sig
    BY DEF Tickets, TicketOK
<1>. QED
    BY <1>1, <1>2 DEF AtMostOneOrder, Tickets

(* A claim stays without an outcome until the answer is in. *)
LEMMA TicketsInductive ==
    ASSUME TypeOK, AtMostOneOrder, Tickets, [Next]_vars
    PROVE  Tickets'
<1>1. ASSUME NEW e \in Engines, Engine(e) PROVE Tickets'
    <2>1. ASSUME pc'[e] = "placing"
          PROVE  /\ Signal(e)' = Signal(e) /\ ticket'[e] \notin DOMAIN orders
                 /\ orders'[ticket'[e]].sig = Signal(e)
                 /\ Shared => Claims(Signal(e), "PENDING")
        <3>1. Send(e)
            BY <1>1, <2>1, OnlySent
        <3>2. ticket'[e] = Len(orders) + 1 /\ Signal(e)' = Signal(e)
            BY <3>1 DEF Send, Set, Signal, SignalOf, TypeOK, MemoryOK
        <3>3. Shared => Claims(Signal(e), "PENDING")
            BY <3>1 DEF Send, TakesClaim
        <3>4. orders'[Len(orders) + 1].sig = Signal(e) /\ Len(orders) + 1 \notin DOMAIN orders
            BY <3>1, SendAppends
        <3>. QED
            BY <3>2, <3>3, <3>4
    <2>2. ASSUME NEW f \in Engines, f # e, pc'[f] = "placing"
          PROVE  /\ pc[f] = "placing" /\ ticket'[f] = ticket[f] /\ ticket[f] \in DOMAIN orders
                 /\ Signal(f)' = Signal(f)
        BY <1>1, <2>2, OthersUntouched DEF Untouched, Signal, SignalOf, TypeOK, StageOK
    <2>3. ASSUME NEW f \in Engines, NEW g \in Engines,
                 pc'[f] = "placing", pc'[g] = "placing", ticket'[f] = ticket'[g]
          PROVE  f = g
        BY <2>1, <2>2, <2>3 DEF Tickets
    <2>4. TicketOK(e)'
        BY <2>1 DEF TicketOK, Claims
    <2>5. ASSUME NEW f \in Engines, f # e, pc'[f] = "placing"
          PROVE  TicketOK(f)'
        <3>1. /\ pc[f] = "placing" /\ ticket'[f] = ticket[f] /\ Signal(f)' = Signal(f)
              /\ orders'[ticket[f]].sig = orders[ticket[f]].sig
            BY <1>1, <2>2, <2>5, EngineOrders DEF OrdersKept
        <3>2. orders[ticket[f]].sig = Signal(f)
            BY <3>1 DEF Tickets, TicketOK
        <3>3. ASSUME Shared PROVE Signal(f) \in DOMAIN claim' /\ claim'[Signal(f)] = "PENDING"
            <4>1. Signal(f) \in DOMAIN claim /\ claim[Signal(f)] = "PENDING"
                BY <3>1, <3>3 DEF Tickets, TicketOK
            <4>2. pc[e] = "placing" => Signal(e) # Signal(f)
                BY <2>5, <3>1, <3>3, OwnSignal
            <4>3. Free(Signal(e)) => Signal(e) # Signal(f)
                BY <4>1 DEF Free
            <4>4. ASSUME NEW status, Claims(Signal(e), status), Signal(e) # Signal(f)
                  PROVE  Signal(f) \in DOMAIN claim' /\ claim'[Signal(f)] = "PENDING"
                BY <4>1, <4>4 DEF Claims
            <4>5. Send(e) => Free(Signal(e)) /\ Claims(Signal(e), "PENDING")
                BY <3>3 DEF Send, TakesClaim
            <4>. QED
                BY <1>1, <4>1, <4>2, <4>3, <4>4, <4>5, WhatIsPublished
        <3>. QED
            BY <3>1, <3>2, <3>3 DEF TicketOK
    <2>. QED
        BY <2>3, <2>4, <2>5 DEF Tickets, TicketOK
<1>2. ASSUME NEW i \in DOMAIN orders, Broker(i) PROVE Tickets'
    <2>1. UNCHANGED <<claim, pc, ticket, entry, cursor>>
        BY <1>2, BrokerFacts DEF redisVars, memory
    <2>2. \A e \in Engines : pc[e] = "placing" =>
              orders'[ticket[e]].sig = orders[ticket[e]].sig
        BY <1>2, BrokerFacts DEF TypeOK, StageOK
    <2>3. \A e \in Engines : Signal(e)' = Signal(e)
        BY <2>1 DEF Signal, SignalOf
    <2>. QED
        BY <2>1, <2>2, <2>3 DEF Tickets, TicketOK
<1>3. CASE CandlesClose \/ RedisConnection \/ UNCHANGED vars
    BY <1>3 DEF CandlesClose, RedisConnection, vars, redisVars, memory, Tickets, TicketOK,
        Signal, SignalOf
<1>. QED
    BY <1>1, <1>2, <1>3 DEF Next

(* The invariant the refinement needs. *)
LEMMA ProtocolInvariance == Spec => []ProtocolInv
<1>1. Init => InBounds /\ Tickets
    <2>. SUFFICES ASSUME Init PROVE InBounds /\ Tickets
        OBVIOUS
    <2>1. InBounds
        BY EntryAssumption DEF Init, InBounds, First, NoEntry
    <2>2. Tickets
        BY DEF Init, Tickets, TicketOK
    <2>. QED
        BY <2>1, <2>2
<1>2. IInv /\ InBounds /\ Tickets /\ [Next]_vars => InBounds' /\ Tickets'
    BY InBoundsInductive, TicketsInductive DEF IInv
<1>. QED
    BY Invariance, <1>1, <1>2, PTL DEF Spec, ProtocolInv

(* A signal that was sent has the outcome of its one request.              *)
Outcome(o) == IF Accepted(o) THEN "accepted" ELSE o.status

OneOrderEach == \A i, j \in DOMAIN orders : orders[i].sig = orders[j].sig => i = j

(* Before a step. *)
LEMMA OrderIs ==
    ASSUME OneOrderEach, NEW s \in BarSignals
    PROVE  /\ (\A i \in DOMAIN orders : orders[i].sig # s) => OrderOf[s] = "none"
           /\ \A i \in DOMAIN orders : orders[i].sig = s => OrderOf[s] = Outcome(orders[i])
<1>1. (\A i \in DOMAIN orders : orders[i].sig # s) => OrderOf[s] = "none"
    BY DEF OrderOf
<1>2. ASSUME NEW i \in DOMAIN orders, orders[i].sig = s
      PROVE  OrderOf[s] = Outcome(orders[i])
    <2>1. (CHOOSE j \in DOMAIN orders : orders[j].sig = s) = i
        BY <1>2 DEF OneOrderEach
    <2>. QED
        BY <1>2, <2>1 DEF OrderOf, Outcome
<1>. QED
    BY <1>1, <1>2

(* The same after a step. *)
LEMMA OrderIsNext ==
    ASSUME OneOrderEach', NEW s \in BarSignals
    PROVE  /\ (\A i \in DOMAIN orders' : orders'[i].sig # s) => OrderOf'[s] = "none"
           /\ \A i \in DOMAIN orders' : orders'[i].sig = s => OrderOf'[s] = Outcome(orders'[i])
<1>1. (\A i \in DOMAIN orders' : orders'[i].sig # s) => OrderOf'[s] = "none"
    BY DEF OrderOf
<1>2. ASSUME NEW i \in DOMAIN orders', orders'[i].sig = s
      PROVE  OrderOf'[s] = Outcome(orders'[i])
    <2>1. (CHOOSE j \in DOMAIN orders' : orders'[j].sig = s) = i
        BY <1>2 DEF OneOrderEach
    <2>. QED
        BY <1>2, <2>1 DEF OrderOf, Outcome, Accepted
<1>. QED
    BY <1>1, <1>2

(* What the protocol sees of the claims and the requests. *)
LEMMA ProtocolView ==
    /\ OrderOf = [s \in BarSignals |-> OrderOf[s]]
    /\ OrderOf' = [s \in BarSignals |-> OrderOf'[s]]
    /\ ClaimOf = [s \in BarSignals |-> ClaimOf[s]]
    /\ ClaimOf' = [s \in BarSignals |-> ClaimOf'[s]]
    /\ \A s \in BarSignals : ClaimOf[s] = IF Free(s) THEN "free" ELSE claim[s]
    /\ \A s \in BarSignals : ClaimOf'[s] = IF Free(s)' THEN "free" ELSE claim'[s]
    BY DEF OrderOf, ClaimOf

(* The broker's answer is the protocol's decision, and what else the       *)
(* broker does it does not see.                                            *)
LEMMA BrokerFollows ==
    ASSUME TypeOK, OneOrderEach, InBounds, NEW i \in DOMAIN orders, Broker(i)
    PROVE  [Protocol!Next]_(Protocol!vars)
<1>. DEFINE s == orders[i].sig
<1>1. s \in BarSignals
    BY DEF InBounds
<1>2. ClaimOf' = ClaimOf
    BY DEF Broker, Settle, redisVars, ClaimOf, Free
<1>3. /\ DOMAIN orders' = DOMAIN orders
      /\ \A j \in DOMAIN orders : orders'[j].sig = orders[j].sig
      /\ \A j \in DOMAIN orders : j # i => orders'[j] = orders[j]
    BY BrokerFacts, BrokerDecides
<1>4. OneOrderEach'
    BY <1>3 DEF OneOrderEach
<1>5. ASSUME NEW t \in BarSignals, t # s PROVE OrderOf'[t] = OrderOf[t]
    <2>1. CASE \A j \in DOMAIN orders : orders[j].sig # t
        BY <1>3, <1>4, <2>1, OrderIs, OrderIsNext
    <2>2. ASSUME NEW j \in DOMAIN orders, orders[j].sig = t
          PROVE  OrderOf'[t] = OrderOf[t]
        BY <1>3, <1>4, <1>5, <2>2, OrderIs, OrderIsNext
    <2>. QED
        BY <2>1, <2>2
<1>6. OrderOf[s] = Outcome(orders[i]) /\ OrderOf'[s] = Outcome(orders'[i])
    BY <1>1, <1>3, <1>4, OrderIs, OrderIsNext
<1>7. orders[i].status \in Statuses /\ orders'[i].status \in Statuses
    <2>1. orders \in Seq(Requests) /\ orders' \in Seq(Requests)
        BY BrokerFacts DEF TypeOK, OrdersOK, Requests
    <2>2. orders[i] \in Requests /\ orders'[i] \in Requests
        BY <1>3, <2>1
    <2>. QED
        BY <2>2 DEF Requests
<1>8. OrderOf' = [OrderOf EXCEPT ![s] = Outcome(orders'[i])]
    BY <1>5, <1>6, ProtocolView
<1>. HIDE DEF s
<1>9. CASE orders[i].status = "sent"
    <2>1. OrderOf[s] = "sent"
        BY <1>6, <1>9 DEF Outcome, Accepted
    <2>2. CASE OrderOf'[s] = "sent"
        BY <1>2, <1>6, <1>8, <2>1, <2>2, ProtocolView DEF Protocol!vars
    <2>3. CASE OrderOf'[s] # "sent"
        <3>1. Outcome(orders'[i]) \in {"accepted", "refused"}
            BY <1>6, <1>7, <2>3 DEF Outcome, Accepted, Statuses
        <3>2. Protocol!Decide(s)
            BY <1>2, <1>8, <2>1, <3>1 DEF Protocol!Decide
        <3>. QED
            BY <1>1, <3>2 DEF Protocol!Next
    <2>. QED
        BY <2>2, <2>3
<1>10. CASE orders[i].status # "sent"
    <2>1. Outcome(orders'[i]) = Outcome(orders[i])
        BY <1>7, <1>10, BrokerDecides DEF Outcome, Accepted, Statuses
    <2>2. OrderOf' = OrderOf
        BY <1>6, <1>8, <2>1, ProtocolView
    <2>. QED
        BY <1>2, <2>2 DEF Protocol!vars
<1>. QED
    BY <1>9, <1>10

(* A claim that is written is all the protocol sees of Redis. *)
LEMMA ClaimWritten ==
    ASSUME NEW s \in BarSignals, NEW status, Claims(s, status)
    PROVE  ClaimOf' = [ClaimOf EXCEPT ![s] = status]
<1>1. \A t \in BarSignals : ClaimOf'[t] = IF t = s THEN status ELSE ClaimOf[t]
    BY ProtocolView DEF Claims, Free
<1>. QED
    BY <1>1, ProtocolView

(* An engine's claim, with the request behind it or without, reserves the  *)
(* signal; the outcome it marks is the one it was told.                    *)
LEMMA EngineFollows ==
    ASSUME TypeOK, Shared, NotAhead, Reserved, Untried, Remembered, OneOrderEach, InBounds,
           Tickets, NEW e \in Engines, Engine(e)
    PROVE  [Protocol!Next]_(Protocol!vars)
<1>. DEFINE s == Signal(e)
<1>1. pc[e] \in {"confirmed", "placing"} => s \in BarSignals
    BY SignalInBounds DEF TypeOK, StageOK
<1>2. orders' = orders => OrderOf' = OrderOf
    BY DEF OrderOf, Accepted
<1>3. Free(s) => \A i \in DOMAIN orders : orders[i].sig # s
    BY DEF Reserved, Free
<1>4. pc[e] = "confirmed" /\ Free(s) => ClaimOf[s] = "free" /\ OrderOf[s] = "none"
    BY <1>1, <1>3, OrderIs, ProtocolView
<1>5. pc[e] = "placing" => ClaimOf[s] = "PENDING" /\ OrderOf[s] = Outcome(orders[ticket[e]])
    <2>1. ASSUME pc[e] = "placing"
          PROVE  /\ ticket[e] \in DOMAIN orders /\ orders[ticket[e]].sig = s
                 /\ s \in DOMAIN claim /\ claim[s] = "PENDING" /\ s \in BarSignals
        BY <1>1, <2>1 DEF Tickets, TicketOK, TypeOK, StageOK
    <2>. HIDE DEF s
    <2>2. ASSUME pc[e] = "placing" PROVE ClaimOf[s] = "PENDING"
        BY <2>1, <2>2, ProtocolView DEF Free
    <2>3. ASSUME pc[e] = "placing" PROVE OrderOf[s] = Outcome(orders[ticket[e]])
        BY <2>1, <2>3, OrderIs
    <2>. QED
        BY <2>2, <2>3
<1>6. CASE claim' = claim /\ orders' = orders
    <2>1. ClaimOf' = ClaimOf
        BY <1>6 DEF ClaimOf, Free
    <2>. QED
        BY <1>2, <1>6, <2>1 DEF Protocol!vars
<1>7. CASE Send(e)
    <2>1. pc[e] = "confirmed" /\ Free(s) /\ Claims(s, "PENDING")
        BY <1>7 DEF Send, TakesClaim
    <2>2. ClaimOf' = [ClaimOf EXCEPT ![s] = "PENDING"]
        BY <1>1, <2>1, ClaimWritten
    <2>. DEFINE new == Len(orders) + 1
    <2>3. /\ DOMAIN orders' = DOMAIN orders \cup {new} /\ new \notin DOMAIN orders
          /\ \A j \in DOMAIN orders : orders'[j] = orders[j]
          /\ orders'[new].sig = s /\ orders'[new].status = "sent"
        BY <1>7, SendAppends
    <2>. HIDE DEF s, new
    <2>4. OneOrderEach'
        BY <1>3, <2>1, <2>3 DEF OneOrderEach
    <2>5. OrderOf'[s] = "sent"
        BY <1>1, <2>1, <2>3, <2>4, OrderIsNext DEF Outcome, Accepted
    <2>6. ASSUME NEW t \in BarSignals, t # s PROVE OrderOf'[t] = OrderOf[t]
        <3>1. CASE \A j \in DOMAIN orders : orders[j].sig # t
            BY <2>3, <2>4, <2>6, <3>1, OrderIs, OrderIsNext
        <3>2. ASSUME NEW j \in DOMAIN orders, orders[j].sig = t
              PROVE  OrderOf'[t] = OrderOf[t]
            BY <2>3, <2>4, <2>6, <3>2, OrderIs, OrderIsNext
        <3>. QED
            BY <3>1, <3>2
    <2>7. OrderOf' = [OrderOf EXCEPT ![s] = "sent"]
        BY <2>5, <2>6, ProtocolView
    <2>8. Protocol!Reserve(s)
        BY <1>4, <2>1, <2>2, <2>7 DEF Protocol!Reserve
    <2>. QED
        BY <1>1, <2>1, <2>8 DEF Protocol!Next
<1>8. CASE pc[e] = "confirmed" /\ Free(s) /\ Claims(s, "PENDING") /\ orders' = orders
    <2>1. ClaimOf' = [ClaimOf EXCEPT ![s] = "PENDING"]
        BY <1>1, <1>8, ClaimWritten
    <2>2. Protocol!Reserve(s)
        BY <1>2, <1>4, <1>8, <2>1 DEF Protocol!Reserve
    <2>. QED
        BY <1>1, <1>8, <2>2 DEF Protocol!Next
<1>9. CASE /\ pc[e] = "placing" /\ Accepted(orders[ticket[e]])
           /\ Claims(s, "SUCCESS") /\ orders' = orders
    <2>1. ClaimOf' = [ClaimOf EXCEPT ![s] = "SUCCESS"]
        BY <1>1, <1>9, ClaimWritten
    <2>2. OrderOf[s] = "accepted"
        BY <1>5, <1>9 DEF Outcome
    <2>3. Protocol!Record(s)
        BY <1>2, <1>5, <1>9, <2>1, <2>2 DEF Protocol!Record
    <2>. QED
        BY <1>1, <1>9, <2>3 DEF Protocol!Next
<1>10. CASE pc[e] = "placing" /\ Claims(s, "FAILED") /\ orders' = orders
    <2>1. ClaimOf' = [ClaimOf EXCEPT ![s] = "FAILED"]
        BY <1>1, <1>10, ClaimWritten
    <2>2. ticket[e] \in DOMAIN orders
        BY <1>10 DEF TypeOK, StageOK
    <2>3. orders[ticket[e]].status \in Statuses
        BY <2>2, RequestTyped DEF TypeOK, Requests
    <2>4. OrderOf[s] # "none"
        BY <1>5, <1>10, <2>3 DEF Outcome, Statuses
    <2>5. Protocol!Record(s)
        BY <1>2, <1>5, <1>10, <2>1, <2>4 DEF Protocol!Record
    <2>. QED
        BY <1>1, <1>10, <2>5 DEF Protocol!Next
<1>. QED
    BY <1>6, <1>7, <1>8, <1>9, <1>10, WhatIsPublished

(* Whatever engines share a Redis, and whatever is lost on the way, what   *)
(* becomes of a signal is what EntryProtocol promises: one reservation for *)
(* good, one request at most, one decision, and an outcome that is final   *)
(* and, where it says SUCCESS, true.                                       *)
THEOREM ImplementsProtocol == ASSUME Shared PROVE Spec => FollowsProtocol
<1>1. Init => Protocol!Init
    BY DEF Init, Protocol!Init, ClaimOf, OrderOf, Free
<1>2. ASSUME ProtocolInv, [Next]_vars PROVE [Protocol!Next]_(Protocol!vars)
    <2>1. OneOrderEach
        BY <1>2 DEF ProtocolInv, IInv, AtMostOneOrder, OneOrderEach
    <2>2. ASSUME NEW e \in Engines, Engine(e) PROVE [Protocol!Next]_(Protocol!vars)
        BY <1>2, <2>1, <2>2, EngineFollows DEF ProtocolInv, IInv
    <2>3. ASSUME NEW i \in DOMAIN orders, Broker(i) PROVE [Protocol!Next]_(Protocol!vars)
        BY <1>2, <2>1, <2>3, BrokerFollows DEF ProtocolInv, IInv
    <2>4. CASE CandlesClose \/ RedisConnection \/ UNCHANGED vars
        <3>1. UNCHANGED <<claim, orders>>
            BY <2>4 DEF CandlesClose, RedisConnection, vars, redisVars
        <3>2. ClaimOf' = ClaimOf
            BY <3>1 DEF ClaimOf, Free
        <3>3. OrderOf' = OrderOf
            BY <3>1 DEF OrderOf, Accepted
        <3>. QED
            BY <3>2, <3>3 DEF Protocol!vars
    <2>. QED
        BY <1>2, <2>2, <2>3, <2>4 DEF Next
<1>. QED
    BY ProtocolInvariance, <1>1, <1>2, PTL DEF Spec, FollowsProtocol, Protocol!Spec

-----------------------------------------------------------------------------
(* The limits of the entry path, where the bridge lets it keep them.       *)

(* Where an entry is under way. *)
Entering(e) == pc[e] \in {"checked", "confirmed", "placing"}

(* The request an engine waits for; it waits for none elsewhere. *)
Awaited(e) == {i \in DOMAIN orders : pc[e] = "placing" /\ i = ticket[e]}

(* The flag of the tick says whether a request of it was accepted, and     *)
(* with the flag up no other entry begins.                                 *)
TickOK(e) ==
    /\ pc[e] = "placing" => ticket[e] \in fired[e]
    /\ ~opened[e] => \A i \in fired[e] \ Awaited(e) : orders[i].status = "refused"
    /\ opened[e] => /\ ~Entering(e)
                    /\ \A i \in fired[e] : orders[i].status # "sent"
                    /\ \A i, j \in fired[e] : Accepted(orders[i]) /\ Accepted(orders[j]) => i = j

Ticks == ~world.ambiguous => \A e \in Engines : TickOK(e)

(* One engine, which gets its answers and lives, over a faithful bridge. *)
Calm == ~world.ambiguous /\ ~world.lag /\ ~world.crashes /\ Cardinality(Engines) = 1

(* What the broker holds besides the request engine e waits for. *)
Others(e) == Visible \ {ticket[e]}

(* Only the awaited request is undecided, and nothing open is hidden.      *)
NothingUnseen(e) ==
    /\ pc[e] # "placing" => ticket[e] = 0
    /\ \A i \in DOMAIN orders : orders[i].status # "hidden"
    /\ \A i \in DOMAIN orders : orders[i].status = "sent" => i \in Awaited(e)

(* From the position check until the answer there is room for one more.    *)
RoomKept(e) ==
    /\ Cardinality(Visible) <= Cap
    /\ pc[e] \in {"confirmed", "placing"} => Cardinality(Others(e)) < Cap

(* From the position check until the answer no position is against the     *)
(* entry.                                                                  *)
SideKept(e) ==
    /\ \A i, j \in Visible : orders[i].dir = orders[j].dir
    /\ pc[e] \in {"confirmed", "placing"} =>
           \A i \in Others(e) : orders[i].dir = entry[e].dir
    /\ pc[e] = "placing" => orders[ticket[e]].dir = entry[e].dir

Limits == Calm => \A e \in Engines : NothingUnseen(e) /\ RoomKept(e) /\ SideKept(e)

LimitInv == IInv /\ Ticks /\ Limits

-----------------------------------------------------------------------------
(* What an engine does keeps the flag of its tick true to its requests.    *)
LEMMA OwnTick ==
    ASSUME TypeOK, NEW e \in Engines, Engine(e), ~world.ambiguous, TickOK(e)
    PROVE  TickOK(e)'
<1>1. CASE Start(e)
    BY <1>1 DEF Start, TickOK, Entering, Awaited, Set, memory, TypeOK, PcOK, OrdersOK, MemoryOK, StageOK
<1>2. CASE Crash(e)
    BY <1>2 DEF Crash, Fresh, TickOK, Entering, Awaited, Set, memory, TypeOK, PcOK, OrdersOK, MemoryOK, StageOK
<1>3. CASE \E answer \in Polls : Poll(e, answer)
    BY <1>3 DEF Poll, TickOK, Entering, Awaited, Set, memory, TypeOK, PcOK, OrdersOK, MemoryOK, StageOK
<1>4. CASE \E tf \in Timeframes, b \in Int, d \in Directions : Evaluate(e, tf, b, d)
    BY <1>4 DEF Evaluate, IsNext, TickOK, Entering, Awaited, Set, memory, TypeOK, PcOK, OrdersOK, MemoryOK, StageOK
<1>5. CASE \E tf \in Timeframes, b \in Int : Skip(e, tf, b)
    BY <1>5 DEF Skip, IsNext, PcAfter, TickOK, Entering, Awaited, Set, memory, TypeOK, PcOK, OrdersOK, MemoryOK, StageOK
<1>6. CASE Drop(e)
    BY <1>6 DEF Drop, Done, PcAfter, TickOK, Entering, Awaited, Set, memory, TypeOK, PcOK, OrdersOK, MemoryOK, StageOK
<1>7. CASE Confirm(e)
    BY <1>7 DEF Confirm, TickOK, Entering, Awaited, Set, memory, TypeOK, PcOK, OrdersOK, MemoryOK, StageOK
<1>8. CASE SeenAtBroker(e)
    BY <1>8 DEF SeenAtBroker, Done, PcAfter, TickOK, Entering, Awaited, Set, memory, TypeOK, PcOK, OrdersOK, MemoryOK, StageOK
<1>9. CASE Send(e)
    <2>. DEFINE new == Len(orders) + 1
    <2>1. /\ pc[e] = "confirmed" /\ pc'[e] = "placing" /\ ticket'[e] = new
          /\ fired'[e] = fired[e] \cup {new} /\ opened'[e] = opened[e]
        BY <1>9 DEF Send, Set, TypeOK, PcOK, MemoryOK
    <2>2. ~opened[e] /\ \A i \in fired[e] : orders[i].status = "refused"
        BY <2>1 DEF TickOK, Entering, Awaited
    <2>3. fired[e] \subseteq DOMAIN orders
        BY DEF TypeOK, StageOK
    <2>4. \A i \in fired[e] : orders'[i].status = "refused"
        BY <1>9, <2>2, <2>3, SendAppends
    <2>5. Awaited(e)' = {new}
        BY <1>9, <2>1, SendAppends DEF Awaited
    <2>. HIDE DEF new
    <2>. QED
        BY <2>1, <2>2, <2>4, <2>5 DEF TickOK
<1>10. CASE ClaimTaken(e)
    BY <1>10 DEF ClaimTaken, Done, PcAfter, TickOK, Entering, Awaited, Set, memory, TypeOK, PcOK, OrdersOK, MemoryOK, StageOK
<1>11. CASE ClaimFails(e)
    BY <1>11 DEF ClaimFails, Done, PcAfter, TickOK, Entering, Awaited, Set, memory, TypeOK, PcOK, OrdersOK, MemoryOK, StageOK
<1>12. CASE Placed(e)
    BY <1>12 DEF Placed, Done, PcAfter, TickOK, Entering, Awaited, Set, memory, TypeOK, PcOK, OrdersOK, MemoryOK, StageOK, Accepted
<1>13. CASE NotPlaced(e)
    BY <1>13 DEF NotPlaced, Done, PcAfter, TickOK, Entering, Awaited, Set, memory, TypeOK, PcOK, OrdersOK, MemoryOK, StageOK, Accepted
<1>. QED
    BY <1>1, <1>2, <1>3, <1>4, <1>5, <1>6, <1>7, <1>8, <1>9, <1>10, <1>11, <1>12, <1>13, EngineSteps

(* No step of an engine or of the broker belies the flag of a tick. *)
LEMMA TicksInductive ==
    ASSUME TypeOK, Ticks, [Next]_vars
    PROVE  Ticks'
<1>1. ASSUME NEW e \in Engines, Engine(e) PROVE Ticks'
    <2>. SUFFICES ASSUME ~world.ambiguous, NEW f \in Engines PROVE TickOK(f)'
        BY <1>1, EngineDecidesNothing DEF Ticks
    <2>1. TickOK(e) /\ TickOK(f)
        BY <1>1 DEF Ticks
    <2>2. CASE f = e
        BY <1>1, <2>1, <2>2, OwnTick
    <2>3. CASE f # e
        <3>1. Untouched(f)
            BY <1>1, <2>3, OthersUntouched
        <3>2. fired[f] \subseteq DOMAIN orders
            BY DEF TypeOK, StageOK
        <3>3. \A i \in fired[f] : orders'[i] = orders[i] /\ i \in DOMAIN orders'
            BY <1>1, <3>2, EngineDecidesNothing
        <3>4. Awaited(f)' \cap fired[f] = Awaited(f) \cap fired[f]
            BY <3>1, <3>2, <3>3 DEF Awaited, Untouched
        <3>. QED
            BY <2>1, <3>1, <3>3, <3>4 DEF TickOK, Entering, Untouched
    <2>. QED
        BY <2>2, <2>3
<1>2. ASSUME NEW i \in DOMAIN orders, Broker(i) PROVE Ticks'
    <2>1. UNCHANGED <<world, pc, opened, ticket, fired>>
        BY <1>2 DEF Broker, Settle, clockVars, memory
    <2>. SUFFICES ASSUME ~world.ambiguous, NEW f \in Engines PROVE TickOK(f)'
        BY <2>1 DEF Ticks
    <2>2. TickOK(f) /\ fired[f] \subseteq DOMAIN orders
        BY DEF Ticks, TypeOK, StageOK
    <2>3. Awaited(f)' = Awaited(f)
        BY <1>2, <2>1, BrokerDecides DEF Awaited
    <2>. QED
        BY <1>2, <2>1, <2>2, <2>3, BrokerDecides DEF TickOK, Entering
<1>3. CASE CandlesClose \/ RedisConnection \/ UNCHANGED vars
    <2>1. UNCHANGED <<world, orders, pc, opened, ticket, fired>>
        BY <1>3 DEF CandlesClose, RedisConnection, vars, clockVars, memory
    <2>. QED
        BY <2>1 DEF Ticks, TickOK, Entering, Awaited
<1>. QED
    BY <1>1, <1>2, <1>3 DEF Next

-----------------------------------------------------------------------------
(* What an engine waits for it does not give up without an answer.         *)
LEMMA WaitsForAnswer ==
    ASSUME TypeOK, NEW e \in Engines, Engine(e), Calm, NothingUnseen(e)
    PROVE  NothingUnseen(e)'
<1>1. CASE Start(e)
    BY <1>1 DEF Start, NothingUnseen, Awaited, Calm, Set, memory, TypeOK, PcOK, MemoryOK
<1>2. CASE Crash(e)
    BY <1>2 DEF Crash, Calm
<1>3. CASE \E answer \in Polls : Poll(e, answer)
    BY <1>3 DEF Poll, NothingUnseen, Awaited, Calm, Set, memory, TypeOK, PcOK, MemoryOK
<1>4. CASE \E tf \in Timeframes, b \in Int, d \in Directions : Evaluate(e, tf, b, d)
    BY <1>4 DEF Evaluate, IsNext, NothingUnseen, Awaited, Calm, Set, memory, TypeOK, PcOK, MemoryOK
<1>5. CASE \E tf \in Timeframes, b \in Int : Skip(e, tf, b)
    BY <1>5 DEF Skip, IsNext, PcAfter, NothingUnseen, Awaited, Calm, Set, memory, TypeOK, PcOK, MemoryOK
<1>6. CASE Drop(e)
    BY <1>6 DEF Drop, Done, PcAfter, NothingUnseen, Awaited, Calm, Set, memory, TypeOK, PcOK, MemoryOK
<1>7. CASE Confirm(e)
    BY <1>7 DEF Confirm, NothingUnseen, Awaited, Calm, Set, memory, TypeOK, PcOK, MemoryOK
<1>8. CASE SeenAtBroker(e)
    BY <1>8 DEF SeenAtBroker, Done, PcAfter, NothingUnseen, Awaited, Calm, Set, memory, TypeOK, PcOK, MemoryOK
<1>9. CASE Send(e)
    <2>. DEFINE new == Len(orders) + 1
    <2>1. pc[e] = "confirmed" /\ pc'[e] = "placing" /\ ticket'[e] = new
        BY <1>9 DEF Send, Set, TypeOK, PcOK, MemoryOK
    <2>2. Awaited(e) = {}
        BY <2>1 DEF Awaited
    <2>3. \A i \in DOMAIN orders : orders'[i].status \notin {"hidden", "sent"}
        BY <1>9, <2>2, SendAppends DEF NothingUnseen
    <2>4. Awaited(e)' = {new}
        BY <1>9, <2>1, SendAppends DEF Awaited
    <2>5. DOMAIN orders' = DOMAIN orders \cup {new} /\ orders'[new].status = "sent"
        BY <1>9, SendAppends
    <2>. HIDE DEF new
    <2>. QED
        BY <2>1, <2>3, <2>4, <2>5 DEF NothingUnseen
<1>10. CASE ClaimTaken(e)
    BY <1>10 DEF ClaimTaken, Done, PcAfter, NothingUnseen, Awaited, Calm, Set, memory, TypeOK, PcOK, MemoryOK
<1>11. CASE ClaimFails(e)
    BY <1>11 DEF ClaimFails, Done, PcAfter, NothingUnseen, Awaited, Calm, Set, memory, TypeOK, PcOK, MemoryOK
<1>12. CASE Placed(e)
    BY <1>12 DEF Placed, Done, PcAfter, NothingUnseen, Awaited, Calm, Set, memory, TypeOK, PcOK, MemoryOK, Accepted
<1>13. CASE NotPlaced(e)
    BY <1>13 DEF NotPlaced, Done, PcAfter, NothingUnseen, Awaited, Calm, Set, memory, TypeOK, PcOK, MemoryOK, Accepted
<1>. QED
    BY <1>1, <1>2, <1>3, <1>4, <1>5, <1>6, <1>7, <1>8, <1>9, <1>10, <1>11, <1>12, <1>13, EngineSteps

(* What is open at the broker, and what of it is not awaited, is finite.   *)
LEMMA FinitelyMany ==
    ASSUME OrdersOK, NEW e \in Engines
    PROVE  /\ 0 \notin DOMAIN orders
           /\ IsFiniteSet(Visible) /\ Cardinality(Visible) \in Nat
           /\ IsFiniteSet(Others(e)) /\ Cardinality(Others(e)) \in Nat
<1>1. DOMAIN orders = 1..Len(orders) /\ Len(orders) \in Nat
    BY DEF OrdersOK
<1>2. IsFiniteSet(DOMAIN orders)
    BY <1>1, FS_Interval
<1>3. Visible \subseteq DOMAIN orders /\ Others(e) \subseteq DOMAIN orders
    BY DEF Visible, Others
<1>. QED
    BY <1>1, <1>2, <1>3, FS_Subset, FS_CardinalityType

(* An engine's step opens and closes nothing.                              *)
LEMMA EngineOpensNothing ==
    ASSUME TypeOK, NEW e \in Engines, Engine(e)
    PROVE  Visible' = Visible /\ \A i \in Visible : orders'[i].dir = orders[i].dir
<1>1. \A j \in DOMAIN orders : j \in DOMAIN orders' /\ orders'[j] = orders[j]
    BY EngineDecidesNothing
<1>2. \A j \in DOMAIN orders' : j \in DOMAIN orders \/ orders'[j].status = "sent"
    <2>1. CASE Send(e)
        BY <2>1, SendAppends
    <2>2. CASE orders' = orders
        BY <2>2
    <2>. QED
        BY <2>1, <2>2, EngineOrders
<1>. QED
    BY <1>1, <1>2 DEF Visible

(* The position check leaves room and one side for the entry, and the      *)
(* engine waits for its answer before it looks again.                      *)
LEMMA OwnLimits ==
    ASSUME TypeOK, NEW e \in Engines, Engine(e), Calm,
           NothingUnseen(e), RoomKept(e), SideKept(e)
    PROVE  RoomKept(e)' /\ SideKept(e)'
<1>1. Visible' = Visible /\ \A i \in Visible : orders'[i].dir = orders[i].dir
    BY EngineOpensNothing
<1>2. 0 \notin DOMAIN orders
    BY FinitelyMany DEF TypeOK
<1>3. CASE pc'[e] = "confirmed"
    <2>1. /\ pc[e] = "checked" /\ Room /\ OneWayAllowed(e)
          /\ UNCHANGED <<entry, ticket, orders>>
        BY <1>3, OnlyConfirmed DEF Confirm, MayEnter, memory
    <2>2. ticket[e] = 0 /\ Others(e) = Visible /\ Others(e)' = Visible
        BY <1>1, <1>2, <2>1 DEF NothingUnseen, Others, Visible
    <2>. QED
        BY <1>1, <1>3, <2>1, <2>2 DEF RoomKept, SideKept, Room, OneWayAllowed
<1>4. CASE pc'[e] = "placing"
    <2>. DEFINE new == Len(orders) + 1
    <2>1. Send(e)
        BY <1>4, OnlySent
    <2>2. pc[e] = "confirmed" /\ entry' = entry /\ ticket'[e] = new
        BY <2>1 DEF Send, Set, TypeOK, MemoryOK
    <2>3. orders'[new].dir = entry[e].dir /\ new \notin DOMAIN orders
        BY <2>1, SendAppends
    <2>4. ticket[e] = 0 /\ Others(e) = Visible /\ Others(e)' = Visible
        BY <1>1, <1>2, <2>2, <2>3 DEF NothingUnseen, Others, Visible
    <2>. HIDE DEF new
    <2>. QED
        BY <1>1, <1>4, <2>2, <2>3, <2>4 DEF RoomKept, SideKept
<1>5. CASE pc'[e] \notin {"confirmed", "placing"}
    BY <1>1, <1>5 DEF RoomKept, SideKept
<1>. QED
    BY <1>3, <1>4, <1>5

(* The broker opens what is awaited, for which there is room.              *)
LEMMA BrokerLimits ==
    ASSUME TypeOK, NEW i \in DOMAIN orders, Broker(i), NEW e \in Engines, Calm,
           NothingUnseen(e), RoomKept(e), SideKept(e)
    PROVE  NothingUnseen(e)' /\ RoomKept(e)' /\ SideKept(e)'
<1>1. UNCHANGED <<world, pc, entry, ticket>>
    BY DEF Broker, Settle, clockVars, memory
<1>2. DOMAIN orders' = DOMAIN orders /\ Awaited(e)' = Awaited(e)
    BY <1>1, BrokerDecides DEF Awaited
<1>3. NothingUnseen(e)'
    BY <1>1, <1>2, BrokerDecides DEF NothingUnseen, Calm
<1>4. Visible' \subseteq Visible \cup Awaited(e) /\ Others(e)' \subseteq Others(e)
    BY <1>1, <1>2, BrokerDecides DEF NothingUnseen, Visible, Others, Awaited
<1>5. /\ IsFiniteSet(Visible) /\ Cardinality(Visible) \in Nat
      /\ IsFiniteSet(Others(e)) /\ Cardinality(Others(e)) \in Nat
    BY FinitelyMany DEF TypeOK
<1>6. Cardinality(Others(e)') <= Cardinality(Others(e)) /\ Cardinality(Others(e)') \in Nat
    BY <1>4, <1>5, FS_Subset, FS_CardinalityType
<1>7. CASE pc[e] = "placing"
    <2>1. Visible' \subseteq Others(e) \cup {ticket[e]}
        BY <1>4 DEF Others, Awaited
    <2>2. /\ IsFiniteSet(Others(e) \cup {ticket[e]})
          /\ Cardinality(Others(e) \cup {ticket[e]}) = Cardinality(Others(e)) + 1
        BY <1>5, FS_AddElement DEF Others
    <2>3. Cardinality(Visible') <= Cardinality(Others(e)) + 1
        BY <2>1, <2>2, FS_Subset
    <2>4. Cardinality(Visible') \in Nat
        BY <2>1, <2>2, FS_Subset, FS_CardinalityType
    <2>5. RoomKept(e)'
        BY <1>1, <1>5, <1>6, <1>7, <2>3, <2>4, EntryAssumption DEF RoomKept
    <2>6. \A j \in Others(e) \cup {ticket[e]} : orders[j].dir = entry[e].dir
        BY <1>7 DEF SideKept
    <2>7. Others(e) \cup {ticket[e]} \subseteq DOMAIN orders
        BY <1>7 DEF Others, Visible, TypeOK, StageOK
    <2>8. \A j \in Others(e) \cup {ticket[e]} : orders'[j].dir = entry[e].dir
        BY <2>6, <2>7, BrokerDecides
    <2>9. SideKept(e)'
        BY <1>1, <1>4, <2>1, <2>8 DEF SideKept
    <2>. QED
        BY <1>3, <2>5, <2>9
<1>8. CASE pc[e] # "placing"
    <2>1. Visible' \subseteq Visible
        BY <1>4, <1>8 DEF Awaited
    <2>2. Cardinality(Visible') <= Cardinality(Visible) /\ Cardinality(Visible') \in Nat
        BY <1>5, <2>1, FS_Subset, FS_CardinalityType
    <2>3. RoomKept(e)'
        BY <1>1, <1>5, <1>6, <1>8, <2>2, EntryAssumption DEF RoomKept
    <2>4. \A j \in Visible : orders'[j].dir = orders[j].dir
        BY BrokerDecides DEF Visible
    <2>5. Others(e) \subseteq Visible
        BY DEF Others
    <2>6. SideKept(e)'
        BY <1>1, <1>4, <1>8, <2>1, <2>4, <2>5 DEF SideKept
    <2>. QED
        BY <1>3, <2>3, <2>6
<1>. QED
    BY <1>7, <1>8

(* No step of the one engine or of the broker exceeds a limit. *)
LEMMA LimitsInductive ==
    ASSUME TypeOK, Limits, [Next]_vars
    PROVE  Limits'
<1>1. ASSUME NEW e \in Engines, Engine(e) PROVE Limits'
    <2>. SUFFICES ASSUME Calm, NEW f \in Engines
                  PROVE  NothingUnseen(f)' /\ RoomKept(f)' /\ SideKept(f)'
        BY <1>1, EngineDecidesNothing DEF Limits, Calm
    <2>1. f = e
        BY OneEngine DEF Calm
    <2>2. NothingUnseen(e) /\ RoomKept(e) /\ SideKept(e)
        BY DEF Limits
    <2>3. NothingUnseen(e)' /\ RoomKept(e)' /\ SideKept(e)'
        BY <1>1, <2>2, WaitsForAnswer, OwnLimits
    <2>. QED
        BY <2>1, <2>3
<1>2. ASSUME NEW i \in DOMAIN orders, Broker(i) PROVE Limits'
    <2>1. world' = world
        BY <1>2 DEF Broker, Settle, clockVars
    <2>2. ASSUME Calm, NEW f \in Engines
          PROVE  NothingUnseen(f)' /\ RoomKept(f)' /\ SideKept(f)'
        BY <1>2, <2>2, BrokerLimits DEF Limits
    <2>. QED
        BY <2>1, <2>2 DEF Limits, Calm
<1>3. CASE CandlesClose \/ RedisConnection \/ UNCHANGED vars
    <2>1. UNCHANGED <<world, orders, pc, entry, ticket>>
        BY <1>3 DEF CandlesClose, RedisConnection, vars, clockVars, memory
    <2>2. Visible' = Visible
        BY <2>1 DEF Visible
    <2>3. ASSUME NEW f \in Engines
          PROVE  Awaited(f)' = Awaited(f) /\ Others(f)' = Others(f)
        BY <2>1, <2>2 DEF Awaited, Others
    <2>4. ASSUME NEW f \in Engines, NothingUnseen(f), RoomKept(f), SideKept(f)
          PROVE  NothingUnseen(f)' /\ RoomKept(f)' /\ SideKept(f)'
        BY <2>1, <2>2, <2>3, <2>4 DEF NothingUnseen, RoomKept, SideKept
    <2>. QED
        BY <2>1, <2>4 DEF Limits, Calm
<1>. QED
    BY <1>1, <1>2, <1>3 DEF Next

(* The limits hold while nothing was sent. *)
LEMMA InitLimits == Init => Ticks /\ Limits
<1>. SUFFICES ASSUME Init PROVE Ticks /\ Limits
    OBVIOUS
<1>1. Visible = {} /\ Cardinality(Visible) = 0
    BY FS_EmptySet DEF Init, Visible
<1>2. Ticks
    BY DEF Init, Ticks, TickOK, Awaited, Entering
<1>3. Limits
    BY <1>1, EntryAssumption DEF Init, Limits, NothingUnseen, RoomKept, SideKept
<1>. QED
    BY <1>2, <1>3

(* The invariant behind the limits. *)
THEOREM LimitInvariance == Spec => []LimitInv
<1>1. Ticks /\ Limits /\ IInv /\ [Next]_vars => Ticks' /\ Limits'
    BY TicksInductive, LimitsInductive DEF IInv
<1>. QED
    BY InitLimits, Invariance, <1>1, PTL DEF Spec, LimitInv

(* Equal elements make at most one. *)
LEMMA AllEqual ==
    ASSUME NEW S, \A i, j \in S : i = j
    PROVE  Cardinality(S) <= 1
<1>1. CASE S = {}
    BY <1>1, FS_EmptySet
<1>2. CASE S # {}
    <2>1. PICK x \in S : S = {x}
        BY <1>2
    <2>. QED
        BY <2>1, FS_Singleton
<1>. QED
    BY <1>1, <1>2

(* With every request answered, an engine has at most one request of a     *)
(* tick accepted, even where the bridge has not shown it yet.              *)
THEOREM OneEntryATick == Spec => []OneEntryPerTick
<1>1. ASSUME IInv, Ticks PROVE OneEntryPerTick
    <2>. SUFFICES ASSUME ~world.ambiguous, NEW e \in Engines
                  PROVE  Cardinality({i \in fired[e] : Accepted(orders[i])}) <= 1
        BY DEF OneEntryPerTick
    <2>1. TickOK(e)
        BY <1>1 DEF Ticks
    <2>2. \A i, j \in {i \in fired[e] : Accepted(orders[i])} : i = j
        BY <2>1 DEF TickOK, Awaited, Accepted
    <2>. QED
        BY <2>2, AllEqual
<1>. QED
    BY LimitInvariance, <1>1, PTL DEF LimitInv

(* Over a faithful bridge nothing is open that the engine does not see.    *)
LEMMA AllSeen ==
    ASSUME Limits, Calm
    PROVE  LiveOrders = Visible
<1>1. \E e \in Engines : TRUE
    BY FS_EmptySet DEF Calm
<1>. QED
    BY <1>1 DEF Limits, NothingUnseen, LiveOrders, Live, Visible

(* A single engine that gets its answers, over a bridge that reports what  *)
(* is open, never holds more positions than its cap.                       *)
THEOREM CapAlwaysKept == Spec => []CapKept
<1>1. ASSUME Limits PROVE CapKept
    <2>1. ASSUME Calm PROVE Cardinality(LiveOrders) <= Cap
        <3>1. PICK e \in Engines : TRUE
            BY <2>1, FS_EmptySet DEF Calm
        <3>. QED
            BY <1>1, <2>1, <3>1, AllSeen DEF Limits, RoomKept
    <2>. QED
        BY <2>1 DEF CapKept, Calm
<1>. QED
    BY LimitInvariance, <1>1, PTL DEF LimitInv

(* ... and never a BUY beside a SELL. *)
THEOREM OneWayAlwaysKept == Spec => []OneWayKept
<1>1. ASSUME Limits PROVE OneWayKept
    <2>1. ASSUME Calm PROVE OneWay
        <3>1. PICK e \in Engines : TRUE
            BY <2>1, FS_EmptySet DEF Calm
        <3>. QED
            BY <1>1, <2>1, <3>1, AllSeen DEF Limits, SideKept, OneWay
    <2>. QED
        BY <2>1 DEF OneWayKept, Calm
<1>. QED
    BY LimitInvariance, <1>1, PTL DEF LimitInv
=============================================================================

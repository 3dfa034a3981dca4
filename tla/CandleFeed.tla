----------------------------- MODULE CandleFeed -----------------------------
(***************************************************************************)
(* Which candle the robot takes for the last closed one                    *)
(* (fetch_candles of live_trading/mt5/connector.py): the clock comes with  *)
(* a quote, the candles from one of four endpoints that are asked in turn, *)
(* and a broken request forgets the session and starts over, once.         *)
(*                                                                         *)
(* Candles and time are counted in candles: at moment c the candles up to  *)
(* c have been closed for two seconds and candle c + 1 is open.  The       *)
(* broker stamps a candle with its opening on the broker's own clock, and  *)
(* the code takes every clock for UTC.  What matters of a history is which *)
(* candles it has; candles of an interval that was not asked for are part  *)
(* of "any".                                                               *)
(***************************************************************************)
EXTENDS Sizing

CONSTANT Offset  \* the broker's clock, less UTC

ASSUME FeedAssumption == Offset \in Int

-----------------------------------------------------------------------------
(* Clocks.                                                                 *)

(* _parse_candle_time: when candle k was opened. *)
Stamp(k) == k - 1 + Offset

(* What a quote tells of the time: nothing, for a quote without a time or  *)
(* no quote at all; the time of now, or of a while before the history.     *)
(* A time that names its zone ("zoned") is turned into UTC, others are     *)
(* taken for it, as the stamps of candles are.                             *)
Quotes == {"none", "timed", "old", "zoned", "oldZoned"}

(* The clock fetch_candles goes by; without the broker's it is the robot's. *)
Clock(quote, c) ==
    CASE quote = "timed" -> c + Offset
      [] quote = "old" -> c - 1 + Offset
      [] quote = "oldZoned" -> c - 1
      [] quote \in {"none", "zoned"} -> c

(* Mutant of Completed: a candle is complete once it has been opened. *)
Begun(bars, now) == {k \in bars : Stamp(k) <= now}

(* _completed_candles *)
Completed(bars, now) == {k \in bars : Stamp(k) + 1 <= now}

-----------------------------------------------------------------------------
(* Endpoints.                                                              *)

Endpoints == <<"/PriceHistory", "/PriceHistoryV2", "/PriceHistoryToday", "/PriceHistoryMonth">>

(* How an endpoint may answer at moment c: the request fails, the endpoint *)
(* is unknown, it gives no list with a candle in it, or the candles up to  *)
(* some moment, of which only the last closed one matters.                 *)
AnswersAt(c) ==
    {[kind |-> "broken", bars |-> {}], [kind |-> "missing", bars |-> {}],
     [kind |-> "useless", bars |-> {}]}
    \union {[kind |-> "history", bars |-> 0 .. last] : last \in 0 .. c + 1}

(* The second endpoint is an older name of the first. *)
Asked(answers, i) == Endpoints[i] = "/PriceHistoryV2" => answers[1].kind = "missing"

(* The loop over the endpoints ends with a failed request, or with the     *)
(* first history that has a closed candle.                                 *)
Ends(answers, now, i) ==
    /\ Asked(answers, i)
    /\ answers[i].kind = "broken" \/ Completed(answers[i].bars, now) # {}

(* One of the two attempts: "broken", "empty" or the last closed candle,   *)
(* and the clock that says so.                                             *)
Tried(connected, quote, answers, c) ==
    LET now == Clock(quote, c)
        ending == {i \in DOMAIN Endpoints : Ends(answers, now, i)}
        clock == IF quote \in {"timed", "old"} THEN "broker" ELSE "utc"
        Gave(kind, k) == [kind |-> kind, last |-> k, clock |-> clock]
    IN  IF ~connected \/ ending = {} THEN Gave("empty", 0)
        ELSE LET found == answers[Min(ending)]
             IN  IF found.kind = "broken" THEN Gave("broken", 0)
                 ELSE Gave("candle", Max(Completed(found.bars, now)))

Tries(c) ==
    {Tried(connected, quote, answers, c) :
        connected \in BOOLEAN, quote \in Quotes,
        answers \in [DOMAIN Endpoints -> AnswersAt(c)]}

(* fetch_candles: a second attempt follows a broken one; what is returned  *)
(* is a candle, or nothing.                                                *)
Returned(first, second) == IF first.kind = "broken" THEN second ELSE first

(* The candles that may be found last at moment c. *)
FoundAt(c) ==
    {f \in {Returned(first, second) : first, second \in Tries(c)} : f.kind = "candle"}

=============================================================================

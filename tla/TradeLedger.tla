---------------------------- MODULE TradeLedger -----------------------------
(***************************************************************************)
(* What the engine knows about its positions, and the stops it moves:      *)
(* trade_history and _trail_baselines of live_trading/trading/             *)
(* live_loop.py, the copies _write_state makes of both in the state file   *)
(* and in Redis, the trailing stop (risk/adaptive_trailing_stop.py), the   *)
(* reconciliation of closed positions and the sync with the broker's       *)
(* history.                                                                *)
(*                                                                         *)
(* Every position is a BUY.  Prices count from its entry: the stop starts  *)
(* at -Risk, and 0 is breakeven.  A SELL mirrors this.  A position is      *)
(* filled at the price the engine asked for.                               *)
(*                                                                         *)
(* A history row is a record of what the handlers ask of it.  Rows are     *)
(* kept in the order of time stamps of two clocks, the engine's and the    *)
(* broker's, so where the code takes the first or the last row of a        *)
(* position, or drops the oldest of 50, the model takes or drops any.      *)
(***************************************************************************)
EXTENDS Integers, FiniteSets

CONSTANTS
    Tickets,   \* the positions; each is opened once
    Risk,      \* distance of the initial stop
    Prices,    \* favourable quotes, from the entry
    Distances, \* 2.5 times the ATR, as far as candles are there
    MinStep,   \* TRAIL_MIN_STEP_PRICE
    NoBase,    \* no baseline
    NoStop,    \* no candidate
    Worlds     \* the worlds to look at:
               \*   redis: how a Redis call can end
               \*   lag: the bridge reports positions and deals late
               \*   unanswered: answers get lost
               \*   full: the history has 50 rows
               \*   restarts: the engine stops and is started again

ASSUME LedgerAssumption ==
    /\ IsFiniteSet(Tickets)
    /\ Risk \in Nat \ {0} /\ MinStep \in Nat
    /\ Prices \subseteq Nat /\ Distances \subseteq Nat
    /\ Worlds \subseteq [redis : (SUBSET BOOLEAN) \ {{}}, lag : BOOLEAN,
                         unanswered : BOOLEAN, full : BOOLEAN, restarts : BOOLEAN]
    /\ NoBase \notin [risk : Nat, armed : BOOLEAN, high : Nat]
    /\ NoStop \notin Int

VARIABLES
    world,
    pos,      \* [Tickets -> [at, sl]]: the position at the broker
    reached,  \* history: the highest quote the engine saw for a position
    pc,       \* what the engine does next
    starting, \* the loop has not begun
    seen,     \* the stops of the positions in the last snapshot
    asked,    \* the stop changes that are under way
    rows,     \* trade_history
    base,     \* _trail_baselines
    file,     \* the copy of rows and base in the state file ...
    redis     \* ... and in Redis

engineVars == <<pc, starting, seen, asked>>
memory == <<rows, base>>
stores == <<file, redis>>
vars == <<world, pos, reached, engineVars, memory, stores>>

-----------------------------------------------------------------------------
Known == {t \in Tickets : pos[t].at # "none"}
Open == {t \in Tickets : pos[t].at = "open"}
Closed == {t \in Tickets : pos[t].at = "closed"}

(* The positions get_open_positions may report. *)
Snapshots == IF world.lag THEN SUBSET Known ELSE {Open}

(* entry, lot: from the order or from the broker's deals; sl: the stop the *)
(* order was sent with; closed: there is a close_time.                     *)
Row(t, sl, entry, closed) == [t |-> t, sl |-> sl, entry |-> entry, closed |-> closed]

EntryRow(t) == Row(t, TRUE, TRUE, FALSE)   \* an order that was placed
AuditRow(t) == Row(t, FALSE, FALSE, FALSE) \* TRAIL_SL, CLOSED_BY_TELEGRAM

(* log_trade *)
Log(r) ==
    \E kept \in {rows} \cup (IF world.full THEN {rows \ {x} : x \in rows} ELSE {}) :
        rows' = kept \cup {r}

Empty == [rows |-> {}, base |-> [t \in Tickets |-> NoBase]]

(* _write_state: the file, and Redis if it can be reached. *)
Save ==
    LET copy == [rows |-> rows', base |-> base']
    IN  \E up \in world.redis : /\ file' = copy
                                /\ redis' = IF up THEN copy ELSE redis

-----------------------------------------------------------------------------
(* The start.                                                              *)

(* One row of each position. *)
OneEach(s) == {k \in SUBSET s : \A r \in s : Cardinality({x \in k : x.t = r.t}) = 1}

(* start(): a state without rows and baselines is written first, then the  *)
(* history and the baselines are read from what was written.  History is   *)
(* merged from file and Redis, one row for each position that the file     *)
(* does not have; baselines come from Redis, or else from the file.        *)
Start ==
    /\ pc = "off"
    /\ file' = Empty
    /\ \E wrote, first, second \in world.redis :
           /\ redis' = IF wrote THEN Empty ELSE redis
           /\ rows' \in OneEach(IF first THEN redis'.rows ELSE {})
           /\ base' = IF second THEN redis'.base ELSE file'.base
    /\ pc' = "sync"
    /\ starting' = TRUE
    /\ UNCHANGED <<world, pos, reached, seen, asked>>

(* After the first sync and the first look at the stops. *)
BeginLoop ==
    /\ pc = "running"
    /\ pc' = "commands"
    /\ starting' = FALSE
    /\ UNCHANGED <<world, pos, reached, seen, asked, memory>>
    /\ Save

(* The engine ends: with an exception or a stage over its time, and then   *)
(* it writes its state, or killed.                                         *)
Stop ==
    /\ world.restarts
    /\ pc # "off"
    /\ pc' = "off"
    /\ starting' = FALSE
    /\ seen' = << >> /\ asked' = << >>
    /\ rows' = {} /\ base' = Empty.base
    /\ \/ UNCHANGED stores
       \/ \E up \in world.redis :
              /\ file' = [rows |-> rows, base |-> base]
              /\ redis' = IF up THEN file' ELSE redis
    /\ UNCHANGED <<world, pos, reached>>

-----------------------------------------------------------------------------
(* The trailing stop.                                                      *)

Baseline(risk) == [risk |-> risk, armed |-> FALSE, high |-> 0]

Distance(sl) == IF sl < 0 THEN 0 - sl ELSE sl

HasEntryRow(t) == \E r \in rows : r.t = t /\ r.sl

(* Mutant of Restored: always from the live position. *)
RestoredLive(t, sl) == IF sl # 0 THEN Baseline(Distance(sl)) ELSE NoBase

(* _restore_trail_baseline: from the row of the order, or else from the    *)
(* stop the position has by now.                                           *)
Restored(t, sl) ==
    IF HasEntryRow(t) THEN Baseline(Risk)
    ELSE IF sl # 0 THEN Baseline(Distance(sl))
    ELSE NoBase

(* Mutant of Armed: half the risk is enough. *)
ArmedEarly(b, price) == b.armed \/ 2 * price >= b.risk

Armed(b, price) == b.armed \/ price >= b.risk

Observed(b, price) ==
    [b EXCEPT !.armed = Armed(b, price),
              !.high = IF price > b.high THEN price ELSE b.high]

(* compute_adaptive_trail: nothing before 1R was reached, then breakeven,  *)
(* and once the stop is there, a distance from the best price.             *)
Candidate(b, sl, distance) ==
    IF ~b.armed THEN NoStop
    ELSE IF sl < 0 THEN 0
    ELSE IF distance = NoStop THEN NoStop
    ELSE b.high - distance

(* Mutant of ShouldApply: any other stop is applied. *)
ShouldApplyAny(sl, candidate) == candidate # NoStop /\ candidate # sl

(* should_apply; the step to breakeven needs no minimum. *)
ShouldApply(sl, candidate) ==
    /\ candidate # NoStop
    /\ candidate - sl >= IF sl < 0 THEN 0 ELSE MinStep

AfterTrail == IF starting THEN "running" ELSE "reconcile"

(* Trailing is off, or the positions cannot be read. *)
SkipTrail ==
    /\ pc = "trail"
    /\ pc' = AfterTrail
    /\ UNCHANGED <<world, pos, reached, starting, seen, asked, memory, stores>>

(* Baselines of positions that are not reported are forgotten. *)
ReadPositions(shown) ==
    /\ pc = "trail"
    /\ base' = [t \in Tickets |-> IF t \in shown THEN base[t] ELSE NoBase]
    /\ seen' = [t \in shown |-> pos[t].sl]
    /\ pc' = IF shown = {} THEN AfterTrail ELSE "quote"
    /\ UNCHANGED <<world, pos, reached, starting, asked, rows, stores>>

NoQuote ==
    /\ pc = "quote"
    /\ pc' = AfterTrail
    /\ seen' = << >>
    /\ UNCHANGED <<world, pos, reached, starting, asked, memory, stores>>

(* The first half of update_ticket, for every position of the snapshot.    *)
Decide(price, distance) ==
    LET before == [t \in DOMAIN seen |->
                      IF base[t] = NoBase THEN Restored(t, seen[t]) ELSE base[t]]
        held == {t \in DOMAIN seen : before[t] # NoBase}
        after == [t \in held |-> Observed(before[t], price[t])]
        stop == [t \in held |-> Candidate(after[t], seen[t], distance[t])]
        moved == {t \in held : ShouldApply(seen[t], stop[t])}
    IN  /\ pc = "quote"
        /\ base' = [t \in Tickets |-> IF t \in held THEN after[t] ELSE base[t]]
        /\ reached' = [t \in Tickets |-> IF t \in DOMAIN seen /\ price[t] > reached[t]
                                         THEN price[t] ELSE reached[t]]
        /\ asked' = [t \in moved |-> stop[t]]
        /\ pc' = IF moved = {} THEN AfterTrail ELSE "modify"
        /\ seen' = << >>
        /\ UNCHANGED <<world, pos, starting, rows, stores>>

(* modify_position has an answer, or none, and the last ends the stage. *)
Answered(t) ==
    /\ asked' = [u \in DOMAIN asked \ {t} |-> asked[u]]
    /\ pc' = IF DOMAIN asked = {t} THEN AfterTrail ELSE "modify"
    /\ UNCHANGED <<world, reached, starting, seen, base, stores>>

Modified(t) ==
    /\ t \in DOMAIN asked
    /\ pos[t].at = "open"
    /\ pos' = [pos EXCEPT ![t].sl = asked[t]]
    /\ \/ Log(AuditRow(t))
       \/ world.unanswered /\ UNCHANGED rows
    /\ Answered(t)

NotModified(t) ==
    /\ t \in DOMAIN asked
    /\ Answered(t)
    /\ UNCHANGED <<pos, rows>>

-----------------------------------------------------------------------------
(* The history.                                                            *)

Pending(t) == {r \in rows : r.t = t /\ r.entry /\ ~r.closed}

(* Mutant of Candidates: a position with a closed row is done with. *)
CandidatesOnce(shown) ==
    {t \in Tickets \ shown : Pending(t) # {} /\ \A r \in rows : r.t = t => ~r.closed}

Candidates(shown) == {t \in Tickets \ shown : Pending(t) # {}}

(* Mutant of HasCloseHistory: a position not reported counts as closed. *)
HasCloseHistoryMissing(t) == TRUE

(* get_closed_position_history finds a close price and a time. *)
HasCloseHistory(t) == pos[t].at = "closed"

(* _apply_close_history: everything about the entry stays in the row. *)
WithClose(r) == [r EXCEPT !.closed = TRUE]

(* _reconcile_closed_trades.  Of the positions that are not reported, those *)
(* in "told" are asked about and have a history by now.                    *)
Reconcile(shown, told) ==
    /\ pc = "reconcile"
    /\ \A t \in told : HasCloseHistory(t)
    /\ told \subseteq Candidates(shown)
    /\ \E row \in [told -> rows] :
           /\ \A t \in told : row[t] \in Pending(t)
           /\ rows' = (rows \ {row[t] : t \in told})
                         \cup {WithClose(row[t]) : t \in told}
    /\ pc' = "sync"
    /\ UNCHANGED <<world, pos, reached, starting, seen, asked, base>>
    /\ IF told = {} THEN UNCHANGED stores ELSE Save

AfterSync == IF starting THEN "trail" ELSE "bars"

(* Too early for the next sync, or the broker's history cannot be read. *)
SkipSync ==
    /\ pc = "sync"
    /\ pc' = AfterSync
    /\ UNCHANGED <<world, pos, reached, starting, seen, asked, memory, stores>>

(* _history_records_from_deals: one record of each position, closed if any *)
(* of its deals left the market; what the stop was no deal says.           *)
Record(t, told) == Row(t, FALSE, TRUE, t \in told)

(* _sync_broker_trade_history: the deals show the positions in "listed",   *)
(* and the closing ones of "told" among them.  The last row of each is     *)
(* updated, whatever it was; a position without a row gets one.            *)
Sync(listed, told) ==
    LET known == {t \in listed : \E r \in rows : r.t = t}
        fresh == {Record(t, told) : t \in listed \ known}
    IN  /\ pc = "sync"
        /\ listed # {} /\ told \subseteq listed
        /\ \E last \in [known -> rows] :
               /\ \A t \in known : last[t].t = t
               /\ LET updated == {Row(t, last[t].sl, TRUE, last[t].closed \/ t \in told) :
                                     t \in known}
                      merged == (rows \ {last[t] : t \in known}) \cup updated \cup fresh
                  IN  rows' \in {merged} \cup
                          (IF world.full THEN {merged \ {x} : x \in merged} ELSE {})
        /\ pc' = AfterSync
        /\ UNCHANGED <<world, pos, reached, starting, seen, asked, base>>
        /\ Save

-----------------------------------------------------------------------------
(* The rest of a tick.                                                     *)

(* CLOSE_ALL closes what is reported, one position after another. *)
CloseByCommand(t) ==
    /\ pc = "commands"
    /\ t \in Open
    /\ pos' = [pos EXCEPT ![t].at = "closed"]
    /\ \/ Log(AuditRow(t)) /\ base' = base /\ Save
       \/ world.unanswered /\ UNCHANGED <<memory, stores>>
    /\ UNCHANGED <<world, reached, engineVars>>

(* The engine is paused or has no connection. *)
Idle ==
    /\ pc = "commands"
    /\ UNCHANGED <<world, pos, reached, engineVars, memory>>
    /\ Save

(* A tick with a connection.  After a reconnect the stops are looked at    *)
(* twice: two ticks here.                                                  *)
Proceed ==
    /\ pc = "commands"
    /\ pc' = "trail"
    /\ UNCHANGED <<world, pos, reached, starting, seen, asked, memory, stores>>

EndTick ==
    /\ pc = "bars"
    /\ pc' = "commands"
    /\ UNCHANGED <<world, reached, starting, seen, asked>>

(* An order is accepted: its row and its baseline are made when the answer *)
(* arrives.                                                                *)
Enter(t) ==
    /\ EndTick
    /\ pos[t].at = "none"
    /\ pos' = [pos EXCEPT ![t] = [at |-> "open", sl |-> 0 - Risk]]
    /\ \/ /\ Log(EntryRow(t))
          /\ base' = [base EXCEPT ![t] = Baseline(Risk)]
       \/ world.unanswered /\ UNCHANGED memory
    /\ Save

NoEntry == EndTick /\ UNCHANGED <<pos, memory>> /\ Save

(* A stop, a target or an operator at the terminal closes a position. *)
Close(t) ==
    /\ pos[t].at = "open"
    /\ pos' = [pos EXCEPT ![t].at = "closed"]
    /\ UNCHANGED <<world, reached, engineVars, memory, stores>>

-----------------------------------------------------------------------------
Init ==
    /\ world \in Worlds
    /\ pos = [t \in Tickets |-> [at |-> "none", sl |-> 0]]
    /\ reached = [t \in Tickets |-> 0]
    /\ pc = "off" /\ starting = FALSE
    /\ seen = << >> /\ asked = << >>
    /\ rows = {} /\ base = Empty.base
    /\ file = Empty /\ redis = Empty

Quotes == [DOMAIN seen -> Prices]
Ranges == [DOMAIN seen -> Distances \cup {NoStop}]

Engine ==
    \/ Start \/ BeginLoop
    \/ SkipTrail \/ NoQuote
    \/ \E shown \in Snapshots : ReadPositions(shown)
    \/ \E price \in Quotes, distance \in Ranges : Decide(price, distance)
    \/ \E t \in Tickets : Modified(t) \/ NotModified(t)
    \/ \E shown \in Snapshots : \E told \in SUBSET Candidates(shown) : Reconcile(shown, told)
    \/ SkipSync
    \/ \E listed \in IF world.lag THEN SUBSET Known ELSE {Known} :
           \E told \in IF world.lag THEN SUBSET (listed \cap Closed) ELSE {Closed} :
               Sync(listed, told)
    \/ Proceed \/ NoEntry

Next ==
    \/ Engine
    \/ \E t \in Tickets : Enter(t) \/ CloseByCommand(t) \/ Close(t)
    \/ Idle
    \/ Stop

Spec == Init /\ [][Next]_vars

(* The loop goes on, and for a closed position the bridge answers with its *)
(* history now and then.                                                   *)
Told(t) ==
    \E shown \in Snapshots : \E told \in SUBSET Candidates(shown) :
        t \in told /\ Reconcile(shown, told)

FairSpec ==
    /\ Spec
    /\ WF_vars(Engine)
    /\ \A t \in Tickets : SF_vars(Told(t))

-----------------------------------------------------------------------------
(* Properties.                                                             *)

Bases == [risk : Nat \ {0}, armed : BOOLEAN, high : Nat] \cup {NoBase}
Rows == [t : Tickets, sl : BOOLEAN, entry : BOOLEAN, closed : BOOLEAN]
Copies == [rows : SUBSET Rows, base : [Tickets -> Bases]]

TypeOK ==
    /\ world \in Worlds
    /\ pos \in [Tickets -> [at : {"none", "open", "closed"}, sl : Int]]
    /\ reached \in [Tickets -> Nat]
    /\ pc \in {"off", "sync", "running", "commands", "trail", "quote", "modify",
               "reconcile", "bars"}
    /\ starting \in BOOLEAN
    /\ DOMAIN seen \subseteq Tickets /\ \A t \in DOMAIN seen : seen[t] \in Int
    /\ DOMAIN asked \subseteq Tickets /\ \A t \in DOMAIN asked : asked[t] \in Int
    /\ rows \subseteq Rows
    /\ base \in [Tickets -> Bases]
    /\ file \in Copies /\ redis \in Copies

(* A stop never moves back, whatever the engine has forgotten in between   *)
(* (_manage_trailing_stop).                                                *)
StopNeverBack ==
    [][\A t \in Open : pos'[t].sl >= pos[t].sl]_vars

(* And it stays where it was until the engine has seen a quote at one      *)
(* original risk from the entry: a baseline guessed from the live stop is  *)
(* never too small as long as the stop is the first one.                   *)
OneRiskFirst ==
    \A t \in Known : pos[t].sl # 0 - Risk => reached[t] >= Risk

(* A position is only recorded as closed when it is, however late the      *)
(* bridge reports it.                                                      *)
ClosedIfRecorded == \A r \in rows : r.closed => r.t \in Closed

(* While the row of its order is in the history, a baseline has the        *)
(* original risk.                                                          *)
EntryRowFixesRisk ==
    \A r \in rows : r.sl /\ base[r.t] # NoBase => base[r.t].risk = Risk

(* A closed position does not stay open in the history for ever. *)
ClosedIsRecorded ==
    \A t \in Tickets : t \in Closed /\ Pending(t) # {} ~> Pending(t) = {}

(* live_loop.py: baselines are persisted "so a restart cannot mistake a    *)
(* trailed SL for the original risk".                                      *)
RiskSurvivesRestart ==
    \A t \in Open : base[t] # NoBase => base[t].risk = Risk
=============================================================================

------------------------------ MODULE Guardian ------------------------------
(***************************************************************************)
(* The RiskGuardian object of live_trading/risk/guardian.py, as operators  *)
(* on a record                                                             *)
(*                                                                         *)
(*     s = [mem |-> the object's fields, disk |-> copy, redis |-> copy,    *)
(*          behind |-> the places that have not got the last copy]         *)
(*                                                                         *)
(* so that a handler which calls several methods is their composition.     *)
(* The methods are synchronous: nothing runs between the mutations of one  *)
(* call, and _save_state tries both places before the method returns.      *)
(* `up' is the set of places that take a write.                            *)
(*                                                                         *)
(* Data kept: whole account units for balances and equities (percentages   *)
(* are compared by cross multiplication, exactly), UTC days counted by     *)
(* `today', and one request identity per reset command.  Data left out:    *)
(* timestamps for display, log throttling, and the 1e-9 float tolerance.   *)
(* Of the session-open balance, which is compared with no limit, only its  *)
(* sign is kept: `session', which restore_state asks for.                  *)
(***************************************************************************)
EXTENDS Integers

CONSTANTS Requests,     \* request ids of RESET_GUARDIAN commands
          NoRequest,    \* the empty request id
          NoLogin,      \* account identity not known
          EnvLimits     \* both limits set in the environment (os.environ)

NoBaseline == [active |-> FALSE, day |-> 0, realized |-> 0, balance |-> 0,
               request |-> NoRequest]

NoCopy == [present |-> FALSE]

(* Where _save_state puts a copy. *)
Places == {"disk", "redis"}

(* RiskGuardian.__init__: nothing is known and every check refuses. *)
New(limits) ==
    [initialized |-> FALSE, halt |-> "none", peak |-> 0, session |-> FALSE,
     dayOpen |-> 0, lastDay |-> -1, baseline |-> NoBaseline, login |-> NoLogin,
     limits |-> limits]

(* _save_state: a place that takes the write has the copy, the other one   *)
(* keeps what it had; neither failure is reported to anybody.              *)
Save(s, now, up) ==
    LET copy == [present |-> TRUE, mem |-> s.mem, at |-> now]
    IN  [s EXCEPT !.disk = IF "disk" \in up THEN copy ELSE @,
                  !.redis = IF "redis" \in up THEN copy ELSE @,
                  !.behind = Places \ up]

(* Mutant of Initialize: an active manual baseline is carried over. *)
InitializeKeepsBaseline(s, balance, equity, today, now, up) ==
    Save([s EXCEPT !.mem.peak = equity,
                   !.mem.session = balance > 0,
                   !.mem.dayOpen = balance,
                   !.mem.lastDay = today,
                   !.mem.initialized = TRUE], now, up)

(* initialize: new baselines.  A halt in force is left as it is.           *)
Initialize(s, balance, equity, today, now, up) ==
    Save([s EXCEPT !.mem.peak = equity,
                   !.mem.session = balance > 0,
                   !.mem.dayOpen = balance,
                   !.mem.lastDay = today,
                   !.mem.baseline = NoBaseline,
                   !.mem.initialized = TRUE], now, up)

(* Mutant of DayReset: the new day lifts every halt. *)
DayResetLiftsAll(s, balance, today, now, up) ==
    IF today > s.mem.lastDay
    THEN Save([s EXCEPT !.mem.baseline = NoBaseline,
                        !.mem.dayOpen = balance,
                        !.mem.lastDay = today,
                        !.mem.halt = "none"], now, up)
    ELSE s

(* _maybe_day_reset: on the first call of a UTC day the daily window is    *)
(* reopened at the current balance and a daily-loss halt is lifted.        *)
DayReset(s, balance, today, now, up) ==
    IF today > s.mem.lastDay
    THEN Save([s EXCEPT !.mem.baseline = NoBaseline,
                        !.mem.dayOpen = balance,
                        !.mem.lastDay = today,
                        !.mem.halt = IF @ = "daily" THEN "none" ELSE @],
              now, up)
    ELSE s

(* Mutant of RaisePeak: the mark follows the equity down. *)
RaisePeakAlways(s, equity, now, up) ==
    IF equity # s.mem.peak
    THEN Save([s EXCEPT !.mem.peak = equity], now, up)
    ELSE s

(* The high-water mark of check, saved whenever it rises. *)
RaisePeak(s, equity, now, up) ==
    IF equity > s.mem.peak
    THEN Save([s EXCEPT !.mem.peak = equity], now, up)
    ELSE s

(* _active_manual_reset_baseline: a baseline of another day is dropped. *)
ExpireBaseline(s, today, now, up) ==
    IF s.mem.baseline.active /\ s.mem.baseline.day # today
    THEN Save([s EXCEPT !.mem.baseline = NoBaseline], now, up)
    ELSE s

(* The daily-loss layer: the loss of the day, or since the operator's      *)
(* reset, against the percentage of the balance the window opened with.    *)
DailyLossReached(m, balance) ==
    LET base == IF m.baseline.active THEN m.baseline.balance ELSE m.dayOpen
        pnl  == balance - m.dayOpen - m.baseline.realized
    IN  base > 0 /\ 100 * pnl <= -(m.limits.daily * base)

(* The drawdown layer: the pullback from the high-water mark. *)
DrawdownReached(m, equity) ==
    m.peak > 0 /\ 100 * (m.peak - equity) >= m.limits.drawdown * m.peak

(* Mutants of Trigger: no drawdown layer while a manual baseline is        *)
(* active; the halt is not saved.                                          *)
TriggerDailyAfterReset(s, balance, equity, now, up) ==
    IF s.mem.halt # "none" THEN s
    ELSE IF DailyLossReached(s.mem, balance)
         THEN Save([s EXCEPT !.mem.halt = "daily"], now, up)
    ELSE IF ~s.mem.baseline.active /\ DrawdownReached(s.mem, equity)
         THEN Save([s EXCEPT !.mem.halt = "drawdown"], now, up)
    ELSE s

TriggerUnsaved(s, balance, equity, now, up) ==
    IF s.mem.halt # "none" THEN s
    ELSE IF DailyLossReached(s.mem, balance)
         THEN [s EXCEPT !.mem.halt = "daily"]
    ELSE IF DrawdownReached(s.mem, equity)
         THEN [s EXCEPT !.mem.halt = "drawdown"]
    ELSE s

(* _trigger, reached only while not halted. *)
Trigger(s, balance, equity, now, up) ==
    IF s.mem.halt # "none" THEN s
    ELSE IF DailyLossReached(s.mem, balance)
         THEN Save([s EXCEPT !.mem.halt = "daily"], now, up)
    ELSE IF DrawdownReached(s.mem, equity)
         THEN Save([s EXCEPT !.mem.halt = "drawdown"], now, up)
    ELSE s

(* check: roll the day over, raise the mark, expire the baseline, evaluate. *)
(* An uninitialized guardian reports a halt and changes nothing.           *)
Check(s, balance, equity, today, now, up) ==
    IF ~s.mem.initialized THEN s
    ELSE LET s1 == DayReset(s, balance, today, now, up)
             s2 == RaisePeak(s1, equity, now, up)
             s3 == ExpireBaseline(s2, today, now, up)
         IN  Trigger(s3, balance, equity, now, up)

Halted(m) == ~m.initialized \/ m.halt # "none"

(* The conditions reset_halt tests before it touches anything. *)
ResetConsidered(m, balance, equity, request) ==
    /\ ~(request # NoRequest /\ request = m.baseline.request)
    /\ m.halt # "none"
    /\ m.initialized
    /\ balance > 0 /\ equity > 0

(* reset_halt returns True exactly when the halt survives the rollover it  *)
(* performs first and is then lifted by the reset itself.                  *)
ResetReturns(m, balance, equity, request, today) ==
    /\ ResetConsidered(m, balance, equity, request)
    /\ ~(today > m.lastDay /\ m.halt = "daily")

(* reset_halt: the losses booked so far today are excused until midnight   *)
(* and the high-water mark restarts at the current equity.                 *)
ResetHalt(s, balance, equity, request, today, now, up) ==
    IF ~ResetConsidered(s.mem, balance, equity, request) THEN s
    ELSE LET r == DayReset(s, balance, today, now, up)
         IN  IF r.mem.halt = "none" THEN r
             ELSE Save([r EXCEPT
                          !.mem.baseline =
                             [active |-> TRUE, day |-> today,
                              realized |-> balance - r.mem.dayOpen,
                              balance |-> balance, request |-> request],
                          !.mem.peak = equity,
                          !.mem.lastDay = today,
                          !.mem.halt = "none"], now, up)

(* restore_state accepts a copy unless it names another account, which it  *)
(* can tell only when both identities are known, or has no baselines.      *)
RestoreAccepts(m, login) ==
    /\ \/ login = NoLogin
       \/ m.login = NoLogin
       \/ m.login = login
    /\ m.peak > 0 /\ m.session /\ m.dayOpen > 0

(* restore_state: a manual baseline is kept only for the copy's own day,   *)
(* and the saved limits give way to limits set in the environment.         *)
Restored(m, login, limits) ==
    [m EXCEPT !.login = login,
              !.limits = IF EnvLimits THEN limits ELSE @,
              !.baseline = IF @.active /\ @.day = m.lastDay THEN @
                           ELSE NoBaseline]

=============================================================================

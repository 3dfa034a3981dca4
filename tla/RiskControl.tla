---------------------------- MODULE RiskControl ----------------------------
(***************************************************************************)
(* The circuit breaker of the trading engine: the RiskGuardian object      *)
(* (module Guardian), the two copies of its state that outlive a process,  *)
(* and every place of live_loop.py and server.py that calls it -- start(), *)
(* _on_new_bar(), _process_commands() and POST /force-resume.              *)
(*                                                                         *)
(* An engine is started by the supervisor, trades, pauses itself when the  *)
(* guardian halts, is paused, resumed and reset by the operator, and is    *)
(* stopped: by a command, by an error (same process), by the death of the  *)
(* process, or by a redeploy that gives it another disk and account.       *)
(* While no engine runs, `mem' keeps what the dead one knew; no start      *)
(* reads it, it only serves the properties.                                *)
(***************************************************************************)
EXTENDS Guardian

CONSTANTS Logins,        \* broker accounts the deployment may be pointed at
          Accounts,      \* account snapshots [balance, equity] a call may return
          Limits,        \* limit pairs [daily, drawdown] the operator may choose
          ConfigLimits,  \* the pair the configuration gives a new process
          TicksPerDay,   \* clock ticks in a UTC day
          FreshFor,      \* ticks a saved copy is accepted at a start (26 h)
          RedisTtl,      \* ticks Redis keeps the copy (27 h)
          MaxNow,        \* bound on the clock
          Summary,       \* may the summary be there, or not, when one starts
          Outages,       \* whether Redis and the file may fail
          Redeploys      \* whether the service may be redeployed

ASSUME RequestsAssumption == NoRequest \notin Requests
ASSUME LoginsAssumption == NoLogin \notin Logins
ASSUME AccountsAssumption == Accounts \subseteq [balance : Nat, equity : Nat]
ASSUME LimitsAssumption ==
    /\ Limits \subseteq [daily : Nat \ {0}, drawdown : Nat \ {0}]
    /\ ConfigLimits \in Limits
ASSUME ClockAssumption ==
    /\ TicksPerDay \in Nat \ {0}
    /\ FreshFor \in Nat /\ RedisTtl \in Nat /\ FreshFor <= RedisTtl
    /\ MaxNow \in Nat
ASSUME FlagsAssumption ==
    /\ EnvLimits \in BOOLEAN /\ Summary \subseteq BOOLEAN
    /\ Outages \in BOOLEAN /\ Redeploys \in BOOLEAN

VARIABLES
    now,       \* the clock
    working,   \* places that take a write; of Redis, also that it answers
    engine,    \* "up" while it runs; "stopped" when it has ended and its
               \* process has not, which still knows the object; or "down"
    mem,       \* the guardian's fields
    disk,      \* guardian_state.json
    redis,     \* the goldscalper:guardian key
    paused,    \* engine.paused
    lateBars,  \* bars of the tick in which the engine paused itself may be left
    receipt,   \* engine._last_guardian_reset_receipt
    config,    \* DAILY_LOSS_LIMIT_PCT and MAX_DRAWDOWN_PCT of the process
    login,     \* the account the broker connection is logged in to
    behind     \* history: the places that have not got the last copy saved,
               \* or taken over by a start

stores == <<mem, disk, redis, behind>>
world == <<now, working, login>>
vars == <<now, working, engine, mem, disk, redis, paused, lateBars, receipt,
          config, login, behind>>

Today == now \div TicksPerDay

NoReceipt == [request |-> NoRequest, status |-> "none"]

(* Every handler leaves memory and copies of the guardian's state as the   *)
(* composition of the calls it makes leaves them.                          *)
State == [mem |-> mem, disk |-> disk, redis |-> redis, behind |-> behind]
Becomes(s) ==
    /\ mem' = s.mem
    /\ disk' = s.disk
    /\ redis' = s.redis
    /\ behind' = s.behind

GuardianInitialize(s, a) ==
    Initialize(s, a.balance, a.equity, Today, now, working)
GuardianCheck(s, a) == Check(s, a.balance, a.equity, Today, now, working)
GuardianReset(s, a, r) ==
    ResetHalt(s, a.balance, a.equity, r, Today, now, working)

-----------------------------------------------------------------------------
(* Starting an engine.                                                     *)

Age(copy) == now - copy.at

(* Mutant of SavedCopy: a copy that Redis still holds is read at any age,  *)
(* and the disk never.                                                     *)
SavedCopyRedisOnly == IF "redis" \in working THEN redis ELSE NoCopy

(* Redis is read first; the file only when Redis gives nothing.  A file    *)
(* that could not be replaced is still there to be read.                   *)
SavedCopy ==
    IF "redis" \in working /\ redis.present /\ Age(redis) <= RedisTtl
    THEN redis ELSE disk

Copy(place) == IF place = "disk" THEN disk ELSE redis

Identity(known) == IF known THEN login ELSE NoLogin

Restorable(known) ==
    /\ SavedCopy.present
    /\ Age(SavedCopy) <= FreshFor
    /\ RestoreAccepts(SavedCopy.mem, Identity(known))

(* The saved state is taken over, and a halt in it pauses the engine.      *)
(* `known' is whether the account summary was available to identify by.    *)
StartRestored(known) ==
    /\ engine # "up"
    /\ Restorable(known)
    /\ engine' = "up"
    /\ mem' = Restored(SavedCopy.mem, Identity(known), config)
    /\ paused' = (SavedCopy.mem.halt # "none")
    /\ lateBars' = FALSE
    /\ receipt' = NoReceipt
    /\ behind' = {place \in Places : Copy(place) # SavedCopy}
    /\ UNCHANGED <<world, config, disk, redis>>

(* No usable saved state: the live account gives the baselines, on the     *)
(* first answer or on the one retry (then the identity is still unknown).  *)
StartFresh(known, a) ==
    /\ engine # "up"
    /\ ~Restorable(known)
    /\ a.balance > 0
    /\ engine' = "up"
    /\ Becomes(GuardianInitialize(
                 [State EXCEPT !.mem = [New(config) EXCEPT
                                          !.login = Identity(known)]], a))
    /\ paused' = FALSE
    /\ lateBars' = FALSE
    /\ receipt' = NoReceipt
    /\ UNCHANGED <<world, config>>

(* Neither saved state nor a usable account: the guardian stays           *)
(* uninitialized and blocks every entry until a bar brings account data.   *)
StartBlind(known) ==
    /\ engine # "up"
    /\ ~Restorable(known)
    /\ engine' = "up"
    /\ mem' = [New(config) EXCEPT !.login = Identity(known)]
    /\ paused' = FALSE
    /\ lateBars' = FALSE
    /\ receipt' = NoReceipt
    /\ UNCHANGED <<world, config, disk, redis, behind>>

-----------------------------------------------------------------------------
(* Running.                                                                *)

(* The guardian part of _on_new_bar: initialize late if start() could not, *)
(* then check.                                                             *)
AfterBar(a) ==
    GuardianCheck(IF mem.initialized THEN State
                  ELSE GuardianInitialize(State, a), a)

(* Mutant of Bar: a halt is reported and the engine is not paused. *)
BarWithoutAutoPause(a) ==
    /\ engine = "up"
    /\ ~paused \/ lateBars
    /\ Becomes(AfterBar(a))
    /\ lateBars' = paused
    /\ UNCHANGED <<world, engine, paused, receipt, config>>

(* The engine is paused when the answer is a halt; the other timeframes    *)
(* that closed in this tick still have their bar.                          *)
Bar(a) ==
    /\ engine = "up"
    /\ ~paused \/ lateBars
    /\ Becomes(AfterBar(a))
    /\ paused' = (paused \/ Halted(AfterBar(a).mem))
    /\ lateBars' = paused'
    /\ UNCHANGED <<world, engine, receipt, config>>

(* Commands are read where a tick begins: no bar of the last one is left.  *)
PauseCommand ==
    /\ engine = "up"
    /\ ~paused
    /\ paused' = TRUE
    /\ lateBars' = FALSE
    /\ UNCHANGED <<world, engine, stores, receipt, config>>

(* RESUME and START: refused while the guardian is halted. *)
ResumeCommand ==
    /\ engine = "up"
    /\ paused
    /\ mem.halt = "none"
    /\ paused' = FALSE
    /\ lateBars' = FALSE
    /\ UNCHANGED <<world, engine, stores, receipt, config>>

(* RESET_GUARDIAN with request id r.  A request this engine has answered   *)
(* already changes nothing, so the cases below are for the others.         *)
NewRequest(r) == engine = "up" /\ ~(r # NoRequest /\ r = receipt.request)

Answer(r, status) ==
    /\ receipt' = [request |-> r, status |-> status]
    /\ lateBars' = FALSE

(* Mutant of ResetWhileRunning: the baseline's day is not looked at.      *)
ResetWhileRunningAnyDay(r) ==
    /\ NewRequest(r)
    /\ mem.halt = "none"
    /\ Becomes(State)
    /\ Answer(r, IF r # NoRequest /\ r = mem.baseline.request
                 THEN "applied" ELSE "ignored")
    /\ UNCHANGED <<world, engine, paused, config>>

(* Not halted: acknowledged if the baseline in force is this request's.    *)
(* Looking the baseline up drops one of another day.                       *)
ResetWhileRunning(r) ==
    LET s == ExpireBaseline(State, Today, now, working)
    IN  /\ NewRequest(r)
        /\ mem.halt = "none"
        /\ Becomes(s)
        /\ Answer(r, IF r # NoRequest /\ r = s.mem.baseline.request
                     THEN "applied" ELSE "ignored")
        /\ UNCHANGED <<world, engine, paused, config>>

(* Halted, and no usable account snapshot. *)
ResetWithoutAccount(r) ==
    /\ NewRequest(r)
    /\ mem.halt # "none"
    /\ Answer(r, "failed")
    /\ UNCHANGED <<world, engine, stores, paused, config>>

(* Halted, and reset_halt returns True: the engine resumes unless the      *)
(* check that follows at once halts again.                                 *)
ResetApplied(r, a) ==
    LET s == GuardianCheck(GuardianReset(State, a, r), a)
    IN  /\ NewRequest(r)
        /\ ResetReturns(mem, a.balance, a.equity, r, Today)
        /\ Becomes(s)
        /\ paused' = Halted(s.mem)
        /\ Answer(r, "applied")
        /\ UNCHANGED <<world, engine, config>>

(* Halted, and reset_halt returns False, whatever it did before.           *)
ResetRefused(r, a) ==
    /\ NewRequest(r)
    /\ mem.halt # "none"
    /\ a.balance > 0 /\ a.equity > 0
    /\ ~ResetReturns(mem, a.balance, a.equity, r, Today)
    /\ Becomes(GuardianReset(State, a, r))
    /\ Answer(r, "failed")
    /\ UNCHANGED <<world, engine, paused, config>>

(* UPDATE_RISK: the thresholds of the process and of the guardian object;  *)
(* nothing is saved.                                                       *)
UpdateRisk(l) ==
    /\ engine = "up"
    /\ config' = l
    /\ mem' = [mem EXCEPT !.limits = l]
    /\ lateBars' = FALSE
    /\ UNCHANGED <<world, engine, disk, redis, behind, paused, receipt>>

(* POST /force-resume: optionally rebase on the engine's last account      *)
(* snapshot, call reset_halt() without one, unpause.  The server still     *)
(* knows an engine that has ended, until the next one takes its place.     *)
ForceResume(rebase, a) ==
    LET s == IF rebase /\ a.balance > 0 THEN GuardianInitialize(State, a)
             ELSE State
    IN  /\ engine # "down"
        /\ Becomes(ResetHalt(s, 0, 0, NoRequest, Today, now, working))
        /\ paused' = FALSE
        /\ UNCHANGED <<world, engine, lateBars, receipt, config>>

-----------------------------------------------------------------------------
(* Stopping, and what the environment does.                                *)

(* The engine ends, by a STOP command or an error; the process goes on.    *)
EngineStops ==
    /\ engine = "up"
    /\ engine' = "stopped"
    /\ UNCHANGED <<world, stores, paused, lateBars, receipt, config>>

(* The process dies: the thresholds set by UPDATE_RISK die with it. *)
ProcessDies ==
    /\ engine # "down"
    /\ engine' = "down"
    /\ config' = ConfigLimits
    /\ UNCHANGED <<world, stores, paused, lateBars, receipt>>

(* A redeploy without a persistent disk, perhaps for another account. *)
Redeploy ==
    /\ Redeploys
    /\ engine = "down"
    /\ disk' = NoCopy
    /\ behind' = behind \cup {"disk"}
    /\ config' = ConfigLimits
    /\ login' \in Logins
    /\ UNCHANGED <<now, working, engine, mem, redis, paused, lateBars, receipt>>

(* Redis may be out of reach, the file's disk full or read-only.           *)
PlacesChange ==
    /\ Outages
    /\ working' \in SUBSET Places
    /\ UNCHANGED <<now, login, engine, stores, paused, lateBars, receipt, config>>

Tick ==
    /\ now < MaxNow
    /\ now' = now + 1
    /\ lateBars' = FALSE
    /\ UNCHANGED <<working, login, engine, stores, paused, receipt, config>>

-----------------------------------------------------------------------------
Init ==
    /\ now = 0
    /\ working = Places
    /\ engine = "down"
    /\ mem = New(ConfigLimits)
    /\ disk = NoCopy
    /\ redis = NoCopy
    /\ paused = FALSE
    /\ lateBars = FALSE
    /\ receipt = NoReceipt
    /\ config = ConfigLimits
    /\ login \in Logins
    /\ behind = Places

Start ==
    \E known \in Summary :
        \/ StartRestored(known)
        \/ \E a \in Accounts : StartFresh(known, a)
        \/ StartBlind(known)

Reset ==
    \E r \in Requests \cup {NoRequest} :
        \/ ResetWhileRunning(r)
        \/ ResetWithoutAccount(r)
        \/ \E a \in Accounts : ResetApplied(r, a) \/ ResetRefused(r, a)

SomeBar == \E a \in Accounts : Bar(a)

Next ==
    \/ Start
    \/ SomeBar
    \/ PauseCommand
    \/ ResumeCommand
    \/ Reset
    \/ \E l \in Limits : UpdateRisk(l)
    \/ \E rebase \in BOOLEAN, a \in Accounts : ForceResume(rebase, a)
    \/ EngineStops
    \/ ProcessDies
    \/ Redeploy
    \/ PlacesChange
    \/ Tick

Spec == Init /\ [][Next]_vars

(* Candles keep closing while an unpaused engine runs, so a bar is         *)
(* processed sooner or later.  The operator and the clock are not fair.    *)
FairSpec == Spec /\ WF_vars(SomeBar)

(* The same engine left to itself: nobody sends it a command.              *)
UnattendedSpec == Init /\ [][Start \/ SomeBar \/ Tick]_vars /\ WF_vars(SomeBar)

-----------------------------------------------------------------------------
(* Types.                                                                  *)

Baselines == [active : BOOLEAN, day : Nat, realized : Int, balance : Nat,
              request : Requests \cup {NoRequest}]
Memories == [initialized : BOOLEAN, halt : {"none", "daily", "drawdown"},
             peak : Nat, session : BOOLEAN, dayOpen : Nat,
             lastDay : Nat \cup {-1}, baseline : Baselines,
             login : Logins \cup {NoLogin}, limits : Limits]
Copies == [present : {TRUE}, mem : Memories, at : Nat] \cup {NoCopy}

TypeOK ==
    /\ now \in Nat
    /\ working \subseteq Places
    /\ engine \in {"up", "stopped", "down"}
    /\ mem \in Memories
    /\ disk \in Copies
    /\ redis \in Copies
    /\ paused \in BOOLEAN /\ lateBars \in BOOLEAN
    /\ receipt \in [request : Requests \cup {NoRequest},
                    status : {"none", "applied", "ignored", "failed"}]
    /\ config \in Limits
    /\ login \in Logins
    /\ behind \subseteq Places

-----------------------------------------------------------------------------
(* Safety.                                                                 *)

(* What a restart must not change: the halt, the marks, the excused loss.  *)
SameRisk(m1, m2) ==
    /\ m1.halt = m2.halt
    /\ m1.peak = m2.peak
    /\ m1.session = m2.session
    /\ m1.dayOpen = m2.dayOpen
    /\ m1.lastDay = m2.lastDay
    /\ m1.baseline = m2.baseline

(* Write-ahead discipline: a place that took the last save agrees with the *)
(* object in memory, be it Redis or the file, so no method of the guardian *)
(* and no handler that composes them leaves a halt, a mark or a baseline   *)
(* unsaved, and no start takes over a copy other than it is.               *)
Durable ==
    mem.initialized =>
        \A place \in Places \ behind :
            Copy(place).present /\ SameRisk(mem, Copy(place).mem)

(* The risk state in memory and in every copy a later start may take over. *)
RiskStates == {mem} \cup {c.mem : c \in {d \in {disk, redis} : d.present}}

(* The loss an operator's reset excuses is the loss of the current daily   *)
(* window and of no other: whenever a manual baseline exists it belongs to *)
(* the day the window was opened on, and the excused amount is the fall    *)
(* from that window's opening balance to the balance at the reset.         *)
BaselineConsistent ==
    \A m \in RiskStates :
        m.baseline.active
            => /\ m.baseline.day = m.lastDay
               /\ m.baseline.realized = m.baseline.balance - m.dayOpen

(* A bar that would leave the guardian unhalted, whatever happened before, *)
(* measures both losses from today's windows and finds them inside the     *)
(* limits: the fall from the reset balance if the operator reset today,    *)
(* else from the day's opening balance, and the fall from the high-water   *)
(* mark, which includes this bar.                                          *)
WithinLimits(m, a) ==
    LET from == IF m.baseline.active THEN m.baseline.balance ELSE m.dayOpen
    IN  /\ m.lastDay = Today
        /\ m.baseline.active => m.baseline.day = Today
        /\ from > 0 => 100 * (from - a.balance) < m.limits.daily * from
        /\ m.peak >= a.equity
        /\ m.peak > 0 =>
              100 * (m.peak - a.equity) < m.limits.drawdown * m.peak
LimitsEnforced ==
    engine = "up" => \A a \in Accounts :
        AfterBar(a).mem.halt = "none" => WithinLimits(AfterBar(a).mem, a)

(* A halt in force is lifted only by an operator's reset that had a live   *)
(* account, or, for a daily-loss halt, by the first look at a later day.   *)
HaltIsSticky ==
    [][engine = "up" /\ engine' = "up" /\ mem.halt # "none" /\ mem'.halt = "none"
         => \/ \E r \in Requests \cup {NoRequest}, a \in Accounts : ResetApplied(r, a)
            \/ mem.halt = "daily" /\ Today > mem.lastDay]_vars

(* The high-water mark falls only where the operator asked for a new       *)
(* reference: a reset, or a forced resume that rebases.                    *)
PeakFallsOnlyOnReset ==
    [][engine = "up" /\ engine' = "up" /\ mem.initialized /\ mem'.peak < mem.peak
         => \/ \E r \in Requests \cup {NoRequest}, a \in Accounts : ResetApplied(r, a)
            \/ \E a \in Accounts : ForceResume(TRUE, a)]_vars

(* A restart is not a way out of a halt: a start that finds the last copy  *)
(* in the place it reads first, in time and for the account it belongs to, *)
(* continues with the risk state the stopped engine had, and paused if     *)
(* that was halted.  A guardian with a zero among its opening figures is   *)
(* not restored.                                                           *)
Usable(copy) ==
    /\ copy.present
    /\ Age(copy) <= FreshFor
    /\ copy.mem.login \in {login, NoLogin}
HasLast(place) == place \notin behind /\ Usable(Copy(place))
RestartKeepsRiskState ==
    [][(/\ engine # "up" /\ engine' = "up"
        /\ mem.initialized /\ mem.peak > 0 /\ mem.session /\ mem.dayOpen > 0
        /\ HasLast(IF "redis" \in working THEN "redis" ELSE "disk"))
         => /\ SameRisk(mem', mem)
            /\ paused' = (mem.halt # "none")]_vars

(* A reset answered "applied" is the reset in force: the baseline is the   *)
(* one made for that request, on this day.                                 *)
AppliedMeansInForce ==
    [][receipt' # receipt /\ receipt'.status = "applied"
         => /\ mem'.baseline.active
            /\ mem'.baseline.request = receipt'.request
            /\ mem'.baseline.day = Today]_vars

-----------------------------------------------------------------------------
(* Liveness.                                                               *)

(* An engine forced to run while its guardian is halted does not stay so:  *)
(* the next bar pauses it again, unless the halt goes or the engine stops. *)
ForcedResumeIsRepaused ==
    (engine = "up" /\ mem.halt # "none" /\ ~paused)
        ~> (paused \/ mem.halt = "none" \/ engine # "up")

-----------------------------------------------------------------------------
(* What the repository says and the code does not do.                      *)

(* live_loop.py:814 "If Guardian was halted before restart it must remain  *)
(* halted": whatever Redis did meanwhile, while the last saved state is    *)
(* fresh and the account the same.                                         *)
HaltSurvivesRestart ==
    [][(/\ engine # "up" /\ engine' = "up"
        /\ mem.halt # "none" /\ mem.peak > 0 /\ mem.session /\ mem.dayOpen > 0
        /\ HasLast("disk"))
         => mem'.halt # "none"]_vars

(* guardian.py:6 the daily limit "Resets automatically at UTC midnight so  *)
(* a new day gets a fresh window".                                         *)
DailyHaltLiftedNextDay ==
    (engine = "up" /\ mem.halt = "daily" /\ Today > mem.lastDay)
        ~> (mem.halt = "none" \/ engine # "up")
=============================================================================

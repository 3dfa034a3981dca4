----------------------------- MODULE EngineLoop -----------------------------
(***************************************************************************)
(* The life of the trading engine around its connection: the supervisor    *)
(* (server.py) starts it, start() connects without a time limit, the loop  *)
(* (_run_loop of live_loop.py) runs in stages that are cancelled when they *)
(* take too long, and the connection watchdog works beside it in the same  *)
(* event loop.  What the stages do with the broker are requests here;      *)
(* their trading side is in the other modules.                             *)
(*                                                                         *)
(* A tick polls all its timeframes at once (asyncio.gather): the first is  *)
(* asked for by the engine itself, each other one by a poller.             *)
(***************************************************************************)
EXTENDS Connection

CONSTANTS Engine, Watchdog,
          Pollers       \* the timeframes polled beside the first

ASSUME EngineAssumption ==
    /\ Tasks = {Engine, Watchdog} \cup Pollers
    /\ Engine # Watchdog /\ {Engine, Watchdog} \cap Pollers = {}

VARIABLES
    stage,      \* where the engine is
    paused,     \* engine.paused
    watching,   \* the watchdog task exists
    failures    \* status checks of the watchdog that failed in a row, 0 or 1

loopVars == <<stage, paused>>
watchVars == <<watching, failures>>
vars == <<connectionVars, loopVars, watchVars>>

Stages == {"down", "start", "checks", "restore", "commands", "restart_mt5",
           "check", "work", "ending", "closing"}

(* Mutant of Limited: start() is limited like a stage. *)
LimitedFromStart == Stages \ {"down", "ending", "closing"}

(* The stages that _run_stage limits; of "restore" only the startup        *)
(* trailing sync.                                                          *)
Limited == {"restore", "commands", "restart_mt5", "check", "work"}

At(s) == stage' = s

EngineOut == Quiet /\ call[Engine].at = "out"

(* asyncio.gather is done with its pollers. *)
PollersOut == \A p \in Pollers : call[p].at = "out"

(* The connector call of the engine has ended, with this result. *)
Done(result) ==
    /\ call[Engine].at = result
    /\ Go(Engine, Idle)
    /\ UNCHANGED <<conn, lock, sessions, lost, world, calm>>

-----------------------------------------------------------------------------
(* The watchdog: every 30 s, if it does not still wait for something.      *)

Wakes ==
    /\ Quiet
    /\ watching
    /\ call[Watchdog].at = "out"
    /\ ~(conn.connected /\ conn.fresh)
    /\ IF ~conn.connected \/ conn.id = NoId
       THEN EnsureConnected(Watchdog, conn, Idle)
       ELSE /\ Go(Watchdog, [Idle EXCEPT !.at = "probe", !.id = conn.id])
            /\ UNCHANGED <<conn, lock>>
    /\ UNCHANGED <<sessions, lost, world, calm, loopVars, watchVars>>

ProbeAlive ==
    /\ Quiet
    /\ call[Watchdog].at = "probe"
    /\ call[Watchdog].id \in sessions
    /\ failures' = 0
    /\ Go(Watchdog, Idle)
    /\ UNCHANGED <<conn, lock, sessions, lost, world, calm, loopVars, watching>>

(* The second failure forgets the session in force and connects again. *)
ProbeFails ==
    /\ Quiet
    /\ call[Watchdog].at = "probe"
    /\ ~calm \/ call[Watchdog].id \notin sessions
    /\ IF failures = 0
       THEN /\ failures' = 1
            /\ Go(Watchdog, Idle)
            /\ UNCHANGED <<conn, lock, lost>>
       ELSE /\ failures' = 0
            /\ lost' = Forgotten
            /\ EnsureConnected(Watchdog, Invalidated, Idle)
    /\ UNCHANGED <<sessions, world, calm, loopVars, watching>>

WatchdogGoesOn ==
    /\ call[Watchdog].at \in {"yes", "no"}
    /\ Go(Watchdog, Idle)
    /\ UNCHANGED <<conn, lock, sessions, lost, world, calm, loopVars, watchVars>>

WatchdogStep ==
    \/ Wakes \/ ProbeAlive \/ ProbeFails \/ WatchdogGoesOn
    \/ ConnectStep(Watchdog) /\ UNCHANGED <<loopVars, watchVars>>

-----------------------------------------------------------------------------
(* start(): connect, check the symbol, start the watchdog, restore.        *)

Start ==
    /\ Quiet
    /\ stage = "down"
    /\ ConnectWithRetry(Engine, conn, Idle, StartAttempts)
    /\ At("start")
    /\ paused' \in BOOLEAN
    /\ UNCHANGED <<sessions, lost, world, calm, watchVars>>

Started ==
    /\ stage = "start"
    /\ Done("yes")
    /\ At("checks")
    /\ UNCHANGED <<paused, watchVars>>

NotStarted ==
    /\ stage = "start"
    /\ Done("no")
    /\ At("ending")
    /\ UNCHANGED <<paused, watchVars>>

WatchdogStarts ==
    /\ EngineOut
    /\ stage = "checks"
    /\ watching' = TRUE /\ failures' = 0
    /\ At("restore")
    /\ UNCHANGED <<connectionVars, paused>>

EnterLoop ==
    /\ EngineOut
    /\ stage = "restore"
    /\ At("commands")
    /\ UNCHANGED <<connectionVars, paused, watchVars>>

(* The requests of a stage. *)
Asks ==
    /\ EngineOut
    /\ stage \in {"checks", "restore", "work"}
    /\ Ask(Engine)
    /\ UNCHANGED <<sessions, lost, world, calm, loopVars, watchVars>>

AskAnswered ==
    /\ stage \in {"checks", "restore", "work"}
    /\ Done("yes")
    /\ UNCHANGED <<loopVars, watchVars>>

(* A request without an answer ends the engine, or is done without (as a   *)
(* poll always is).                                                        *)
AskFailed ==
    /\ stage \in {"checks", "restore", "work"}
    /\ Done("no")
    /\ stage' \in {stage} \cup (IF PollersOut THEN {"ending"} ELSE {})
    /\ UNCHANGED <<paused, watchVars>>

(* fetch_candles waits 30 s for a connection, and no longer. *)
CandlesWaitEnds(t) ==
    /\ Quiet
    /\ stage \in {"restore", "work"}
    /\ call[t].use = "request"
    /\ \/ call[t].at \in Connecting
       \/ ~calm /\ call[t].at = "status"
    /\ Cancel(t, [Idle EXCEPT !.at = "no"])
    /\ UNCHANGED <<conn, world, calm, loopVars, watchVars>>

-----------------------------------------------------------------------------
(* The pollers of _check_new_bars.  A poll makes any number of requests,   *)
(* and none of them fails the stage.                                       *)

Polls(p) ==
    /\ world.gathers
    /\ Quiet
    /\ stage = "work"
    /\ call[p].at = "out"
    /\ Ask(p)
    /\ UNCHANGED <<sessions, lost, world, calm, loopVars, watchVars>>

Polled(p) ==
    /\ call[p].at \in {"yes", "no"}
    /\ Go(p, Idle)
    /\ UNCHANGED <<conn, lock, sessions, lost, world, calm, loopVars, watchVars>>

(* A stage that is cancelled cancels what it gathers, one after another,   *)
(* and waits for it.                                                       *)
PollCancelled(p) ==
    /\ Quiet
    /\ stage = "ending"
    /\ call[p].at # "out"
    /\ Cancel(p, Idle)
    /\ UNCHANGED <<conn, world, calm, loopVars, watchVars>>

PollerStep(p) ==
    \/ Polls(p) \/ Polled(p) \/ CandlesWaitEnds(p) \/ PollCancelled(p)
    \/ /\ stage = "work"
       /\ ConnectStep(p) \/ RequestStep(p)
       /\ UNCHANGED <<loopVars, watchVars>>

-----------------------------------------------------------------------------
(* The loop: commands, the connection check unless paused, the work.       *)

(* A restart_engine command of a tick only clears engine.running, which is *)
(* looked at when the tick has come to its end.                            *)
Head == stage' \in {"commands", "ending"}

(* The commands of a tick: pause and resume (or a halt that pauses). *)
PauseOrResume ==
    /\ EngineOut
    /\ stage = "commands"
    /\ paused' = ~paused
    /\ UNCHANGED <<connectionVars, stage, watchVars>>

(* After the commands. *)
AfterCommands ==
    IF paused
    THEN Head /\ UNCHANGED <<conn, lock>> /\ Go(Engine, Idle)
    ELSE At("check") /\ EnsureConnected(Engine, conn, Idle)

CommandsDone ==
    /\ EngineOut
    /\ stage = "commands"
    /\ AfterCommands
    /\ UNCHANGED <<sessions, lost, world, calm, paused, watchVars>>

RestartMt5 ==
    /\ ~calm
    /\ EngineOut
    /\ stage = "commands"
    /\ Disconnect(Engine)
    /\ At("restart_mt5")
    /\ UNCHANGED <<sessions, lost, world, calm, paused, watchVars>>

RestartMt5Done ==
    /\ stage = "restart_mt5"
    /\ call[Engine].at = "yes"
    /\ AfterCommands
    /\ UNCHANGED <<sessions, lost, world, calm, paused, watchVars>>

Checked ==
    /\ stage = "check"
    /\ Done("yes")
    /\ At("work")
    /\ UNCHANGED <<paused, watchVars>>

(* No connection: back off, and on to the next tick. *)
NotConnected ==
    /\ stage = "check"
    /\ Done("no")
    /\ Head
    /\ UNCHANGED <<paused, watchVars>>

EndOfTick ==
    /\ EngineOut /\ PollersOut
    /\ stage = "work"
    /\ Head
    /\ UNCHANGED <<connectionVars, paused, watchVars>>

(* _run_stage: a stage that takes too long is cancelled, and ends the      *)
(* engine.  A bridge that answers keeps within the limit, but a handshake  *)
(* may take longer than that: up to 150 s until the broker is ready.       *)
StageTimeout ==
    /\ Quiet
    /\ stage \in Limited
    /\ \E t \in {Engine} \cup Pollers :
           \/ call[t].at \in Connecting
           \/ ~calm /\ call[t].at # "out"
    /\ Cancel(Engine, Idle)
    /\ At("ending")
    /\ UNCHANGED <<conn, world, calm, paused, watchVars>>

-----------------------------------------------------------------------------
(* The end of an engine: whatever it was, the watchdog is cancelled and    *)
(* the connection closed (_run_loop, start, _run_robot_once), and after a  *)
(* pause the supervisor starts the next.                                   *)

EndWatchdog ==
    /\ EngineOut /\ PollersOut
    /\ stage = "ending" /\ watching
    /\ Cancel(Watchdog, Idle)
    /\ watching' = FALSE /\ failures' = 0
    /\ UNCHANGED <<conn, world, calm, loopVars>>

(* Mutant of EndConnection: the watchdog is left running. *)
EndConnectionOnly ==
    /\ EngineOut /\ PollersOut
    /\ stage = "ending"
    /\ Disconnect(Engine)
    /\ At("closing")
    /\ UNCHANGED <<sessions, lost, world, calm, paused, watchVars>>

EndConnection ==
    /\ EngineOut /\ PollersOut
    /\ stage = "ending" /\ ~watching
    /\ Disconnect(Engine)
    /\ At("closing")
    /\ UNCHANGED <<sessions, lost, world, calm, paused, watchVars>>

Ended ==
    /\ stage = "closing"
    /\ Done("yes")
    /\ At("down")
    /\ paused' = FALSE
    /\ UNCHANGED watchVars

(* The process is killed, and started again by its host. *)
ProcessDies ==
    /\ ~calm
    /\ stage # "down"
    /\ conn' = NoConn /\ lock' = NoTask
    /\ call' = [t \in Tasks |-> Idle]
    /\ lost' = sessions
    /\ At("down")
    /\ paused' = FALSE
    /\ watching' = FALSE /\ failures' = 0
    /\ UNCHANGED <<sessions, world, calm>>

-----------------------------------------------------------------------------
Init ==
    /\ ConnectionInit
    /\ stage = "down"
    /\ paused = FALSE
    /\ watching = FALSE /\ failures = 0

EngineStep ==
    \/ Start \/ Started \/ NotStarted \/ WatchdogStarts \/ EnterLoop
    \/ Asks \/ AskAnswered \/ AskFailed \/ CandlesWaitEnds(Engine)
    \/ CommandsDone \/ RestartMt5Done
    \/ Checked \/ NotConnected \/ EndOfTick
    \/ StageTimeout
    \/ EndWatchdog \/ EndConnection \/ Ended
    \/ /\ ConnectStep(Engine) \/ CloseStep(Engine) \/ RequestStep(Engine)
       /\ UNCHANGED <<loopVars, watchVars>>

Operator == PauseOrResume \/ RestartMt5

Next ==
    \/ EngineStep
    \/ \E p \in Pollers : PollerStep(p)
    \/ Operator
    \/ WatchdogStep
    \/ BridgeStep /\ UNCHANGED <<loopVars, watchVars>>
    \/ ProcessDies

Spec == Init /\ [][Next]_vars

(* Engine and watchdog are scheduled, every await ends, time passes, and a *)
(* stage has finitely many requests.  Nothing is said of pollers.          *)
FairSpec ==
    /\ Spec
    /\ SF_vars(EngineStep)
    /\ SF_vars(WatchdogStep \/ (BridgeStep /\ GraceEnds /\ UNCHANGED <<loopVars, watchVars>>))
    /\ SF_vars(WatchdogStarts \/ EnterLoop \/ EndOfTick)

-----------------------------------------------------------------------------
TypeOK ==
    /\ conn \in [id : Ids \cup {NoId}, connected : BOOLEAN, base : BOOLEAN,
                 fresh : BOOLEAN]
    /\ lock \in Tasks \cup {NoTask}
    /\ call \in [Tasks -> [at : Places, use : {"none", "request"},
                           id : Ids \cup {NoId}, prev : Ids \cup {NoId},
                           was : BOOLEAN, again : BOOLEAN,
                           left : 0..StartAttempts + EnsureAttempts]]
    /\ sessions \subseteq Ids /\ lost \subseteq sessions
    /\ world \in Worlds /\ calm \in BOOLEAN
    /\ stage \in Stages
    /\ paused \in BOOLEAN
    /\ watching \in BOOLEAN /\ failures \in 0..1

(* "Keeping the HTTP handshake under the reconnect lock": at most one task *)
(* opens or closes sessions at any time, whoever is cancelled.             *)
OneHandshake ==
    \A t \in Tasks : call[t].at \in Handshake \cup {"closing"} => lock = t

(* A session that the bridge holds and the robot has no name for was       *)
(* invalidated, or its opening or closing was cut off or not answered:     *)
(* otherwise a new one replaces the old.                                   *)
NothingElseLost ==
    sessions \ lost \subseteq
        {conn.id} \cup (IF lock = NoTask THEN {}
                        ELSE {call[lock].id, call[lock].prev})

(* While no engine runs, nothing touches the connection: no task is in the *)
(* connector, the lock is free and there is no session to trade with.      *)
QuietWhenDown ==
    stage = "down" =>
        /\ lock = NoTask /\ ~watching
        /\ conn.id = NoId /\ ~conn.connected
        /\ \A t \in Tasks : call[t] = Idle

(* Once the bridge answers again, there is again and again a living        *)
(* session and an engine that does its work with it, or is paused while    *)
(* the watchdog keeps the session -- although each handshake in a stage    *)
(* may run into the time limit and end the engine.                         *)
WorksAgain == calm ~> []<>(Live /\ (stage = "work" \/ paused))

(* _connect_unlocked: "Keeping the HTTP handshake under the reconnect lock *)
(* prevents a watchdog, retry loop, or manual reconnect from replacing the *)
(* same broker session concurrently": no handshake begins while the grace  *)
(* period of a living session runs that nobody invalidated.                *)
FreshSessionKept ==
    [][\A t \in Tasks :
           call[t].at # "connectex" /\ call'[t].at = "connectex"
           => ~(conn.fresh /\ call'[t].prev # NoId /\ call'[t].prev \in sessions)]_vars
=============================================================================

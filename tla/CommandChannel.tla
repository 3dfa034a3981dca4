--------------------------- MODULE CommandChannel ---------------------------
(***************************************************************************)
(* How an operator's command travels from the Telegram panel to the        *)
(* trading loop: one dictionary in Redis that both processes read, change  *)
(* and write back (live_trading/redis_ipc.py), a POST /command endpoint of *)
(* the robot (server.py), and a command file in two formats                *)
(* (utils/state_writer.py).  The loop reads a batch, acts on one key after *)
(* another in a fixed order and clears each key after its action           *)
(* (_process_commands).                                                    *)
(*                                                                         *)
(* A dictionary is the set of the commands it holds, at most one per key.  *)
(* A step is what runs between two points where the other process, or      *)
(* another task of the same one, can get in between: every Redis call, the *)
(* two halves of a file update, and the awaits inside an action.           *)
(***************************************************************************)
EXTENDS Naturals, Sequences, SequencesExt

CONSTANTS Commands,    \* the commands operators send, each once
          KeyOf,       \* [Commands -> Keys]: the engine key a command sets
          NoCommand,
          Ttl,         \* ticks a command stays fresh: 300 s, Redis and file
          Worlds,      \* the worlds to look at:
                       \*   shared: panel and robot run on one machine
                       \*   aging: commands may grow old
          Outages,     \* may Redis connections fail
          Crashes      \* may the engine die in the middle of a tick

(* The keys in the order in which _process_commands tests them. *)
Order == <<"pause", "resume", "stop", "close_all", "reset_guardian", "start",
           "restart_engine", "restart_mt5", "restart_telegram",
           "update_risk", "update_strategy">>
Keys == ToSet(Order)

(* The keys the file's translation table knows. *)
FileKeys == Keys \ {"update_risk", "update_strategy"}

(* Actions that give the event loop away before the key is cleared. *)
AwaitKeys == {"close_all", "reset_guardian", "restart_mt5"}

ASSUME CommandsAssumption ==
    /\ NoCommand \notin Commands
    /\ KeyOf \in [Commands -> Keys]
    /\ Ttl \in Nat \ {0}
    /\ Worlds \subseteq [shared : BOOLEAN, aging : BOOLEAN]
    /\ Outages \in BOOLEAN /\ Crashes \in BOOLEAN

VARIABLES
    world,      \* the world this behaviour is in
    redis,      \* [cmds, left]: the dictionary, and ticks until it expires
    file,       \* the robot's command file: a list of commands or a dictionary
    panelUp,    \* the panel's Redis client works
    robotUp,    \* the robot's Redis client works
    send,       \* where each command's sending is, and what it has read
    robot,      \* [pc, cmd, got]: where the loop is in its batch
    todo,       \* commands of the batch still to act on
    paused,     \* engine.paused
    age,        \* ticks since a command's file entry was last stamped, up to
                \* one past Ttl: where it is old, or has no stamp
    runs,       \* history: how often a command was acted on, up to 2
    deferred,   \* history: commands left over because their batch had a pause
    uncleared,  \* history: acted on, and still stored when clearing was over
    copied,     \* history: stored a second time, in the other store or again,
                \* or stored by a call whose answer was lost
    raced,      \* history: lost or brought back by a write based on an old read
    swept,      \* history: cleared with an earlier command of the same key
    gone        \* history: expired, replaced by a later command, or not stored

panelVars == <<world, send, panelUp>>
robotVars == <<robot, todo, paused, robotUp>>
history == <<runs, deferred, uncleared, copied, raced, swept, gone>>
vars == <<redis, file, panelVars, robotVars, age, history>>

-----------------------------------------------------------------------------
(* Dictionaries and the two file formats.                                  *)

Put(d, c) == {x \in d : KeyOf[x] # KeyOf[c]} \cup {c}

Without(d, k) == {x \in d : KeyOf[x] # k}
Replaced(d, c) == {x \in d : KeyOf[x] = KeyOf[c]} \ {c}

List(s) == [kind |-> "list", items |-> s]
Dict(d) == [kind |-> "dict", items |-> d]

(* The file part of read_commands: a dictionary is taken as it is; of a    *)
(* list the known keys that are not stale, the last entry for a key wins.  *)
Readable(c) == KeyOf[c] \in FileKeys /\ age[c] <= Ttl
FileCommands(f) ==
    IF f.kind = "dict" THEN f.items
    ELSE {c \in ToSet(f.items) :
              /\ Readable(c)
              /\ \E i \in DOMAIN f.items :
                    /\ f.items[i] = c
                    /\ \A j \in DOMAIN f.items :
                          j > i /\ Readable(f.items[j]) => KeyOf[f.items[j]] # KeyOf[c]}

(* What a write based on the reading "old" changes besides its own command. *)
Missed(old, now) == (old \ now) \cup (now \ old)

InFile(f) == IF f.kind = "dict" THEN f.items ELSE ToSet(f.items)

(* Both writers of the list format start from an empty list when they find *)
(* anything but a list.                                                    *)
Appended(f, c) == List(Append(IF f.kind = "list" THEN f.items ELSE <<>>, c))

(* What Appended throws away. *)
Dropped(f) == IF f.kind = "dict" THEN f.items ELSE {}

ReadCommands == IF robotUp THEN redis.cmds ELSE FileCommands(file)

SetRedis(d) == redis' = [cmds |-> d, left |-> Ttl]

-----------------------------------------------------------------------------
(* The panel: RobotService._send_command.  Sends of several commands       *)
(* overlap, except that redis_send_command does not yield between its GET  *)
(* and its SET.                                                            *)

Quiet == \A c \in Commands : send[c].at # "set"
Goes(c, at, snap) == send' = [send EXCEPT ![c] = [at |-> at, snap |-> snap]]

(* redis_send_command: GET ... *)
SendGet(c) ==
    /\ Quiet
    /\ send[c].at = "new"
    /\ IF panelUp THEN Goes(c, "set", redis.cmds) ELSE Goes(c, "http", {})
    /\ UNCHANGED <<redis, file, world, panelUp, robotVars, age, history>>

(* ... and SET, or an exception and on to the next channel.                *)
SendSet(c) ==
    /\ send[c].at = "set"
    /\ IF panelUp
       THEN /\ SetRedis(Put(send[c].snap, c))
            /\ Goes(c, "sent", {})
            /\ gone' = gone \cup Replaced(send[c].snap, c)
            /\ raced' = raced \cup Missed(send[c].snap, redis.cmds)
       ELSE /\ Goes(c, "http", {})
            /\ UNCHANGED <<redis, gone, raced>>
    /\ UNCHANGED <<file, world, panelUp, robotVars, age, runs, deferred, uncleared,
                   copied, swept>>

(* The SET lands, but its answer is lost: the client is thrown away and    *)
(* the command goes on to the next channel although it is stored.  (A lost *)
(* answer to the robot's SET is ClearSet and then RobotConnection:         *)
(* clear_command does not look at what redis_clear_command returns.)       *)
SendSetLost(c) ==
    /\ Outages
    /\ send[c].at = "set" /\ panelUp
    /\ SetRedis(Put(send[c].snap, c))
    /\ Goes(c, "http", {})
    /\ panelUp' = FALSE
    /\ copied' = copied \cup {c}
    /\ gone' = gone \cup Replaced(send[c].snap, c)
    /\ raced' = raced \cup Missed(send[c].snap, redis.cmds)
    /\ UNCHANGED <<file, world, robotVars, age, runs, deferred, uncleared, swept>>

(* POST /command runs in the robot's event loop, so only where the loop    *)
(* waits: between ticks and inside an action that awaits.                  *)
RobotWaits ==
    \/ robot.pc = "idle"
    \/ robot.pc = "get" /\ KeyOf[robot.cmd] \in AwaitKeys

(* The handler mirrors the command into Redis if it can and appends it,    *)
(* with the time of its own, to the file in any case.  The answer may be   *)
(* lost.                                                                   *)
HttpAccept(c, answered) ==
    /\ Quiet
    /\ send[c].at = "http"
    /\ RobotWaits
    /\ IF robotUp
       THEN /\ SetRedis(Put(redis.cmds, c))
            /\ gone' = gone \cup Replaced(redis.cmds, c) \cup Dropped(file)
       ELSE /\ gone' = gone \cup Dropped(file)
            /\ UNCHANGED redis
    /\ file' = Appended(file, c)
    /\ copied' = IF robotUp \/ ~answered THEN copied \cup {c} ELSE copied
    /\ Goes(c, IF answered THEN "sent" ELSE "file", {})
    /\ age' = [age EXCEPT ![c] = 0]
    /\ UNCHANGED <<world, panelUp, robotVars, runs, deferred, uncleared, raced, swept>>

(* The entry for the file is stamped when the other channels have failed.  *)
HttpFails(c) ==
    /\ Quiet
    /\ send[c].at = "http"
    /\ Goes(c, "file", {})
    /\ age' = [age EXCEPT ![c] = 0]
    /\ UNCHANGED <<redis, file, world, panelUp, robotVars, history>>

(* The last resort is a file on the panel's own machine, and always        *)
(* reported as sent.                                                       *)
FileElsewhere(c) ==
    /\ ~world.shared
    /\ Quiet
    /\ send[c].at = "file"
    /\ Goes(c, "sent", {})
    /\ gone' = gone \cup ({c} \ copied)
    /\ UNCHANGED <<redis, file, world, panelUp, robotVars, age, runs, deferred,
                   uncleared, copied, raced, swept>>

(* On a shared machine it is the robot's file, updated in another thread.  *)
FileRead(c) ==
    /\ world.shared
    /\ Quiet
    /\ send[c].at = "file"
    /\ Goes(c, "write", file)
    /\ UNCHANGED <<redis, file, world, panelUp, robotVars, age, history>>

FileWrite(c) ==
    /\ send[c].at = "write"
    /\ file' = Appended(send[c].snap, c)
    /\ Goes(c, "sent", {})
    /\ gone' = gone \cup Dropped(send[c].snap)
    /\ raced' = raced \cup Missed(InFile(send[c].snap), InFile(file))
    /\ UNCHANGED <<redis, world, panelUp, robotVars, age, runs, deferred, uncleared,
                   copied, swept>>

-----------------------------------------------------------------------------
(* The robot: _process_commands and clear_command.                         *)

At(pc, cmd, got) == robot' = [pc |-> pc, cmd |-> cmd, got |-> got]

(* Mutant of Deferred: a resume or start always waits. *)
DeferredAlways(batch) == {c \in batch : KeyOf[c] \in {"resume", "start"}}

(* A pause in the batch goes before a resume or a start in it: these are   *)
(* neither acted on nor cleared.                                           *)
Deferred(batch) ==
    {c \in batch : /\ KeyOf[c] \in {"resume", "start"}
                   /\ \E p \in batch : KeyOf[p] = "pause"}

Poll ==
    /\ robot.pc = "idle"
    /\ ReadCommands # {}
    /\ todo' = ReadCommands \ Deferred(ReadCommands)
    /\ At("work", NoCommand, {})
    /\ deferred' = deferred \cup Deferred(ReadCommands)
    /\ UNCHANGED <<redis, file, panelVars, paused, robotUp, age, runs,
                   uncleared, copied, raced, swept, gone>>

Before(k, l) ==
    \E i, j \in 1..Len(Order) : i < j /\ Order[i] = k /\ Order[j] = l

(* Mutant of Act: the call of clear_command is missing. *)
ActWithoutClear(c) ==
    /\ robot.pc = "work"
    /\ c \in todo
    /\ todo' = todo \ {c}
    /\ runs' = [runs EXCEPT ![c] = IF @ = 2 THEN 2 ELSE @ + 1]
    /\ At(IF todo = {c} THEN "idle" ELSE "work", NoCommand, {})
    /\ UNCHANGED <<redis, file, panelVars, paused, robotUp, age, deferred,
                   uncleared, copied, raced, swept, gone>>

(* The next action of the batch.  The risk guardian is not halted here.    *)
Act(c) ==
    /\ robot.pc = "work"
    /\ c \in todo
    /\ \A d \in todo \ {c} : ~Before(KeyOf[d], KeyOf[c])
    /\ todo' = todo \ {c}
    /\ paused' = CASE KeyOf[c] = "pause" -> TRUE
                   [] KeyOf[c] \in {"resume", "start"} -> FALSE
                   [] OTHER -> paused
    /\ runs' = [runs EXCEPT ![c] = IF @ = 2 THEN 2 ELSE @ + 1]
    /\ At("get", c, {})
    /\ UNCHANGED <<redis, file, panelVars, robotUp, age, deferred, uncleared,
                   copied, raced, swept, gone>>

(* redis_clear_command: GET ... *)
ClearGet ==
    /\ robot.pc = "get"
    /\ IF robotUp THEN At("set", robot.cmd, redis.cmds)
                  ELSE At("reread", robot.cmd, {})
    /\ UNCHANGED <<redis, file, panelVars, todo, paused, robotUp, age, history>>

(* Mutant of ClearSet: the whole dictionary is thrown away. *)
ClearSetAll ==
    /\ robot.pc = "set"
    /\ SetRedis({})
    /\ At("reread", robot.cmd, {})
    /\ UNCHANGED <<file, panelVars, todo, paused, robotUp, age, history>>

(* Mutant of ClearSet: the key stays. *)
ClearSetNothing ==
    /\ robot.pc = "set"
    /\ At("reread", robot.cmd, {})
    /\ UNCHANGED <<redis, file, panelVars, todo, paused, robotUp, age, history>>

(* ... and SET without the key, if the key was there: whatever command     *)
(* holds it by now.                                                        *)
ClearSet ==
    LET k == KeyOf[robot.cmd]
        mine == Without(robot.got, k)
    IN  /\ robot.pc = "set"
        /\ IF mine # robot.got /\ robotUp
           THEN /\ SetRedis(mine)
                /\ raced' = raced \cup Missed(robot.got, redis.cmds)
                /\ swept' = swept \cup Replaced(robot.got, robot.cmd)
           ELSE UNCHANGED <<redis, raced, swept>>
        /\ At("reread", robot.cmd, {})
        /\ UNCHANGED <<file, panelVars, todo, paused, robotUp, age, runs,
                       deferred, uncleared, copied, gone>>

(* Clearing is over.  "left" is what the file holds then. *)
Finished(left) ==
    /\ IF todo = {} THEN At("idle", NoCommand, {})
                    ELSE At("work", NoCommand, {})
    /\ uncleared' = uncleared \cup ({robot.cmd} \cap (redis.cmds \cup InFile(left)))

(* The second half of clear_command reads with read_commands again -- the  *)
(* file only if Redis is out of reach -- and writes if the key is there.   *)
(* What of the file this reading does not show will be gone then.          *)
ClearReread ==
    LET cmds == ReadCommands
        mine == Without(cmds, KeyOf[robot.cmd])
        unseen == IF robotUp THEN {} ELSE InFile(file) \ cmds
    IN  /\ robot.pc = "reread"
        /\ IF mine = cmds
           THEN Finished(file) /\ UNCHANGED <<swept, gone>>
           ELSE /\ At("write", robot.cmd, mine)
                /\ swept' = swept \cup Replaced(cmds, robot.cmd)
                /\ gone' = gone \cup (unseen \ {robot.cmd})
                /\ UNCHANGED uncleared
        /\ UNCHANGED <<redis, file, panelVars, todo, paused, robotUp, age,
                       runs, deferred, copied, raced>>

(* The rest is written to the file as a dictionary: without timestamps,    *)
(* and when it was read from Redis, with commands Redis still holds.       *)
ClearWrite ==
    /\ robot.pc = "write"
    /\ file' = Dict(robot.got)
    /\ copied' = copied \cup (robot.got \cap redis.cmds)
    /\ raced' = raced \cup (InFile(file) \ (robot.got \cup {robot.cmd}))
    /\ Finished(file')
    /\ UNCHANGED <<redis, panelVars, todo, paused, robotUp, age, runs,
                   deferred, swept, gone>>

(* The engine dies and is started again, unpaused. *)
EngineDies ==
    /\ Crashes
    /\ robot.pc # "idle"
    /\ uncleared' = uncleared \cup ({robot.cmd} \cap (redis.cmds \cup InFile(file)))
    /\ At("idle", NoCommand, {})
    /\ todo' = {}
    /\ paused' = FALSE
    /\ UNCHANGED <<redis, file, panelVars, robotUp, age, runs, deferred,
                   copied, raced, swept, gone>>

-----------------------------------------------------------------------------
(* The environment.                                                        *)

PanelConnection ==
    /\ Outages
    /\ panelUp' = ~panelUp
    /\ UNCHANGED <<world, redis, file, send, robotVars, age, history>>

RobotConnection ==
    /\ Outages
    /\ robotUp' = ~robotUp
    /\ UNCHANGED <<redis, file, panelVars, robot, todo, paused, age, history>>

(* Time passes: the dictionary expires as a whole, Ttl ticks after the     *)
(* last SET, and a list entry Ttl ticks after it was issued.               *)
Tick ==
    /\ world.aging
    /\ redis.left > 0 \/ \E c \in Commands : age[c] <= Ttl
    /\ age' = [c \in Commands |-> IF age[c] <= Ttl THEN age[c] + 1 ELSE age[c]]
    /\ redis' = IF redis.left <= 1 THEN [cmds |-> {}, left |-> 0]
                ELSE [redis EXCEPT !.left = @ - 1]
    /\ gone' = gone \cup (IF redis.left <= 1 THEN redis.cmds ELSE {})
                    \cup (IF file.kind = "list"
                          THEN {c \in ToSet(file.items) : age[c] = Ttl} ELSE {})
    /\ UNCHANGED <<file, panelVars, robotVars, runs, deferred, uncleared,
                   copied, raced, swept>>

-----------------------------------------------------------------------------
Init ==
    /\ world \in Worlds
    /\ redis = [cmds |-> {}, left |-> 0]
    /\ file = List(<<>>)
    /\ panelUp = TRUE /\ robotUp = TRUE
    /\ send = [c \in Commands |-> [at |-> "new", snap |-> {}]]
    /\ robot = [pc |-> "idle", cmd |-> NoCommand, got |-> {}]
    /\ todo = {}
    /\ paused = FALSE
    /\ age = [c \in Commands |-> Ttl + 1]
    /\ runs = [c \in Commands |-> 0]
    /\ deferred = {} /\ uncleared = {} /\ copied = {}
    /\ raced = {} /\ swept = {} /\ gone = {}

Deliver(c) ==
    \/ SendSet(c) \/ SendSetLost(c)
    \/ \E answered \in BOOLEAN : HttpAccept(c, answered)
    \/ HttpFails(c)
    \/ FileElsewhere(c)
    \/ FileRead(c)
    \/ FileWrite(c)

RobotStep ==
    \/ Poll
    \/ \E c \in Commands : Act(c)
    \/ ClearGet \/ ClearSet \/ ClearReread \/ ClearWrite

Next ==
    \/ \E c \in Commands : SendGet(c) \/ Deliver(c)
    \/ RobotStep
    \/ EngineDies
    \/ PanelConnection \/ RobotConnection
    \/ Tick

Spec == Init /\ [][Next]_vars

(* The loop polls for ever, and a send that was begun goes on. *)
FairSpec ==
    /\ Spec
    /\ WF_vars(RobotStep)
    /\ \A c \in Commands : WF_vars(Deliver(c))

-----------------------------------------------------------------------------
(* Properties.                                                             *)

TypeOK ==
    /\ world \in Worlds
    /\ redis \in [cmds : SUBSET Commands, left : 0..Ttl]
    /\ InFile(file) \subseteq Commands
    /\ panelUp \in BOOLEAN /\ robotUp \in BOOLEAN /\ paused \in BOOLEAN
    /\ \A c \in Commands :
           send[c].at \in {"new", "set", "http", "file", "write", "sent"}
    /\ robot.pc \in {"idle", "work", "get", "set", "reread", "write"}
    /\ robot.cmd \in Commands \cup {NoCommand}
    /\ robot.got \subseteq Commands /\ todo \subseteq Commands
    /\ age \in [Commands -> 0..Ttl + 1] /\ runs \in [Commands -> 0..2]
    /\ UNION {deferred, uncleared, copied, raced, swept, gone} \subseteq Commands
    \* one command per key in every dictionary
    /\ \A d \in {redis.cmds, robot.got, todo} :
           \A x, y \in d : KeyOf[x] = KeyOf[y] => x = y

Stored == redis.cmds \cup InFile(file)

(* A command is acted on twice only if its clearing left it stored, it was *)
(* stored twice or by a call whose answer was lost, or a write based on an *)
(* old read brought it back.                                               *)
RepeatHasCause ==
    \A c \in Commands : runs[c] = 2 => c \in uncleared \cup copied \cup raced

(* A command that was sent and is nowhere any more was acted on, or        *)
(* expired, was replaced by a later one, never reached the robot, was      *)
(* cleared with another of its key, or lost to a write based on an old     *)
(* read.                                                                   *)
LossHasCause ==
    \A c \in Commands :
        send[c].at = "sent" /\ c \notin Stored \cup todo /\ runs[c] = 0
        => c \in gone \cup swept \cup raced

(* With Redis up on both sides and an engine that lives, only a write of   *)
(* the panel that raced with a clearing can repeat a command.              *)
OnceUnlessRaced == \A c \in Commands : runs[c] = 2 => c \in raced

(* And a command is never lost between the two while nothing races: every  *)
(* command sent is acted on in the end, or was legitimately overtaken.     *)
SentIsActedOn ==
    \A c \in Commands :
        send[c].at # "new" ~> runs[c] > 0 \/ c \in gone \cup swept \cup raced

(* live_loop.py: "pause" takes priority over "resume" if both appear       *)
(* simultaneously, so a resume or start that appeared with a pause does    *)
(* not lift it.                                                            *)
PauseBeatsResume ==
    [][paused /\ ~paused' /\ robot.pc = "work" => robot'.cmd \notin deferred]_vars
=============================================================================

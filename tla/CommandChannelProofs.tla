------------------------ MODULE CommandChannelProofs ------------------------
(***************************************************************************)
(* Why a command is repeated or lost only for the listed causes, for any   *)
(* commands, outages, crashes and interleavings of panel and robot.  A     *)
(* command that was acted on and has no cause to come back is in no store  *)
(* and in no reading of the robot, unless it is just being cleared; what a *)
(* late write of an old reading brings back counts as raced.  And whatever *)
(* leaves the stores was acted on or leaves for a cause.  Where Redis      *)
(* always works and the engine lives, races are all that is left.          *)
(***************************************************************************)
EXTENDS CommandChannel, SequenceTheorems, TLAPS

(* A dictionary, and what the command file may be. *)
OnePerKey(d) == \A x, y \in d : KeyOf[x] = KeyOf[y] => x = y

Files ==
    [kind : {"list"}, items : Seq(Commands)]
        \cup [kind : {"dict"}, items : {d \in SUBSET Commands : OnePerKey(d)}]

(* What a send has read between its two halves. *)
SendOK ==
    /\ DOMAIN send = Commands
    /\ \A c \in Commands :
           /\ send[c].at = "set" =>
                  send[c].snap \subseteq Commands /\ OnePerKey(send[c].snap)
           /\ send[c].at = "write" => send[c].snap \in Files

(* The dictionaries and what is in the file. *)
StoresOK ==
    /\ redis \in [cmds : SUBSET Commands, left : 0..Ttl] /\ OnePerKey(redis.cmds)
    /\ file \in Files

RobotOK ==
    /\ robotUp \in BOOLEAN /\ paused \in BOOLEAN
    /\ robot.pc \in {"idle", "work", "get", "set", "reread", "write"}
    /\ robot.cmd \in Commands \cup {NoCommand}
    /\ robot.got \subseteq Commands /\ OnePerKey(robot.got)
    /\ todo \subseteq Commands /\ OnePerKey(todo)

PanelOK ==
    /\ world \in Worlds /\ panelUp \in BOOLEAN
    /\ SendOK
    /\ \A c \in Commands :
           send[c].at \in {"new", "set", "http", "file", "write", "sent"}

HistoryOK ==
    /\ age \in [Commands -> 0..Ttl + 1] /\ runs \in [Commands -> 0..2]
    /\ UNION {deferred, uncleared, copied, raced, swept, gone} \subseteq Commands

TypeInv == StoresOK /\ RobotOK /\ PanelOK /\ HistoryOK

(* The robot is between acting on c and the end of its clearing. *)
Clearing(c) == robot.pc \in {"get", "set", "reread", "write"} /\ robot.cmd = c

(* The commands in the reading on which the send of d is based. *)
Snapped(d) ==
    IF send[d].at = "set" THEN send[d].snap
    ELSE IF send[d].at = "write" THEN InFile(send[d].snap) ELSE {}

(* Why a command may come back. *)
Causes == uncleared \cup copied \cup raced

(* What is being cleared was acted on. *)
Working ==
    robot.pc \in {"get", "set", "reread", "write"} =>
        /\ robot.cmd \in Commands
        /\ runs[robot.cmd] > 0 /\ robot.cmd \notin todo

(* Only what was sent, or stored by a call whose answer was lost, is       *)
(* anywhere.                                                               *)
Came(c) == send[c].at = "sent" \/ c \in copied
Origin ==
    /\ \A c \in Stored \cup todo \cup robot.got : Came(c)
    /\ \A d \in Commands : \A c \in Snapped(d) : Came(c)
    /\ \A c \in Commands : runs[c] > 0 => Came(c)

(* A command that was acted on and has no cause to come back is nowhere,   *)
(* or its clearing is under way.                                           *)
Spent ==
    \A c \in Commands :
        runs[c] > 0 /\ c \notin Causes =>
            c \notin todo /\ (Clearing(c) \/ c \notin Stored \cup robot.got)

(* What came is stored, was acted on, or is gone for a cause. *)
NotLost(c) == c \in Stored \/ runs[c] > 0 \/ c \in gone \cup swept \cup raced
Kept == \A c \in Commands : Came(c) => NotLost(c)

IInv == TypeInv /\ Working /\ Origin /\ Spent /\ Kept /\ RepeatHasCause

(* With Redis up on both sides every command goes through Redis alone. *)
Steady == panelUp /\ robotUp /\ \A c \in Commands : send[c].at \in {"new", "set", "sent"}
Direct ==
    /\ \A c \in redis.cmds \cup todo \cup robot.got : send[c].at = "sent"
    /\ \A d \in Commands : \A c \in Snapped(d) : send[c].at = "sent"
    /\ \A c \in Commands : runs[c] > 0 => send[c].at = "sent"

(* There a command that was acted on and did not race is not in Redis any  *)
(* more once its clearing has written; until then the clearing has read    *)
(* it.                                                                     *)
OnceSpent ==
    \A c \in Commands :
        runs[c] > 0 /\ c \notin raced =>
            /\ c \notin todo
            /\ Clearing(c) \/ c \notin redis.cmds \cup robot.got
            /\ Clearing(c) /\ robot.pc = "set" /\ c \in redis.cmds => c \in robot.got
            /\ Clearing(c) /\ robot.pc \in {"reread", "write"} => c \notin redis.cmds

-----------------------------------------------------------------------------
(* What the robot reads of the file is in it, one command per key. *)
LEMMA ReadFile ==
    ASSUME NEW f \in Files
    PROVE  FileCommands(f) \subseteq InFile(f) /\ InFile(f) \subseteq Commands
           /\ OnePerKey(FileCommands(f))
<1>1. CASE f.kind = "dict"
    BY <1>1 DEF Files, FileCommands, InFile
<1>2. CASE f.kind = "list"
    <2>1. /\ f.items \in Seq(Commands) /\ InFile(f) = {f.items[i] : i \in DOMAIN f.items}
          /\ DOMAIN f.items \subseteq Nat /\ \A i \in DOMAIN f.items : f.items[i] \in Commands
        BY <1>2 DEF Files, InFile, ToSet
    <2>2. FileCommands(f) \subseteq InFile(f)
        BY <1>2 DEF FileCommands, InFile
    <2>3. ASSUME NEW x \in FileCommands(f), NEW y \in FileCommands(f), KeyOf[x] = KeyOf[y]
          PROVE  x = y
        <3>1. PICK i \in DOMAIN f.items :
                 /\ f.items[i] = x /\ Readable(x)
                 /\ \A j \in DOMAIN f.items :
                      j > i /\ Readable(f.items[j]) => KeyOf[f.items[j]] # KeyOf[x]
            BY <1>2, <2>3 DEF FileCommands
        <3>2. PICK k \in DOMAIN f.items :
                 /\ f.items[k] = y /\ Readable(y)
                 /\ \A j \in DOMAIN f.items :
                      j > k /\ Readable(f.items[j]) => KeyOf[f.items[j]] # KeyOf[y]
            BY <1>2, <2>3 DEF FileCommands
        <3>3. ~(k > i) /\ ~(i > k)
            BY <2>3, <3>1, <3>2
        <3>. QED
            BY <2>1, <3>1, <3>2, <3>3
    <2>. QED
        BY <2>1, <2>2, <2>3 DEF OnePerKey
<1>. QED
    BY <1>1, <1>2 DEF Files

(* What an append leaves in the file. *)
LEMMA AppendFile ==
    ASSUME NEW f \in Files, NEW c \in Commands
    PROVE  /\ Appended(f, c) \in Files
           /\ InFile(Appended(f, c)) = (InFile(f) \ Dropped(f)) \cup {c}
<1>1. ASSUME NEW s \in Seq(Commands)
      PROVE  Append(s, c) \in Seq(Commands) /\ ToSet(Append(s, c)) = ToSet(s) \cup {c}
    <2>1. Append(s, c) \in Seq(Commands)
        OBVIOUS
    <2>2. /\ Len(s) \in Nat /\ DOMAIN Append(s, c) = 1..Len(s) + 1 /\ DOMAIN s = 1..Len(s)
          /\ Append(s, c)[Len(s) + 1] = c
          /\ \A i \in 1..Len(s) : Append(s, c)[i] = s[i]
        OBVIOUS
    <2>3. ToSet(Append(s, c)) \subseteq ToSet(s) \cup {c}
        BY <2>2 DEF ToSet
    <2>4. ToSet(s) \cup {c} \subseteq ToSet(Append(s, c))
        BY <2>2 DEF ToSet
    <2>. QED
        BY <2>1, <2>3, <2>4
<1>2. CASE f.kind = "list"
    BY <1>1, <1>2 DEF Files, Appended, InFile, Dropped, List
<1>3. CASE f.kind = "dict"
    <2>1. <<>> \in Seq(Commands) /\ ToSet(<<>>) = {}
        BY DEF ToSet
    <2>. QED
        BY <1>1, <1>3, <2>1 DEF Files, Appended, InFile, Dropped, List
<1>. QED
    BY <1>2, <1>3 DEF Files

(* What a new command does to a dictionary. *)
LEMMA PutOne ==
    ASSUME NEW d \in SUBSET Commands, OnePerKey(d), NEW c \in Commands
    PROVE  /\ Put(d, c) \in SUBSET Commands /\ OnePerKey(Put(d, c))
           /\ Put(d, c) = (d \ Replaced(d, c)) \cup {c}
    BY DEF Put, Replaced, OnePerKey

(* What clearing a key does to one. *)
LEMMA WithoutOne ==
    ASSUME NEW d \in SUBSET Commands, OnePerKey(d), NEW k
    PROVE  /\ Without(d, k) \in SUBSET d /\ OnePerKey(Without(d, k))
           /\ \A c : c \in Without(d, k) <=> c \in d /\ KeyOf[c] # k
    BY DEF Without, OnePerKey

(* What the robot reads is stored. *)
LEMMA ReadsAreTyped ==
    ASSUME TypeInv
    PROVE  /\ ReadCommands \subseteq Stored /\ Stored \subseteq Commands
           /\ OnePerKey(ReadCommands)
    BY ReadFile DEF TypeInv, StoresOK, ReadCommands, Stored

(* A step of a send changes this send only. *)
LEMMA GoesOn ==
    ASSUME TypeInv, NEW c \in Commands, NEW at, NEW snap, Goes(c, at, snap)
    PROVE  /\ DOMAIN send' = Commands
           /\ send'[c].at = at /\ send'[c].snap = snap
           /\ \A d \in Commands \ {c} : send'[d] = send[d]
    BY DEF Goes, TypeInv, PanelOK, SendOK

(* And keeps the types of what sends have read. *)
LEMMA SendTyped ==
    ASSUME TypeInv, NEW c \in Commands, NEW at, NEW snap, Goes(c, at, snap),
           at = "set" => snap \subseteq Commands /\ OnePerKey(snap),
           at = "write" => snap \in Files,
           at \in {"set", "http", "file", "write", "sent"}
    PROVE  /\ SendOK'
           /\ \A d \in Commands :
                  send'[d].at \in {"new", "set", "http", "file", "write", "sent"}
    BY GoesOn DEF TypeInv, PanelOK, SendOK, OnePerKey, Files

(* Counting an action. *)
LEMMA RunsTyped ==
    ASSUME TypeInv, NEW c \in Commands,
           runs' = [runs EXCEPT ![c] = IF @ = 2 THEN 2 ELSE @ + 1]
    PROVE  runs' \in [Commands -> 0..2]
<1>1. runs[c] \in 0..2 /\ runs \in [Commands -> 0..2]
    BY DEF TypeInv, HistoryOK
<1>2. (IF runs[c] = 2 THEN 2 ELSE runs[c] + 1) \in 0..2
    BY <1>1
<1>. QED
    BY <1>1, <1>2

(* The typed parts give the type invariant. *)
LEMMA TypesAreRight == TypeInv => TypeOK
<1>1. ASSUME file \in Files PROVE InFile(file) \subseteq Commands
    BY <1>1, ReadFile
<1>. QED
    BY <1>1 DEF TypeInv, TypeOK, StoresOK, RobotOK, PanelOK, HistoryOK, OnePerKey

(* Steps of a send keep the types. *)
LEMMA PanelTyped ==
    ASSUME TypeInv, NEW c \in Commands, SendGet(c) \/ Deliver(c)
    PROVE  TypeInv'
<1>. USE CommandsAssumption DEF TypeInv
<1>0. StoresOK /\ RobotOK /\ PanelOK /\ HistoryOK
    OBVIOUS
<1>1. CASE SendGet(c)
    <2>1. PanelOK'
        BY <1>0, <1>1, SendTyped DEF SendGet, PanelOK, StoresOK
    <2>2. HistoryOK'
        BY <1>0, <1>1 DEF SendGet, history, HistoryOK
    <2>. QED
        BY <1>0, <1>1, <2>1, <2>2 DEF SendGet, robotVars, StoresOK, RobotOK
<1>2. CASE SendSet(c)
    <2>1. PanelOK'
        BY <1>0, <1>2, SendTyped DEF SendSet, PanelOK, StoresOK
    <2>2. send[c].snap \in SUBSET Commands /\ OnePerKey(send[c].snap)
        BY <1>0, <1>2 DEF SendSet, PanelOK, SendOK
    <2>3. StoresOK'
        BY <1>0, <1>2, <2>2, PutOne DEF SendSet, SetRedis, StoresOK
    <2>4. HistoryOK'
        BY <1>0, <1>2, <2>2 DEF SendSet, HistoryOK, StoresOK, Replaced, Missed
    <2>. QED
        BY <1>0, <1>2, <2>1, <2>3, <2>4 DEF SendSet, robotVars, RobotOK
<1>3. CASE \E answered \in BOOLEAN : HttpAccept(c, answered)
    <2>. PICK answered \in BOOLEAN : HttpAccept(c, answered)
        BY <1>3
    <2>1. PanelOK'
        BY <1>0, SendTyped DEF HttpAccept, PanelOK
    <2>2. StoresOK'
        BY <1>0, PutOne, AppendFile DEF HttpAccept, SetRedis, StoresOK
    <2>3. HistoryOK'
        BY <1>0, ReadFile DEF HttpAccept, HistoryOK, StoresOK, Replaced, Dropped, InFile
    <2>. QED
        BY <1>0, <2>1, <2>2, <2>3 DEF HttpAccept, robotVars, RobotOK
<1>6. CASE SendSetLost(c)
    <2>1. PanelOK'
        BY <1>0, <1>6, SendTyped DEF SendSetLost, PanelOK
    <2>2. send[c].snap \in SUBSET Commands /\ OnePerKey(send[c].snap)
        BY <1>0, <1>6 DEF SendSetLost, PanelOK, SendOK
    <2>3. StoresOK'
        BY <1>0, <1>6, <2>2, PutOne DEF SendSetLost, SetRedis, StoresOK
    <2>4. HistoryOK'
        BY <1>0, <1>6, <2>2 DEF SendSetLost, HistoryOK, StoresOK, Replaced, Missed
    <2>. QED
        BY <1>0, <1>6, <2>1, <2>3, <2>4 DEF SendSetLost, robotVars, RobotOK
<1>4. CASE HttpFails(c) \/ FileRead(c) \/ FileElsewhere(c)
    <2>1. PanelOK'
        BY <1>0, <1>4, SendTyped DEF HttpFails, FileRead, FileElsewhere, PanelOK, StoresOK
    <2>2. HistoryOK'
        BY <1>0, <1>4 DEF HttpFails, FileRead, FileElsewhere, history, HistoryOK
    <2>. QED
        BY <1>0, <1>4, <2>1, <2>2 DEF HttpFails, FileRead, FileElsewhere, robotVars,
            StoresOK, RobotOK
<1>5. CASE FileWrite(c)
    <2>0. send[c].snap \in Files
        BY <1>0, <1>5 DEF FileWrite, PanelOK, SendOK
    <2>1. PanelOK'
        BY <1>0, <1>5, SendTyped DEF FileWrite, PanelOK
    <2>2. StoresOK'
        BY <1>0, <1>5, <2>0, AppendFile DEF FileWrite, StoresOK
    <2>3. HistoryOK'
        <3>1. InFile(send[c].snap) \subseteq Commands /\ InFile(file) \subseteq Commands
              /\ Dropped(send[c].snap) \subseteq InFile(send[c].snap)
            BY <1>0, <2>0, ReadFile DEF StoresOK, Dropped, InFile
        <3>. QED
            BY <1>0, <1>5, <3>1 DEF FileWrite, HistoryOK, Missed
    <2>. QED
        BY <1>0, <1>5, <2>1, <2>2, <2>3 DEF FileWrite, robotVars, RobotOK
<1>. QED
    BY <1>1, <1>2, <1>3, <1>4, <1>5, <1>6 DEF Deliver

(* The end of a clearing. *)
LEMMA FinishedTyped ==
    ASSUME TypeInv, NEW left \in Files, Finished(left)
    PROVE  /\ robot' \in {[pc |-> "idle", cmd |-> NoCommand, got |-> {}],
                          [pc |-> "work", cmd |-> NoCommand, got |-> {}]}
           /\ uncleared' \subseteq Commands
<1>1. redis.cmds \cup InFile(left) \subseteq Commands
    BY ReadFile DEF TypeInv, StoresOK
<1>. QED
    BY <1>1 DEF Finished, At, TypeInv, HistoryOK

(* Steps of the robot keep the types. *)
LEMMA RobotTyped ==
    ASSUME TypeInv, RobotStep \/ EngineDies
    PROVE  TypeInv'
<1>. USE CommandsAssumption DEF TypeInv
<1>0. StoresOK /\ RobotOK /\ PanelOK /\ HistoryOK
    OBVIOUS
<1>r. /\ ReadCommands \subseteq Commands /\ OnePerKey(ReadCommands)
      /\ InFile(file) \subseteq Commands /\ redis.cmds \subseteq Commands
    BY ReadsAreTyped, ReadFile DEF StoresOK
<1>1. CASE Poll
    <2>1. RobotOK'
        BY <1>0, <1>1, <1>r DEF Poll, At, RobotOK, OnePerKey
    <2>2. HistoryOK'
        BY <1>0, <1>1, <1>r DEF Poll, HistoryOK, Deferred
    <2>. QED
        BY <1>0, <1>1, <2>1, <2>2 DEF Poll, panelVars, StoresOK, PanelOK, SendOK
<1>2. ASSUME NEW c \in Commands, Act(c) PROVE TypeInv'
    <2>1. RobotOK'
        BY <1>0, <1>2 DEF Act, At, RobotOK, OnePerKey
    <2>2. HistoryOK'
        BY <1>0, <1>2, RunsTyped DEF Act, HistoryOK
    <2>. QED
        BY <1>0, <1>2, <2>1, <2>2 DEF Act, panelVars, StoresOK, PanelOK, SendOK
<1>3. CASE ClearGet
    <2>1. RobotOK'
        BY <1>0, <1>3 DEF ClearGet, At, RobotOK, StoresOK, OnePerKey
    <2>. QED
        BY <1>0, <1>3, <2>1 DEF ClearGet, panelVars, history, StoresOK, PanelOK, SendOK,
            HistoryOK
<1>4. CASE ClearSet
    <2>1. RobotOK'
        BY <1>0, <1>4 DEF ClearSet, At, RobotOK, OnePerKey
    <2>2. LET mine == Without(robot.got, KeyOf[robot.cmd])
          IN  mine \in SUBSET Commands /\ OnePerKey(mine)
        BY <1>0, WithoutOne DEF RobotOK
    <2>3. StoresOK'
        BY <1>0, <1>4, <2>2 DEF ClearSet, SetRedis, StoresOK
    <2>4. HistoryOK'
        BY <1>0, <1>4, <1>r DEF ClearSet, HistoryOK, RobotOK, Missed, Replaced
    <2>. QED
        BY <1>0, <1>4, <2>1, <2>3, <2>4 DEF ClearSet, panelVars, PanelOK, SendOK
<1>5. CASE ClearReread
    <2>1. LET mine == Without(ReadCommands, KeyOf[robot.cmd])
          IN  mine \in SUBSET Commands /\ OnePerKey(mine)
        BY <1>r, WithoutOne
    <2>2. CASE Finished(file) /\ UNCHANGED <<swept, gone>>
        <3>1. RobotOK' /\ HistoryOK'
            BY <1>0, <1>5, <2>2, FinishedTyped DEF ClearReread, RobotOK, StoresOK, OnePerKey,
                HistoryOK
        <3>. QED
            BY <1>0, <1>5, <3>1 DEF ClearReread, panelVars, StoresOK, PanelOK, SendOK
    <2>3. CASE ~(Finished(file) /\ UNCHANGED <<swept, gone>>)
        <3>1. RobotOK'
            BY <1>0, <1>5, <2>1, <2>3 DEF ClearReread, At, RobotOK
        <3>2. HistoryOK'
            BY <1>0, <1>5, <1>r, <2>3 DEF ClearReread, Replaced, HistoryOK
        <3>. QED
            BY <1>0, <1>5, <3>1, <3>2 DEF ClearReread, panelVars, StoresOK, PanelOK, SendOK
    <2>. QED
        BY <2>2, <2>3
<1>6. CASE ClearWrite
    <2>1. Dict(robot.got) \in Files
        BY <1>0 DEF RobotOK, Dict, Files
    <2>2. StoresOK'
        BY <1>0, <1>6, <2>1 DEF ClearWrite, StoresOK
    <2>3. RobotOK' /\ HistoryOK'
        BY <1>0, <1>6, <1>r, <2>1, FinishedTyped DEF ClearWrite, RobotOK, OnePerKey,
            HistoryOK
    <2>. QED
        BY <1>0, <1>6, <2>2, <2>3 DEF ClearWrite, panelVars, PanelOK, SendOK
<1>7. CASE EngineDies
    <2>1. RobotOK'
        BY <1>0, <1>7 DEF EngineDies, At, RobotOK, OnePerKey
    <2>2. HistoryOK'
        BY <1>0, <1>7, <1>r DEF EngineDies, HistoryOK
    <2>. QED
        BY <1>0, <1>7, <2>1, <2>2 DEF EngineDies, panelVars, StoresOK, PanelOK, SendOK
<1>. QED
    BY <1>1, <1>2, <1>3, <1>4, <1>5, <1>6, <1>7 DEF RobotStep

(* Connections and time keep the types. *)
LEMMA EnvironmentTyped ==
    ASSUME TypeInv, PanelConnection \/ RobotConnection \/ Tick
    PROVE  TypeInv'
<1>. USE CommandsAssumption DEF TypeInv
<1>0. StoresOK /\ RobotOK /\ PanelOK /\ HistoryOK
    OBVIOUS
<1>1. CASE PanelConnection \/ RobotConnection
    BY <1>0, <1>1 DEF PanelConnection, RobotConnection, panelVars, robotVars, history,
        StoresOK, RobotOK, PanelOK, SendOK, HistoryOK
<1>2. CASE Tick
    <2>1. StoresOK'
        <3>1. CASE redis.left <= 1
            BY <1>0, <1>2, <3>1 DEF Tick, StoresOK, OnePerKey
        <3>2. CASE ~(redis.left <= 1)
            BY <1>0, <1>2, <3>2 DEF Tick, StoresOK
        <3>. QED
            BY <3>1, <3>2
    <2>2. age' \in [Commands -> 0..Ttl + 1]
        BY <1>0, <1>2 DEF Tick, HistoryOK
    <2>3. gone' \subseteq Commands
        <3>1. redis.cmds \subseteq Commands
            BY <1>0 DEF StoresOK
        <3>2. file.kind = "list" => ToSet(file.items) \subseteq Commands
            BY <1>0, ReadFile DEF StoresOK, InFile
        <3>. QED
            BY <1>0, <1>2, <3>1, <3>2 DEF Tick, HistoryOK
    <2>4. HistoryOK'
        BY <1>0, <1>2, <2>2, <2>3 DEF Tick, HistoryOK
    <2>. QED
        BY <1>0, <1>2, <2>1, <2>4 DEF Tick, panelVars, robotVars, RobotOK, PanelOK, SendOK
<1>. QED
    BY <1>1, <1>2

-----------------------------------------------------------------------------
(* What a step does to commands that are stored, read and to be done.      *)

Grown ==
    /\ uncleared \subseteq uncleared' /\ copied \subseteq copied' /\ raced \subseteq raced'
    /\ swept \subseteq swept' /\ gone \subseteq gone'

(* Of the panel and its endpoint: a store gains a command that just came,  *)
(* or one that was read before, and loses none without a cause.            *)
PanelMoves ==
    /\ UNCHANGED <<robot, todo, runs>> /\ Grown
    /\ \A c \in Stored' :
           \/ c \in Stored
           \/ send[c].at # "sent" /\ Came(c)'
           \/ c \in raced' /\ \E d \in Commands : c \in Snapped(d)
    /\ \A c \in Stored : c \in Stored' \cup gone' \cup raced'
    /\ \A d \in Commands : Snapped(d)' \subseteq Snapped(d) \cup Stored
    /\ \A c \in Commands : Came(c) => Came(c)'
    /\ \A c \in Commands : Came(c)' => Came(c) \/ c \in Stored' \cup gone'

(* Of the robot and of time. *)
RobotMoves ==
    /\ UNCHANGED <<send, runs>> /\ Grown /\ Working'
    /\ Stored' \subseteq Stored \cup robot.got
    /\ \A c \in Stored : c \in Stored' \cup gone' \cup swept' \cup raced' \/ Clearing(c)
    /\ copied' \subseteq copied \cup (Stored \cap Stored')
    /\ todo' \subseteq todo \/ (todo' \subseteq Stored /\ robot.pc = "idle")
    /\ robot'.got \subseteq Stored \cup robot.got
    /\ \A c \in Commands :
           Clearing(c) => Clearing(c)' \/ c \in uncleared' \/ c \notin Stored' \cup robot'.got

(* Such a step of the panel keeps the invariant. *)
LEMMA PanelKeeps ==
    ASSUME IInv, TypeInv', PanelMoves
    PROVE  IInv'
<1>1. Stored \subseteq Commands /\ Stored' \subseteq Commands
      /\ todo \subseteq Commands /\ robot.got \subseteq Commands
    BY ReadFile DEF IInv, TypeInv, StoresOK, RobotOK, Stored
<1>2. Working'
    BY DEF IInv, Working, PanelMoves
<1>3. Origin'
    <2>1. \A c \in Stored' : Came(c)'
        BY <1>1 DEF IInv, Origin, PanelMoves
    <2>2. \A d \in Commands : \A c \in Snapped(d)' : Came(c)'
        <3>1. \A d \in Commands : \A c \in Snapped(d) : c \in Commands
            BY ReadFile DEF IInv, TypeInv, PanelOK, SendOK, Snapped
        <3>. QED
            BY <1>1, <3>1 DEF IInv, Origin, PanelMoves
    <2>. QED
        BY <1>1, <2>1, <2>2 DEF IInv, Origin, PanelMoves
<1>4. Spent' /\ RepeatHasCause'
    <2>1. Causes \subseteq Causes'
        BY DEF Causes, PanelMoves, Grown
    <2>2. ASSUME NEW c \in Commands, runs[c] > 0, c \notin Causes'
          PROVE  c \notin Stored' \/ c \in Stored
        <3>1. Came(c) /\ c \notin copied /\ c \notin raced'
            BY <2>1, <2>2 DEF IInv, Origin, Causes
        <3>. QED
            BY <3>1 DEF Came, PanelMoves
    <2>3. \A c : Clearing(c)' <=> Clearing(c)
        BY DEF Clearing, PanelMoves
    <2>4. Spent'
        BY <2>1, <2>2, <2>3 DEF IInv, Spent, PanelMoves
    <2>5. RepeatHasCause'
        BY <2>1 DEF IInv, RepeatHasCause, PanelMoves, Causes
    <2>. QED
        BY <2>4, <2>5
<1>5. Kept'
    BY <1>1 DEF IInv, Kept, NotLost, PanelMoves, Grown
<1>. QED
    BY <1>2, <1>3, <1>4, <1>5 DEF IInv

(* Such a step of the robot keeps the invariant. *)
LEMMA RobotKeeps ==
    ASSUME IInv, TypeInv', RobotMoves
    PROVE  IInv'
<1>1. /\ Stored \subseteq Commands /\ Stored' \subseteq Commands
      /\ todo \subseteq Commands /\ robot.got \subseteq Commands
    BY ReadFile DEF IInv, TypeInv, StoresOK, RobotOK, Stored
<1>2. /\ \A c \in Commands : Came(c) => Came(c)'
      /\ \A d \in Commands : Snapped(d)' = Snapped(d)
    BY DEF Came, Snapped, InFile, RobotMoves, Grown
<1>3. Origin'
    <2>1. \A d \in Commands : \A c \in Snapped(d) : c \in Commands
        BY ReadFile DEF IInv, TypeInv, PanelOK, SendOK, Snapped
    <2>2. \A c \in Stored' \cup todo' \cup robot'.got : Came(c)
        BY DEF IInv, Origin, RobotMoves
    <2>3. \A c \in Stored' \cup todo' \cup robot'.got : c \in Commands
        BY <1>1 DEF RobotMoves
    <2>. QED
        BY <1>2, <2>1, <2>2, <2>3 DEF IInv, Origin, RobotMoves
<1>4. Spent' /\ RepeatHasCause'
    <2>1. Causes \subseteq Causes'
        BY DEF Causes, RobotMoves, Grown
    <2>2. ASSUME NEW c \in Commands, runs[c] > 0, c \notin Causes'
          PROVE  c \notin todo' /\ (Clearing(c)' \/ c \notin Stored' \cup robot'.got)
        <3>1. c \notin todo /\ (Clearing(c) \/ c \notin Stored \cup robot.got)
            BY <2>1, <2>2 DEF IInv, Spent
        <3>2. c \notin uncleared'
            BY <2>2 DEF Causes
        <3>3. Clearing(c) => robot.pc # "idle"
            BY DEF Clearing
        <3>. QED
            BY <3>1, <3>2, <3>3 DEF RobotMoves
    <2>3. Spent'
        BY <2>2 DEF Spent, RobotMoves
    <2>4. RepeatHasCause'
        BY <2>1 DEF IInv, RepeatHasCause, RobotMoves, Causes
    <2>. QED
        BY <2>3, <2>4
<1>5. Kept'
    <2>1. \A c \in Commands : Came(c)' => Came(c) \/ c \in Stored'
        BY DEF Came, RobotMoves
    <2>2. \A c \in Commands : Clearing(c) => runs[c] > 0
        BY DEF IInv, Working, Clearing
    <2>. QED
        BY <1>1, <2>1, <2>2 DEF IInv, Kept, NotLost, RobotMoves, Grown
<1>. QED
    BY <1>3, <1>4, <1>5 DEF IInv, RobotMoves

(* Every step of a send is one. *)
LEMMA PanelMakesMoves ==
    ASSUME IInv, NEW c \in Commands, SendGet(c) \/ Deliver(c)
    PROVE  PanelMoves
<1>0. StoresOK /\ PanelOK
    BY DEF IInv, TypeInv
<1>1. CASE SendGet(c)
    <2>1. /\ DOMAIN send' = Commands /\ send'[c].at # "sent" /\ send'[c].at # "write"
          /\ send'[c].at = "set" => send'[c].snap = redis.cmds
          /\ \A d \in Commands \ {c} : send'[d] = send[d]
          /\ send[c].at = "new"
        BY <1>1, GoesOn DEF SendGet, IInv
    <2>2. UNCHANGED <<robot, todo, runs, redis, file, copied, gone, raced, swept, uncleared>>
        BY <1>1 DEF SendGet, robotVars, history
    <2>3. \A d \in Commands : Snapped(d)' \subseteq Snapped(d) \cup Stored
        BY <2>1, <2>2 DEF Snapped, Stored, InFile
    <2>4. \A d \in Commands : Came(d)' <=> Came(d)
        BY <2>1, <2>2 DEF Came
    <2>. QED
        BY <2>2, <2>3, <2>4 DEF PanelMoves, Grown, Stored, InFile
<1>2. CASE HttpFails(c) \/ FileRead(c)
    <2>1. /\ send'[c].at \in {"file", "write"}
          /\ send'[c].at = "write" => send'[c].snap = file
          /\ \A d \in Commands \ {c} : send'[d] = send[d]
          /\ send[c].at \in {"http", "file"}
        BY <1>2, GoesOn DEF HttpFails, FileRead, IInv
    <2>2. UNCHANGED <<robot, todo, runs, redis, file, copied, gone, raced, swept, uncleared>>
        BY <1>2 DEF HttpFails, FileRead, robotVars, history
    <2>3. \A d \in Commands : Snapped(d)' \subseteq Snapped(d) \cup Stored
        BY <2>1, <2>2 DEF Snapped, Stored, InFile
    <2>4. \A d \in Commands : Came(d)' <=> Came(d)
        BY <2>1, <2>2 DEF Came
    <2>. QED
        BY <2>2, <2>3, <2>4 DEF PanelMoves, Grown, Stored, InFile
<1>3. CASE FileElsewhere(c)
    <2>1. /\ send'[c].at = "sent" /\ send[c].at = "file"
          /\ \A d \in Commands \ {c} : send'[d] = send[d]
        BY <1>3, GoesOn DEF FileElsewhere, IInv
    <2>2. UNCHANGED <<robot, todo, runs, redis, file, copied, raced, swept, uncleared>>
          /\ gone' = gone \cup ({c} \ copied)
        BY <1>3 DEF FileElsewhere, robotVars
    <2>3. \A d \in Commands : Snapped(d)' \subseteq Snapped(d)
        BY <2>1, <2>2 DEF Snapped, InFile
    <2>4. \A d \in Commands : (Came(d) => Came(d)') /\ (Came(d)' => Came(d) \/ d \in gone')
        BY <2>1, <2>2 DEF Came
    <2>. QED
        BY <2>2, <2>3, <2>4 DEF PanelMoves, Grown, Stored, InFile
<1>4. CASE SendSet(c) /\ panelUp
    <2>1. /\ send'[c].at = "sent" /\ send[c].at = "set"
          /\ \A d \in Commands \ {c} : send'[d] = send[d]
        BY <1>4, GoesOn DEF SendSet, IInv
    <2>2. /\ UNCHANGED <<robot, todo, runs, file, copied, swept, uncleared>>
          /\ redis'.cmds = Put(send[c].snap, c)
          /\ gone' = gone \cup Replaced(send[c].snap, c)
          /\ raced' = raced \cup Missed(send[c].snap, redis.cmds)
        BY <1>4 DEF SendSet, SetRedis, robotVars
    <2>3. Put(send[c].snap, c) = (send[c].snap \ Replaced(send[c].snap, c)) \cup {c}
        BY <1>0, <2>1, PutOne DEF PanelOK, SendOK
    <2>4. \A d \in Commands : Snapped(d)' \subseteq Snapped(d)
        BY <2>1, <2>2 DEF Snapped, InFile
    <2>5. /\ \A d \in Commands : Came(d) => Came(d)'
          /\ \A d \in Commands : Came(d)' => Came(d) \/ d = c
          /\ Came(c)' /\ c \in Stored' /\ Snapped(c) = send[c].snap
        BY <2>1, <2>2, <2>3 DEF Came, Stored, Snapped
    <2>6. ASSUME NEW x \in Stored'
          PROVE  \/ x \in Stored \/ x = c
                 \/ x \in raced' /\ x \in Snapped(c)
        BY <2>2, <2>3, <2>5, <2>6 DEF Stored, Missed, InFile
    <2>7. ASSUME NEW x \in Stored
          PROVE  x \in Stored' \cup gone' \cup raced'
        BY <2>2, <2>3, <2>7 DEF Stored, Missed, InFile
    <2>. QED
        BY <2>1, <2>2, <2>4, <2>5, <2>6, <2>7 DEF PanelMoves, Grown
<1>8. CASE SendSetLost(c)
    <2>1. /\ send'[c].at = "http" /\ send[c].at = "set"
          /\ \A d \in Commands \ {c} : send'[d] = send[d]
        BY <1>8, GoesOn DEF SendSetLost, IInv
    <2>2. /\ UNCHANGED <<robot, todo, runs, file, swept, uncleared>>
          /\ copied' = copied \cup {c}
          /\ redis'.cmds = Put(send[c].snap, c)
          /\ gone' = gone \cup Replaced(send[c].snap, c)
          /\ raced' = raced \cup Missed(send[c].snap, redis.cmds)
        BY <1>8 DEF SendSetLost, SetRedis, robotVars
    <2>3. Put(send[c].snap, c) = (send[c].snap \ Replaced(send[c].snap, c)) \cup {c}
        BY <1>0, <2>1, PutOne DEF PanelOK, SendOK
    <2>4. \A d \in Commands : Snapped(d)' \subseteq Snapped(d)
        BY <2>1, <2>2 DEF Snapped, InFile
    <2>5. /\ \A d \in Commands : Came(d) => Came(d)'
          /\ \A d \in Commands : Came(d)' => Came(d) \/ d = c
          /\ Came(c)' /\ c \in Stored' /\ Snapped(c) = send[c].snap
        BY <2>1, <2>2, <2>3 DEF Came, Stored, Snapped
    <2>6. ASSUME NEW x \in Stored'
          PROVE  \/ x \in Stored \/ x = c
                 \/ x \in raced' /\ x \in Snapped(c)
        BY <2>2, <2>3, <2>5, <2>6 DEF Stored, Missed, InFile
    <2>7. ASSUME NEW x \in Stored
          PROVE  x \in Stored' \cup gone' \cup raced'
        BY <2>2, <2>3, <2>7 DEF Stored, Missed, InFile
    <2>. QED
        BY <2>1, <2>2, <2>4, <2>5, <2>6, <2>7 DEF PanelMoves, Grown
<1>5. CASE SendSet(c) /\ ~panelUp
    <2>1. /\ send'[c].at = "http" /\ send[c].at = "set"
          /\ \A d \in Commands \ {c} : send'[d] = send[d]
        BY <1>5, GoesOn DEF SendSet, IInv
    <2>2. UNCHANGED <<robot, todo, runs, redis, file, copied, gone, raced, swept, uncleared>>
        BY <1>5 DEF SendSet, robotVars
    <2>3. \A d \in Commands : Snapped(d)' \subseteq Snapped(d)
        BY <2>1, <2>2 DEF Snapped, InFile
    <2>4. \A d \in Commands : Came(d)' <=> Came(d)
        BY <2>1, <2>2 DEF Came
    <2>. QED
        BY <2>2, <2>3, <2>4 DEF PanelMoves, Grown, Stored, InFile
<1>6. ASSUME NEW answered \in BOOLEAN, HttpAccept(c, answered)
      PROVE  PanelMoves
    <2>1. /\ send'[c].at \in {"sent", "file"} /\ (answered <=> send'[c].at = "sent")
          /\ send[c].at = "http"
          /\ \A d \in Commands \ {c} : send'[d] = send[d]
        BY <1>6, GoesOn DEF HttpAccept, IInv
    <2>2. /\ UNCHANGED <<robot, todo, runs, raced, swept, uncleared>>
          /\ copied \subseteq copied' /\ copied' \subseteq copied \cup {c}
          /\ ~answered => c \in copied'
          /\ gone \subseteq gone' /\ Dropped(file) \subseteq gone'
          /\ file' = Appended(file, c)
          /\ \/ redis' = redis
             \/ redis'.cmds = Put(redis.cmds, c) /\ Replaced(redis.cmds, c) \subseteq gone'
        BY <1>6 DEF HttpAccept, SetRedis, robotVars
    <2>3. /\ Put(redis.cmds, c) = (redis.cmds \ Replaced(redis.cmds, c)) \cup {c}
          /\ InFile(file') = (InFile(file) \ Dropped(file)) \cup {c}
        BY <1>0, <2>2, PutOne, AppendFile DEF StoresOK
    <2>4. \A d \in Commands : Snapped(d)' \subseteq Snapped(d)
        BY <2>1, <2>2 DEF Snapped, InFile
    <2>5. /\ \A d \in Commands : Came(d) => Came(d)'
          /\ \A d \in Commands : Came(d)' => Came(d) \/ d = c
          /\ Came(c)'
        BY <2>1, <2>2 DEF Came
    <2>6. c \in Stored'
        BY <2>3 DEF Stored
    <2>7. \A x \in Stored' : x \in Stored \/ x = c
        BY <2>2, <2>3 DEF Stored
    <2>8. \A x \in Stored : x \in Stored' \cup gone'
        BY <2>2, <2>3 DEF Stored
    <2>. QED
        BY <2>1, <2>2, <2>4, <2>5, <2>6, <2>7, <2>8 DEF PanelMoves, Grown
<1>7. CASE FileWrite(c)
    <2>1. /\ send'[c].at = "sent" /\ send[c].at = "write"
          /\ \A d \in Commands \ {c} : send'[d] = send[d]
        BY <1>7, GoesOn DEF FileWrite, IInv
    <2>2. /\ UNCHANGED <<robot, todo, runs, redis, copied, swept, uncleared>>
          /\ file' = Appended(send[c].snap, c)
          /\ gone' = gone \cup Dropped(send[c].snap)
          /\ raced' = raced \cup Missed(InFile(send[c].snap), InFile(file))
        BY <1>7 DEF FileWrite, robotVars
    <2>3. InFile(file') = (InFile(send[c].snap) \ Dropped(send[c].snap)) \cup {c}
        BY <1>0, <2>1, <2>2, AppendFile DEF PanelOK, SendOK
    <2>4. \A d \in Commands : Snapped(d)' \subseteq Snapped(d)
        BY <2>1, <2>2 DEF Snapped, InFile
    <2>5. /\ \A d \in Commands : Came(d) => Came(d)'
          /\ \A d \in Commands : Came(d)' => Came(d) \/ d = c
          /\ Came(c)' /\ c \in Stored' /\ Snapped(c) = InFile(send[c].snap)
        BY <2>1, <2>2, <2>3 DEF Came, Stored, Snapped
    <2>6. ASSUME NEW x \in Stored'
          PROVE  \/ x \in Stored \/ x = c
                 \/ x \in raced' /\ x \in Snapped(c)
        BY <2>2, <2>3, <2>5, <2>6 DEF Stored, Missed
    <2>7. ASSUME NEW x \in Stored
          PROVE  x \in Stored' \cup gone' \cup raced'
        BY <2>2, <2>3, <2>7 DEF Stored, Missed
    <2>. QED
        BY <2>1, <2>2, <2>4, <2>5, <2>6, <2>7 DEF PanelMoves, Grown
<1>. QED
    BY <1>1, <1>2, <1>3, <1>4, <1>5, <1>6, <1>7, <1>8 DEF Deliver

(* Every step of the robot but an action is one. *)
LEMMA RobotMakesMoves ==
    ASSUME IInv,
           \/ Poll \/ ClearGet \/ ClearSet \/ ClearReread \/ ClearWrite \/ EngineDies
           \/ PanelConnection \/ RobotConnection \/ Tick
    PROVE  RobotMoves
<1>0. StoresOK /\ RobotOK /\ PanelOK /\ HistoryOK /\ Working
    BY DEF IInv, TypeInv
<1>r. ReadCommands \subseteq Stored /\ redis.cmds \subseteq Stored
    BY ReadsAreTyped DEF IInv, Stored
<1>1. CASE Poll
    <2>1. /\ UNCHANGED <<send, runs, redis, file, uncleared, copied, raced, swept, gone>>
          /\ todo' \subseteq ReadCommands /\ robot.pc = "idle"
          /\ robot'.pc = "work" /\ robot'.got = {}
        BY <1>1 DEF Poll, At, panelVars
    <2>. QED
        BY <1>r, <2>1 DEF RobotMoves, Grown, Working, Stored, InFile, Clearing
<1>2. CASE ClearGet
    <2>1. /\ UNCHANGED <<send, runs, redis, file, todo, uncleared, copied, raced, swept, gone>>
          /\ robot.pc = "get" /\ robot'.pc \in {"set", "reread"}
          /\ robot'.cmd = robot.cmd /\ robot'.got \subseteq redis.cmds
        BY <1>2 DEF ClearGet, At, panelVars, history
    <2>. QED
        BY <1>0, <1>r, <2>1 DEF RobotMoves, Grown, Working, Stored, InFile, Clearing
<1>3. CASE ClearSet
    <2>1. /\ UNCHANGED <<send, runs, file, todo, uncleared, copied, gone>>
          /\ robot.pc = "set" /\ robot'.pc = "reread"
          /\ robot'.cmd = robot.cmd /\ robot'.got = {}
          /\ \/ UNCHANGED <<redis, raced, swept>>
             \/ /\ redis'.cmds = Without(robot.got, KeyOf[robot.cmd])
                /\ raced' = raced \cup Missed(robot.got, redis.cmds)
                /\ swept' = swept \cup Replaced(robot.got, robot.cmd)
        BY <1>3 DEF ClearSet, At, SetRedis, panelVars
    <2>2. Working' /\ \A c \in Commands : Clearing(c)' <=> Clearing(c)
        BY <1>0, <2>1 DEF Working, Clearing
    <2>3. Stored' \subseteq Stored \cup robot.got
        BY <2>1 DEF Stored, Without, InFile
    <2>4. ASSUME NEW c \in Stored
          PROVE  c \in Stored' \cup swept' \cup raced' \/ Clearing(c)
        <3>1. c \in InFile(file) => c \in Stored'
            BY <2>1 DEF Stored, InFile
        <3>2. CASE UNCHANGED <<redis, raced, swept>>
            BY <2>1, <3>2 DEF Stored, InFile
        <3>3. CASE /\ redis'.cmds = Without(robot.got, KeyOf[robot.cmd])
                   /\ raced' = raced \cup Missed(robot.got, redis.cmds)
                   /\ swept' = swept \cup Replaced(robot.got, robot.cmd)
            BY <2>1, <2>4, <3>1, <3>3 DEF Stored, Without, Missed, Replaced, Clearing
        <3>. QED
            BY <2>1, <3>2, <3>3
    <2>. QED
        BY <2>1, <2>2, <2>3, <2>4 DEF RobotMoves, Grown
<1>4. CASE ClearReread
    <2>1. /\ UNCHANGED <<send, runs, redis, file, todo, copied, raced>>
          /\ robot.pc = "reread"
          /\ \/ /\ Finished(file) /\ UNCHANGED <<swept, gone>>
             \/ /\ robot'.pc = "write" /\ robot'.cmd = robot.cmd
                /\ robot'.got \subseteq ReadCommands
                /\ swept \subseteq swept' /\ gone \subseteq gone' /\ uncleared' = uncleared
        BY <1>4 DEF ClearReread, At, Without, panelVars
    <2>2. CASE Finished(file) /\ UNCHANGED <<swept, gone>>
        <3>1. /\ robot'.pc \in {"idle", "work"} /\ robot'.got = {}
              /\ uncleared' = uncleared \cup ({robot.cmd} \cap Stored)
            BY <2>2 DEF Finished, At, Stored
        <3>. QED
            BY <2>1, <2>2, <3>1 DEF RobotMoves, Grown, Working, Stored, InFile, Clearing
    <2>3. CASE /\ robot'.pc = "write" /\ robot'.cmd = robot.cmd
               /\ robot'.got \subseteq ReadCommands
               /\ swept \subseteq swept' /\ gone \subseteq gone' /\ uncleared' = uncleared
        BY <1>0, <1>r, <2>1, <2>3 DEF RobotMoves, Grown, Working, Stored, InFile, Clearing
    <2>. QED
        BY <2>1, <2>2, <2>3
<1>5. CASE ClearWrite
    <2>1. /\ UNCHANGED <<send, runs, redis, todo, swept, gone>>
          /\ robot.pc = "write"
          /\ file' = Dict(robot.got)
          /\ copied' = copied \cup (robot.got \cap redis.cmds)
          /\ raced' = raced \cup (InFile(file) \ (robot.got \cup {robot.cmd}))
          /\ robot'.pc \in {"idle", "work"} /\ robot'.got = {}
          /\ uncleared' = uncleared \cup ({robot.cmd} \cap (redis.cmds \cup InFile(file')))
        BY <1>5 DEF ClearWrite, Finished, At, panelVars
    <2>2. Stored' = redis.cmds \cup robot.got
        BY <2>1 DEF Stored, Dict, InFile
    <2>3. InFile(file') = robot.got
        BY <2>1 DEF Dict, InFile
    <2>4. ASSUME NEW c \in Stored
          PROVE  c \in Stored' \cup raced' \/ Clearing(c)
        BY <2>1, <2>2, <2>4 DEF Stored, Clearing
    <2>. QED
        BY <2>1, <2>2, <2>3, <2>4 DEF RobotMoves, Grown, Working, Stored, Clearing
<1>6. CASE EngineDies
    <2>1. /\ UNCHANGED <<send, runs, redis, file, copied, raced, swept, gone>>
          /\ robot'.pc = "idle" /\ robot'.got = {} /\ todo' = {}
          /\ uncleared' = uncleared \cup ({robot.cmd} \cap Stored)
        BY <1>6 DEF EngineDies, At, panelVars, Stored
    <2>. QED
        BY <2>1 DEF RobotMoves, Grown, Working, Stored, InFile, Clearing
<1>7. CASE PanelConnection \/ RobotConnection
    BY <1>0, <1>7 DEF PanelConnection, RobotConnection, panelVars, robotVars, history,
        RobotMoves, Grown, Working, Stored, InFile, Clearing
<1>8. CASE Tick
    <2>1. /\ UNCHANGED <<send, runs, robot, todo, file, uncleared, copied, raced, swept>>
          /\ gone \subseteq gone'
          /\ redis'.cmds \subseteq redis.cmds
          /\ redis.cmds \subseteq redis'.cmds \cup gone'
        <3>1. CASE redis.left <= 1
            BY <1>8, <3>1 DEF Tick, panelVars, robotVars
        <3>2. CASE ~(redis.left <= 1)
            <4>1. redis'.cmds = redis.cmds
                BY <1>0, <1>8, <3>2 DEF Tick, StoresOK
            <4>. QED
                BY <1>8, <4>1 DEF Tick, panelVars, robotVars
        <3>. QED
            BY <3>1, <3>2
    <2>. QED
        BY <1>0, <2>1 DEF RobotMoves, Grown, Working, Stored, InFile, Clearing
<1>. QED
    BY <1>1, <1>2, <1>3, <1>4, <1>5, <1>6, <1>7, <1>8

(* An action turns a command that waits into one that is spent. *)
LEMMA ActKeeps ==
    ASSUME IInv, TypeInv', NEW c \in Commands, Act(c)
    PROVE  IInv'
<1>1. /\ UNCHANGED <<send, redis, file, uncleared, copied, raced, swept, gone>>
      /\ robot.pc = "work" /\ c \in todo /\ todo' = todo \ {c}
      /\ robot'.pc = "get" /\ robot'.cmd = c /\ robot'.got = {}
    BY DEF Act, At, panelVars
<1>2. /\ runs[c] \in 0..2 /\ runs'[c] = IF runs[c] = 2 THEN 2 ELSE runs[c] + 1
      /\ \A d \in Commands \ {c} : runs'[d] = runs[d]
    BY DEF Act, IInv, TypeInv, HistoryOK
<1>3. /\ \A d \in Commands : Came(d)' <=> Came(d)
      /\ \A d \in Commands : Snapped(d)' = Snapped(d)
      /\ Stored' = Stored /\ Causes' = Causes
    BY <1>1 DEF Came, Snapped, InFile, Stored, Causes
<1>4. Stored \subseteq Commands /\ todo \subseteq Commands
      /\ \A d \in Commands : Snapped(d) \subseteq Commands
    BY ReadFile DEF IInv, TypeInv, StoresOK, RobotOK, PanelOK, SendOK, Stored, Snapped
<1>5. Working'
    BY <1>1, <1>2 DEF Working
<1>6. Origin'
    <2>1. Came(c)
        BY <1>1 DEF IInv, Origin
    <2>. QED
        BY <1>1, <1>2, <1>3, <1>4, <2>1 DEF IInv, Origin
<1>7. Spent'
    <2>1. ASSUME NEW d \in Commands, runs'[d] > 0, d \notin Causes
          PROVE  d \notin todo' /\ (Clearing(d)' \/ d \notin Stored \cup robot'.got)
        <3>1. CASE d = c
            BY <1>1, <3>1 DEF Clearing
        <3>2. CASE d # c
            BY <1>1, <1>2, <2>1, <3>2 DEF IInv, Spent, Clearing
        <3>. QED
            BY <3>1, <3>2
    <2>. QED
        BY <1>3, <2>1 DEF Spent
<1>8. RepeatHasCause'
    <2>1. runs[c] > 0 => c \in Causes
        BY <1>1 DEF IInv, Spent
    <2>. QED
        BY <1>2, <1>3, <2>1 DEF IInv, RepeatHasCause, Causes
<1>9. Kept'
    BY <1>1, <1>2, <1>3 DEF IInv, Kept, NotLost
<1>. QED
    BY <1>5, <1>6, <1>7, <1>8, <1>9 DEF IInv

(* Types at first. *)
LEMMA InitTyped == Init => TypeInv
<1>. SUFFICES ASSUME Init PROVE TypeInv
    OBVIOUS
<1>1. <<>> \in Seq(Commands)
    OBVIOUS
<1>2. StoresOK
    BY <1>1, CommandsAssumption DEF Init, StoresOK, OnePerKey, Files, List
<1>3. RobotOK
    BY DEF Init, RobotOK, OnePerKey
<1>4. PanelOK
    BY DEF Init, PanelOK, SendOK
<1>5. HistoryOK
    <2>1. Ttl + 1 \in 0..Ttl + 1 /\ 0 \in 0..2
        BY CommandsAssumption
    <2>. QED
        BY <2>1 DEF Init, HistoryOK
<1>. QED
    BY <1>2, <1>3, <1>4, <1>5 DEF TypeInv

(* Every step keeps the types. *)
LEMMA StepTyped == TypeInv /\ [Next]_vars => TypeInv'
<1>. SUFFICES ASSUME TypeInv, [Next]_vars PROVE TypeInv'
    OBVIOUS
<1>1. CASE Next
    BY <1>1, PanelTyped, RobotTyped, EnvironmentTyped DEF Next
<1>2. CASE UNCHANGED vars
    BY <1>2 DEF vars, panelVars, robotVars, history, TypeInv, StoresOK, RobotOK, PanelOK,
        SendOK, HistoryOK
<1>. QED
    BY <1>1, <1>2

(* The inductive invariant: types, and what becomes of each command.       *)
THEOREM Invariance == Spec => []IInv
<1>1. Init => IInv
    <2>. SUFFICES ASSUME Init PROVE IInv
        OBVIOUS
    <2>1. Stored = {} /\ todo = {} /\ robot.got = {} /\ robot.pc = "idle"
        BY DEF Init, Stored, InFile, List, ToSet
    <2>2. \A c \in Commands : runs[c] = 0 /\ ~Came(c) /\ Snapped(c) = {}
        BY DEF Init, Came, Snapped
    <2>. QED
        BY <2>1, <2>2, InitTyped DEF IInv, Working, Origin, Spent, Kept, RepeatHasCause
<1>2. IInv /\ [Next]_vars => IInv'
    <2>. SUFFICES ASSUME IInv, [Next]_vars PROVE IInv'
        OBVIOUS
    <2>0. TypeInv'
        BY StepTyped DEF IInv
    <2>1. CASE \E c \in Commands : SendGet(c) \/ Deliver(c)
        BY <2>0, <2>1, PanelMakesMoves, PanelKeeps
    <2>2. CASE \E c \in Commands : Act(c)
        BY <2>0, <2>2, ActKeeps
    <2>3. CASE \/ Poll \/ ClearGet \/ ClearSet \/ ClearReread \/ ClearWrite \/ EngineDies
               \/ PanelConnection \/ RobotConnection \/ Tick
        BY <2>0, <2>3, RobotMakesMoves, RobotKeeps
    <2>4. CASE UNCHANGED vars
        <3>1. UNCHANGED <<send, robot, todo, runs, redis, file>>
              /\ UNCHANGED <<uncleared, copied, raced, swept, gone>>
            BY <2>4 DEF vars, panelVars, robotVars, history
        <3>2. RobotMoves
            BY <3>1 DEF IInv, RobotMoves, Grown, Working, Clearing, Stored, InFile
        <3>. QED
            BY <2>0, <3>2, RobotKeeps
    <2>. QED
        BY <2>1, <2>2, <2>3, <2>4 DEF Next, RobotStep
<1>. QED
    BY <1>1, <1>2, PTL DEF Spec

(* Type correctness, with one command per key in every dictionary.         *)
THEOREM TypeCorrect == Spec => []TypeOK
<1>1. IInv => TypeOK
    BY TypesAreRight DEF IInv
<1>. QED
    BY <1>1, Invariance, PTL

(* A command is acted on twice only if its clearing left it stored, it was *)
(* stored twice or by a call whose answer was lost, or a write based on an *)
(* old reading brought it back.                                            *)
THEOREM NoRepeatWithoutCause == Spec => []RepeatHasCause
<1>1. IInv => RepeatHasCause
    BY DEF IInv
<1>. QED
    BY <1>1, Invariance, PTL

(* A command that was sent and is neither stored nor acted on expired, was *)
(* replaced, did not reach the robot, was cleared with another of its key, *)
(* or was lost to a write based on an old reading.                         *)
THEOREM NoLossWithoutCause == Spec => []LossHasCause
<1>1. IInv => LossHasCause
    <2>. SUFFICES ASSUME IInv, NEW c \in Commands, send[c].at = "sent", c \notin Stored,
                         runs[c] = 0
                  PROVE  c \in gone \cup swept \cup raced
        BY DEF LossHasCause
    <2>. QED
        BY DEF IInv, Kept, NotLost, Came
<1>. QED
    BY <1>1, Invariance, PTL

-----------------------------------------------------------------------------
(* Redis always answers and the engine lives.                              *)

OnceInv == IInv /\ Steady /\ Direct /\ OnceSpent /\ OnceUnlessRaced

(* Every store keeps of a command that was acted on and has not raced what *)
(* it had of it.                                                           *)
LEMMA LessIsDirect ==
    ASSUME OnceInv, IInv', UNCHANGED <<panelUp, robotUp, send, runs>>, raced \subseteq raced',
           redis'.cmds \subseteq redis.cmds \cup robot.got,
           todo' \subseteq todo \cup redis.cmds, robot'.got \subseteq redis.cmds \cup robot.got,
           OnceSpent'
    PROVE  OnceInv'
<1>1. \A d \in Commands : Snapped(d)' = Snapped(d)
    BY DEF Snapped, InFile
<1>2. Steady' /\ OnceUnlessRaced'
    BY DEF OnceInv, Steady, OnceUnlessRaced
<1>3. Direct'
    <2>1. \A c \in redis'.cmds \cup todo' \cup robot'.got : c \in redis.cmds \cup todo \cup robot.got
        OBVIOUS
    <2>. QED
        BY <1>1, <2>1 DEF OnceInv, Direct
<1>. QED
    BY <1>2, <1>3 DEF OnceInv

(* A send adds what was not acted on, or races. *)
LEMMA PanelOnce ==
    ASSUME ~Outages, OnceInv, IInv', NEW c \in Commands, SendGet(c) \/ Deliver(c)
    PROVE  OnceInv'
<1>0. StoresOK /\ PanelOK /\ TypeInv
    BY DEF OnceInv, IInv, TypeInv
<1>1. SendGet(c) \/ SendSet(c)
    BY DEF OnceInv, Steady, Deliver, SendSetLost, HttpAccept, HttpFails, FileElsewhere,
        FileRead, FileWrite
<1>2. panelUp
    BY DEF OnceInv, Steady
<1>3. redis.cmds \subseteq Commands /\ todo \subseteq Commands /\ robot.got \subseteq Commands
      /\ \A d \in Commands : Snapped(d) \subseteq Commands
    BY ReadFile DEF OnceInv, IInv, TypeInv, StoresOK, RobotOK, PanelOK, SendOK, Snapped
<1>4. CASE SendGet(c)
    <2>1. /\ send'[c].at = "set" /\ send'[c].snap = redis.cmds
          /\ \A d \in Commands \ {c} : send'[d] = send[d]
          /\ send[c].at = "new"
        BY <1>0, <1>2, <1>4, GoesOn DEF SendGet
    <2>2. UNCHANGED <<panelUp, robotUp, robot, todo, runs, redis, raced>>
        BY <1>4 DEF SendGet, robotVars, history
    <2>3. Steady'
        BY <2>1, <2>2 DEF OnceInv, Steady
    <2>4. \A d \in Commands : Snapped(d)' \subseteq Snapped(d) \cup redis.cmds
        BY <2>1 DEF Snapped, InFile
    <2>5. \A d \in Commands : send[d].at = "sent" => send'[d].at = "sent"
        BY <2>1
    <2>6. Direct'
        BY <1>3, <2>2, <2>4, <2>5 DEF OnceInv, Direct
    <2>. QED
        BY <2>2, <2>3, <2>6 DEF OnceInv, OnceSpent, OnceUnlessRaced, Clearing
<1>5. CASE SendSet(c)
    <2>1. /\ send'[c].at = "sent" /\ send[c].at = "set"
          /\ \A d \in Commands \ {c} : send'[d] = send[d]
        BY <1>0, <1>2, <1>5, GoesOn DEF SendSet
    <2>2. /\ UNCHANGED <<panelUp, robotUp, robot, todo, runs>>
          /\ redis'.cmds = Put(send[c].snap, c)
          /\ raced' = raced \cup Missed(send[c].snap, redis.cmds)
        BY <1>2, <1>5 DEF SendSet, SetRedis, robotVars
    <2>3. Put(send[c].snap, c) = (send[c].snap \ Replaced(send[c].snap, c)) \cup {c}
        BY <1>0, <2>1, PutOne DEF PanelOK, SendOK
    <2>4. Steady'
        BY <2>1, <2>2 DEF OnceInv, Steady
    <2>5. Snapped(c) = send[c].snap /\ \A d \in Commands : Snapped(d)' \subseteq Snapped(d)
        BY <2>1 DEF Snapped, InFile
    <2>6. \A d \in Commands : send[d].at = "sent" => send'[d].at = "sent"
        BY <2>1
    <2>7. Direct'
        <3>1. \A x \in redis'.cmds : x = c \/ x \in Snapped(c)
            BY <2>2, <2>3, <2>5
        <3>. QED
            BY <1>3, <2>1, <2>2, <2>5, <2>6, <3>1 DEF OnceInv, Direct
    <2>8. ASSUME NEW x \in Commands, runs[x] > 0, x \notin raced'
          PROVE  x \notin raced /\ (x \in redis'.cmds => x \in redis.cmds)
        <3>1. x # c
            BY <2>1, <2>8 DEF OnceInv, Direct
        <3>. QED
            BY <2>2, <2>3, <2>8, <3>1 DEF Missed
    <2>9. OnceSpent' /\ OnceUnlessRaced'
        <3>1. OnceSpent'
            BY <2>2, <2>8 DEF OnceInv, OnceSpent, Clearing
        <3>2. OnceUnlessRaced'
            BY <2>2 DEF OnceInv, OnceUnlessRaced
        <3>. QED
            BY <3>1, <3>2
    <2>. QED
        BY <2>4, <2>7, <2>9 DEF OnceInv
<1>. QED
    BY <1>1, <1>4, <1>5

(* Reading and clearing bring nothing back. *)
LEMMA ClearsOnce ==
    ASSUME OnceInv, IInv', Poll \/ ClearGet \/ ClearSet \/ ClearReread \/ ClearWrite \/ Tick
    PROVE  OnceInv'
<1>0. robotUp /\ ReadCommands = redis.cmds /\ StoresOK
    BY DEF OnceInv, Steady, ReadCommands, IInv, TypeInv
<1>. USE DEF OnceInv
<1>1. CASE Poll
    <2>1. /\ UNCHANGED <<panelUp, robotUp, send, runs, redis, raced>>
          /\ todo' \subseteq redis.cmds /\ robot.pc = "idle"
          /\ robot'.pc = "work" /\ robot'.got = {}
        BY <1>0, <1>1 DEF Poll, At, panelVars
    <2>2. OnceSpent'
        BY <2>1 DEF OnceSpent, Clearing
    <2>. QED
        BY <2>1, <2>2, LessIsDirect
<1>2. CASE ClearGet
    <2>1. /\ UNCHANGED <<panelUp, robotUp, send, runs, redis, todo, raced>>
          /\ robot.pc = "get" /\ robot'.pc = "set"
          /\ robot'.cmd = robot.cmd /\ robot'.got = redis.cmds
        BY <1>0, <1>2 DEF ClearGet, At, panelVars, history
    <2>2. OnceSpent'
        BY <2>1 DEF OnceSpent, Clearing
    <2>. QED
        BY <2>1, <2>2, LessIsDirect
<1>3. CASE ClearSet
    <2>0. /\ UNCHANGED <<panelUp, robotUp, send, runs, todo>> /\ raced \subseteq raced'
          /\ robot.pc = "set" /\ robot'.pc = "reread"
          /\ robot'.cmd = robot.cmd /\ robot'.got = {}
          /\ \/ redis'.cmds = Without(robot.got, KeyOf[robot.cmd])
             \/ redis' = redis /\ Without(robot.got, KeyOf[robot.cmd]) = robot.got
        BY <1>0, <1>3 DEF ClearSet, At, SetRedis, panelVars
    <2>1. robot.cmd \notin Without(robot.got, KeyOf[robot.cmd])
          /\ Without(robot.got, KeyOf[robot.cmd]) \subseteq robot.got
        BY DEF Without
    <2>2. OnceSpent'
        <3>1. CASE redis'.cmds = Without(robot.got, KeyOf[robot.cmd])
            BY <2>0, <2>1, <3>1 DEF OnceSpent, Clearing
        <3>2. CASE redis' = redis /\ Without(robot.got, KeyOf[robot.cmd]) = robot.got
            BY <2>0, <2>1, <3>2 DEF OnceSpent, Clearing
        <3>. QED
            BY <2>0, <3>1, <3>2
    <2>3. redis'.cmds \subseteq redis.cmds \cup robot.got
        BY <2>0, <2>1
    <2>. QED
        BY <2>0, <2>2, <2>3, LessIsDirect
<1>4. CASE ClearReread
    <2>1. /\ UNCHANGED <<panelUp, robotUp, send, runs, redis, todo, raced>>
          /\ robot.pc = "reread" /\ robot'.got \subseteq redis.cmds
          /\ \/ robot'.pc \in {"idle", "work"} /\ robot'.got = {}
             \/ robot'.pc = "write" /\ robot'.cmd = robot.cmd
        BY <1>0, <1>4 DEF ClearReread, Finished, At, Without, panelVars
    <2>2. OnceSpent'
        BY <2>1 DEF OnceSpent, Clearing
    <2>. QED
        BY <2>1, <2>2, LessIsDirect
<1>5. CASE ClearWrite
    <2>1. /\ UNCHANGED <<panelUp, robotUp, send, runs, redis, todo>> /\ raced \subseteq raced'
          /\ robot.pc = "write" /\ robot'.pc \in {"idle", "work"} /\ robot'.got = {}
        BY <1>5 DEF ClearWrite, Finished, At, panelVars
    <2>2. OnceSpent'
        BY <2>1 DEF OnceSpent, Clearing
    <2>. QED
        BY <2>1, <2>2, LessIsDirect
<1>6. CASE Tick
    <2>1. redis'.cmds \subseteq redis.cmds
        BY <1>0, <1>6 DEF Tick, StoresOK
    <2>2. UNCHANGED <<panelUp, robotUp, send, runs, robot, todo, raced>>
        BY <1>6 DEF Tick, panelVars, robotVars
    <2>3. OnceSpent'
        BY <2>1, <2>2 DEF OnceSpent, Clearing
    <2>. QED
        BY <2>1, <2>2, <2>3, LessIsDirect
<1>. QED
    BY <1>1, <1>2, <1>3, <1>4, <1>5, <1>6

(* An action is the first one of its command, or the command has raced. *)
LEMMA ActsOnce ==
    ASSUME OnceInv, IInv', NEW c \in Commands, Act(c)
    PROVE  OnceInv'
<1>1. /\ UNCHANGED <<panelUp, robotUp, send, redis, raced>>
      /\ robot.pc = "work" /\ c \in todo /\ todo' = todo \ {c}
      /\ robot'.pc = "get" /\ robot'.cmd = c /\ robot'.got = {}
    BY DEF Act, At, panelVars
<1>2. /\ runs[c] \in 0..2 /\ runs'[c] = IF runs[c] = 2 THEN 2 ELSE runs[c] + 1
      /\ \A d \in Commands \ {c} : runs'[d] = runs[d]
    BY DEF Act, OnceInv, IInv, TypeInv, HistoryOK
<1>3. runs[c] > 0 => c \in raced
    BY <1>1 DEF OnceInv, OnceSpent
<1>4. Steady' /\ OnceUnlessRaced'
    BY <1>1, <1>2, <1>3 DEF OnceInv, Steady, OnceUnlessRaced
<1>5. Direct'
    <2>1. send[c].at = "sent"
        BY <1>1 DEF OnceInv, Direct
    <2>2. \A d \in Commands : Snapped(d)' = Snapped(d)
        BY <1>1 DEF Snapped, InFile
    <2>. QED
        BY <1>1, <1>2, <2>1, <2>2 DEF OnceInv, Direct
<1>6. OnceSpent'
    <2>1. ASSUME NEW d \in Commands, runs'[d] > 0, d \notin raced
          PROVE  d \notin todo' /\ (Clearing(d)' \/ d \notin redis.cmds)
        <3>1. CASE d = c
            BY <1>1, <3>1 DEF Clearing
        <3>2. CASE d # c
            BY <1>1, <1>2, <2>1, <3>2 DEF OnceInv, OnceSpent, Clearing
        <3>. QED
            BY <3>1, <3>2
    <2>. QED
        BY <1>1, <2>1 DEF OnceSpent
<1>. QED
    BY <1>4, <1>5, <1>6 DEF OnceInv

(* While Redis works on both sides and the engine lives, only a write that *)
(* raced with a clearing can repeat a command.                             *)
THEOREM OnceWithoutRaces ==
    ASSUME ~Outages, ~Crashes
    PROVE  Spec => []OnceUnlessRaced
<1>1. Init /\ IInv => OnceInv
    <2>. SUFFICES ASSUME Init, IInv PROVE OnceInv
        OBVIOUS
    <2>1. \A c \in Commands : runs[c] = 0 /\ send[c].at = "new" /\ Snapped(c) = {}
        BY DEF Init, Snapped
    <2>2. redis.cmds = {} /\ todo = {} /\ robot.got = {} /\ panelUp /\ robotUp
        BY DEF Init
    <2>. QED
        BY <2>1, <2>2 DEF OnceInv, Steady, Direct, OnceSpent, OnceUnlessRaced
<1>2. OnceInv /\ IInv' /\ [Next]_vars => OnceInv'
    <2>. SUFFICES ASSUME OnceInv, IInv', [Next]_vars PROVE OnceInv'
        OBVIOUS
    <2>1. CASE \E c \in Commands : SendGet(c) \/ Deliver(c)
        BY <2>1, PanelOnce
    <2>2. CASE \E c \in Commands : Act(c)
        BY <2>2, ActsOnce
    <2>3. CASE Poll \/ ClearGet \/ ClearSet \/ ClearReread \/ ClearWrite \/ Tick
        BY <2>3, ClearsOnce
    <2>4. ~EngineDies /\ ~PanelConnection /\ ~RobotConnection
        BY DEF EngineDies, PanelConnection, RobotConnection
    <2>5. CASE UNCHANGED vars
        <3>1. UNCHANGED <<panelUp, robotUp, send, runs, robot, todo, redis, raced>>
            BY <2>5 DEF vars, panelVars, robotVars, history
        <3>2. OnceSpent'
            BY <3>1 DEF OnceInv, OnceSpent, Clearing
        <3>. QED
            BY <3>1, <3>2, LessIsDirect
    <2>. QED
        BY <2>1, <2>2, <2>3, <2>4, <2>5 DEF Next, RobotStep
<1>3. OnceInv => OnceUnlessRaced
    BY DEF OnceInv
<1>. QED
    BY <1>1, <1>2, <1>3, Invariance, PTL DEF Spec
=============================================================================

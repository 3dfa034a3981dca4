----------------------------- MODULE Connection -----------------------------
(***************************************************************************)
(* The robot's session at the MT5 bridge (live_trading/mt5/connector.py):  *)
(* module-level state that every task of the robot reads and writes, a     *)
(* lock that only connect() and disconnect() take, and requests that       *)
(* forget the session when they fail.                                      *)
(*                                                                         *)
(* A task runs until it awaits something.  call[t].at says which answer    *)
(* task t awaits; "yes", "no" and "send" are places it does not wait in,   *)
(* so no other task moves while one is there (Quiet).  What the tasks call *)
(* is up to the module that extends this one.                              *)
(***************************************************************************)
EXTENDS Naturals, FiniteSets

CONSTANTS Tasks,           \* who uses the connection
          NoTask,
          Ids,             \* session ids; a slot nobody names is used again
          NoId,
          StartAttempts,   \* attempts of connect_with_retry at a start (12)
          EnsureAttempts,  \* and in ensure_connected (3)
          Worlds           \* the worlds to look at: which of these may happen
                           \*   gathers: a tick polls several timeframes at once
                           \*   calms: the bridge comes to answer for good

ASSUME ConnectionAssumption ==
    /\ NoTask \notin Tasks /\ Ids \subseteq Nat \ {NoId}
    /\ StartAttempts \in Nat \ {0} /\ EnsureAttempts \in Nat \ {0}
    /\ Worlds \subseteq [gathers : BOOLEAN, calms : BOOLEAN]

VARIABLES
    world,      \* the world this behaviour is in
    conn,       \* [id, connected, base, fresh]: _conn_id, _connected, whether
                \* _base_url is set, and whether the grace period still runs
    lock,       \* the task that holds _reconnect_lock
    call,       \* what each task is doing in here
    sessions,   \* the sessions the bridge holds
    lost,       \* history: those the robot dropped without a Disconnect
    calm        \* from now on the bridge answers, and truthfully

connectionVars == <<world, conn, lock, call, sessions, lost, calm>>

NoConn == [id |-> NoId, connected |-> FALSE, base |-> FALSE, fresh |-> FALSE]

(* use: what asked for the connection; id: the session whose answer is     *)
(* awaited; prev, was: what a handshake read before its first await; left: *)
(* attempts left after this one; again: a request may be repeated.         *)
Idle == [at |-> "out", use |-> "none", id |-> NoId, prev |-> NoId,
         was |-> FALSE, left |-> 0, again |-> FALSE]

Places == {"out", "yes", "no", "send", "status", "lock", "connectex", "ready",
           "undo", "cleanup", "sleep", "dlock", "closing", "request", "probe"}

Handshake == {"connectex", "ready", "undo", "cleanup"}

Connecting == Handshake \cup {"lock", "sleep"}

Quiet == \A t \in Tasks : call[t].at \notin {"yes", "no", "send"}

Named == {conn.id} \cup UNION {{call[t].id, call[t].prev} : t \in Tasks}

(* The id of a new session: which of the free slots it takes is all one.   *)
NewId == {i \in Ids \ Named : \A j \in Ids \ Named : i <= j}

Live == conn.connected /\ conn.id \in sessions

Go(t, r) == call' = [call EXCEPT ![t] = r]

(* A call that ends: the caller goes on, or the request is sent. *)
Result(r, ok) ==
    [Idle EXCEPT !.use = r.use, !.again = r.again,
                 !.at = IF ~ok THEN "no"
                        ELSE IF r.use = "request" THEN "send" ELSE "yes"]

-----------------------------------------------------------------------------
(* connect, connect_with_retry and ensure_connected, for a task whose view *)
(* of the module state is c (it may have changed it in the same step).     *)

(* asyncio.Lock goes to a task that waits for it before anybody else. *)
Release(t) ==
    LET waiting == {u \in Tasks \ {t} : call[u].at \in {"lock", "dlock"}}
    IN  lock' \in IF waiting = {} THEN {NoTask} ELSE waiting

(* Mutant of Free: the handshake is not kept under the lock. *)
FreeAlways == lock \in Tasks \cup {NoTask}

Free == lock = NoTask

(* connect() under the lock: it looks again, and _connect_unlocked reads   *)
(* the previous session before it awaits the answer to /ConnectEx.         *)
Locked(t, c, r) ==
    IF c.connected /\ c.id # NoId /\ c.fresh
    THEN /\ conn' = c
         /\ Release(t)
         /\ Go(t, Result(r, TRUE))
    ELSE /\ conn' = [c EXCEPT !.base = TRUE]
         /\ lock' = t
         /\ Go(t, [r EXCEPT !.at = "connectex", !.id = NoId,
                            !.prev = c.id, !.was = c.connected])

Connect(t, c, r) ==
    IF Free
    THEN Locked(t, c, r)
    ELSE /\ conn' = c
         /\ Go(t, [r EXCEPT !.at = "lock"])
         /\ UNCHANGED lock

ConnectWithRetry(t, c, r, attempts) ==
    Connect(t, c, [r EXCEPT !.id = NoId, !.left = attempts - 1])

EnsureConnected(t, c, r) ==
    IF c.id # NoId /\ c.connected /\ c.fresh
    THEN conn' = c /\ Go(t, Result(r, TRUE)) /\ UNCHANGED lock
    ELSE IF c.id # NoId /\ c.base
    THEN conn' = c /\ Go(t, [r EXCEPT !.at = "status", !.id = c.id]) /\ UNCHANGED lock
    ELSE ConnectWithRetry(t, [c EXCEPT !.connected = FALSE], r, EnsureAttempts)

(* The answer to ConnectionStatus for the id that was asked about.  An     *)
(* answer that says alive makes whatever id is in force connected.         *)
StatusAlive(t) ==
    /\ Quiet
    /\ call[t].at = "status"
    /\ call[t].id \in sessions
    /\ conn' = [conn EXCEPT !.connected = TRUE]
    /\ Go(t, Result(call[t], TRUE))
    /\ UNCHANGED <<lock, sessions, lost, world, calm>>

(* Any other answer, or none, says that the connection is down.            *)
StatusDead(t) ==
    /\ Quiet
    /\ call[t].at = "status"
    /\ ~calm \/ call[t].id \notin sessions
    /\ ConnectWithRetry(t, [conn EXCEPT !.connected = FALSE], call[t], EnsureAttempts)
    /\ UNCHANGED <<sessions, lost, world, calm>>

GetLock(t) ==
    /\ Quiet
    /\ call[t].at = "lock" /\ lock = t
    /\ Locked(t, conn, call[t])
    /\ UNCHANGED <<sessions, lost, world, calm>>

(* An attempt has failed: the lock is released, and unless it was the last *)
(* the task sleeps before the next.                                        *)
AttemptFails(t, c) ==
    /\ conn' = c
    /\ Release(t)
    /\ Go(t, IF call[t].left > 0
             THEN [call[t] EXCEPT !.at = "sleep", !.id = NoId, !.prev = NoId,
                                  !.was = FALSE, !.left = @ - 1]
             ELSE Result(call[t], FALSE))

(* /ConnectEx fails, or its answer is lost and the bridge keeps a session. *)
ConnectExFails(t) ==
    /\ Quiet
    /\ ~calm
    /\ call[t].at = "connectex"
    /\ AttemptFails(t, [conn EXCEPT !.connected = FALSE])
    /\ \/ UNCHANGED <<sessions, lost>>
       \/ \E i \in NewId : sessions' = sessions \cup {i} /\ lost' = lost \cup {i}
    /\ UNCHANGED <<world, calm>>

ConnectExAnswers(t) ==
    /\ Quiet
    /\ call[t].at = "connectex"
    /\ \E i \in NewId :
           /\ sessions' = sessions \cup {i}
           /\ lost' = lost \ {i}
           /\ Go(t, [call[t] EXCEPT !.at = "ready", !.id = i])
    /\ UNCHANGED <<conn, lock, world, calm>>

(* Mutant of Ready: nobody closes the session of before. *)
ReadyKeepsPrevious(t) ==
    LET r == call[t]
    IN  /\ Quiet
        /\ r.at = "ready"
        /\ r.id \in sessions
        /\ conn' = [conn EXCEPT !.id = r.id, !.connected = TRUE, !.fresh = TRUE]
        /\ Release(t)
        /\ Go(t, Result(r, TRUE))
        /\ UNCHANGED <<sessions, lost, world, calm>>

(* _wait_for_broker_ready: the new session is in force before the previous *)
(* one is closed.                                                          *)
Ready(t) ==
    LET r == call[t]
        closing == r.prev # NoId
    IN  /\ Quiet
        /\ r.at = "ready"
        /\ r.id \in sessions
        /\ conn' = [conn EXCEPT !.id = r.id, !.connected = TRUE, !.fresh = TRUE]
        /\ IF closing THEN UNCHANGED lock ELSE Release(t)
        /\ Go(t, IF closing THEN [r EXCEPT !.at = "cleanup", !.id = r.prev, !.prev = NoId,
                                     !.was = FALSE, !.left = 0]
                 ELSE Result(r, TRUE))
        /\ UNCHANGED <<sessions, lost, world, calm>>

NotReady(t) ==
    /\ Quiet
    /\ call[t].at = "ready"
    /\ ~calm \/ call[t].id \notin sessions
    /\ Go(t, [call[t] EXCEPT !.at = "undo"])
    /\ UNCHANGED <<conn, lock, sessions, lost, world, calm>>

(* What a Disconnect of a session does; it may not arrive. *)
Disconnected(i) ==
    \/ sessions' = sessions \ {i} /\ lost' = lost \ {i}
    \/ ~calm /\ lost' = lost \cup ({i} \cap sessions) /\ UNCHANGED sessions

(* A session that did not become ready is closed, and then the values read *)
(* before the handshake are put back, whatever has happened since.         *)
Undone(t) ==
    /\ Quiet
    /\ call[t].at = "undo"
    /\ Disconnected(call[t].id)
    /\ AttemptFails(t, [conn EXCEPT !.connected = call[t].was, !.id = call[t].prev])
    /\ UNCHANGED <<world, calm>>

CleanedUp(t) ==
    /\ Quiet
    /\ call[t].at = "cleanup"
    /\ Disconnected(call[t].id)
    /\ Release(t)
    /\ Go(t, Result(call[t], TRUE))
    /\ UNCHANGED <<conn, world, calm>>

Retry(t) ==
    /\ Quiet
    /\ call[t].at = "sleep"
    /\ Connect(t, conn, call[t])
    /\ UNCHANGED <<sessions, lost, world, calm>>

ConnectStep(t) ==
    \/ StatusAlive(t) \/ StatusDead(t) \/ GetLock(t)
    \/ ConnectExFails(t) \/ ConnectExAnswers(t) \/ Ready(t) \/ NotReady(t)
    \/ Undone(t) \/ CleanedUp(t) \/ Retry(t)

-----------------------------------------------------------------------------
(* disconnect(): the state is cleared first, under the lock. *)

Close(t) ==
    /\ conn' = [conn EXCEPT !.id = NoId, !.connected = FALSE, !.base = FALSE]
    /\ lock' = t
    /\ Go(t, [Idle EXCEPT !.at = "closing", !.id = conn.id])

Disconnect(t) ==
    IF Free THEN Close(t)
    ELSE Go(t, [Idle EXCEPT !.at = "dlock"]) /\ UNCHANGED <<conn, lock>>

GetCloseLock(t) ==
    /\ Quiet
    /\ call[t].at = "dlock" /\ lock = t
    /\ Close(t)
    /\ UNCHANGED <<sessions, lost, world, calm>>

Closed(t) ==
    /\ Quiet
    /\ call[t].at = "closing"
    /\ Disconnected(call[t].id)
    /\ Release(t)
    /\ Go(t, [Idle EXCEPT !.at = "yes"])
    /\ UNCHANGED <<conn, world, calm>>

CloseStep(t) == GetCloseLock(t) \/ Closed(t)

-----------------------------------------------------------------------------
(* A request of any kind -- symbols, account, positions, history, quote,   *)
(* candles: connect only if there is no id, send, and repeat once.         *)

Ask(t) ==
    LET r == [Idle EXCEPT !.use = "request", !.again = TRUE]
    IN  IF conn.id = NoId
        THEN EnsureConnected(t, conn, r)
        ELSE Go(t, [r EXCEPT !.at = "request", !.id = conn.id]) /\ UNCHANGED <<conn, lock>>

Send(t) ==
    /\ call[t].at = "send"
    /\ Go(t, [call[t] EXCEPT !.at = "request", !.id = conn.id])
    /\ UNCHANGED <<conn, lock, sessions, lost, world, calm>>

Answered(t) ==
    /\ Quiet
    /\ call[t].at = "request"
    /\ call[t].id \in sessions
    /\ Go(t, [Idle EXCEPT !.at = "yes"])
    /\ UNCHANGED <<conn, lock, sessions, lost, world, calm>>

(* _invalidate_connection: whatever session is in force is forgotten, also *)
(* when the failed request was sent with an older one.                     *)
Invalidated == [conn EXCEPT !.id = NoId, !.connected = FALSE]

Forgotten == lost \cup ({conn.id} \cap sessions)

RequestFails(t) ==
    /\ Quiet
    /\ call[t].at = "request"
    /\ call[t].again
    /\ ~calm \/ call[t].id \notin sessions
    /\ lost' = Forgotten
    /\ EnsureConnected(t, Invalidated, [call[t] EXCEPT !.again = FALSE])
    /\ UNCHANGED <<sessions, world, calm>>

(* The second failure, and an error that does not mean a lost session.     *)
RequestGivesUp(t) ==
    /\ Quiet
    /\ call[t].at = "request"
    /\ ~calm \/ call[t].id \notin sessions
    /\ Go(t, [Idle EXCEPT !.at = "no"])
    /\ UNCHANGED <<conn, lock, sessions, lost, world, calm>>

RequestStep(t) == Send(t) \/ Answered(t) \/ RequestFails(t) \/ RequestGivesUp(t)

-----------------------------------------------------------------------------
(* A task is cancelled at an await: "async with" gives the lock back, but  *)
(* a session that it was about to close stays behind, and so does one that *)
(* /ConnectEx opens although nobody waits for the answer any more.         *)
Cancel(t, r) ==
    /\ IF lock = t THEN Release(t) ELSE UNCHANGED lock
    /\ \/ /\ lost' = IF call[t].at \in {"ready", "undo", "cleanup", "closing"}
                     THEN lost \cup ({call[t].id} \cap sessions)
                     ELSE lost
          /\ UNCHANGED sessions
       \/ /\ call[t].at = "connectex"
          /\ \E i \in NewId : sessions' = sessions \cup {i} /\ lost' = lost \cup {i}
    /\ Go(t, r)

-----------------------------------------------------------------------------
(* The bridge and the clock. *)

GraceEnds ==
    /\ conn.fresh
    /\ conn' = [conn EXCEPT !.fresh = FALSE]
    /\ UNCHANGED <<lock, call, sessions, lost, world, calm>>

BridgeDrops ==
    /\ ~calm
    /\ \E i \in sessions : sessions' = sessions \ {i} /\ lost' = lost \ {i}
    /\ UNCHANGED <<conn, lock, call, world, calm>>

BecomesCalm ==
    /\ world.calms
    /\ ~calm
    /\ calm' = TRUE
    /\ UNCHANGED <<world, conn, lock, call, sessions, lost>>

BridgeStep == Quiet /\ (GraceEnds \/ BridgeDrops \/ BecomesCalm)

ConnectionInit ==
    /\ world \in Worlds
    /\ conn = NoConn
    /\ lock = NoTask
    /\ call = [t \in Tasks |-> Idle]
    /\ sessions = {} /\ lost = {}
    /\ calm = FALSE
=============================================================================

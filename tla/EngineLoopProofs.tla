-------------------------- MODULE EngineLoopProofs --------------------------
(***************************************************************************)
(* Why at most one task opens or closes sessions, why no session gets lost *)
(* unnoticed, and why nothing touches the connection between two engines,  *)
(* for any number of session ids, attempts and timeframes polled at once.  *)
(* Every step of a task in the connector is shown to be one of a few moves *)
(* (Moves): it hands the lock over properly, it accounts for every         *)
(* session, and it leaves the session in force alone unless it holds the   *)
(* lock or forgets it.                                                     *)
(***************************************************************************)
EXTENDS EngineLoop, TLAPS

Calls == [at : Places, use : {"none", "request"},
          id : Ids \cup {NoId}, prev : Ids \cup {NoId},
          was : BOOLEAN, again : BOOLEAN,
          left : 0..StartAttempts + EnsureAttempts]

Conns == [id : Ids \cup {NoId}, connected : BOOLEAN, base : BOOLEAN, fresh : BOOLEAN]

(* Where a task holds the lock, waits for it, reads an answer that may     *)
(* make a session, and has a session that only it knows of.                *)
Holding == Handshake \cup {"closing"}
Queued == {"lock", "dlock"}
Opening == {"connectex", "ready", "undo"}
Owning == {"ready", "undo", "cleanup", "closing"}

Own(r) == IF r.at \in Owning THEN {r.id} ELSE {}

(* The task that has the lock is in the handshake, closes a session, or    *)
(* has just been given it.                                                 *)
LockUsed == \A t \in Tasks : lock = t => call[t].at \in Holding \cup Queued

(* Every session is in force, a task is busy with it, or it is lost.       *)
Accounted == sessions \ lost \subseteq {conn.id} \cup UNION {Own(call[t]) : t \in Tasks}

(* Nobody puts another session in force while one is opened.               *)
OpensAlone ==
    \A t \in Tasks : call[t].at \in Opening => conn.id \in {NoId, call[t].prev}

(* A task that is outside remembers nothing of its calls. *)
OutIsIdle == \A t \in Tasks : call[t].at = "out" => call[t] = Idle

(* Between two engines and while one ends; and the pollers, which are      *)
(* there while a tick works or is cancelled.                               *)
StageOK ==
    /\ stage \notin {"work", "ending"} => PollersOut
    /\ ~watching => call[Watchdog] = Idle
    /\ stage \in {"down", "closing"} => ~watching
    /\ stage = "down" => call[Engine] = Idle
    /\ stage = "closing" => call[Engine].at \in {"dlock", "closing", "yes"}
    /\ stage = "down" \/ (stage = "closing" /\ call[Engine].at # "dlock")
           => conn.id = NoId /\ ~conn.connected

(* The conjuncts of TypeOK, and what is said of the connection. *)
ConnectionOK ==
    /\ conn \in Conns
    /\ lock \in Tasks \cup {NoTask}
    /\ call \in [Tasks -> Calls]
    /\ sessions \subseteq Ids /\ lost \subseteq sessions
    /\ world \in Worlds /\ calm \in BOOLEAN

LoopOK ==
    /\ stage \in Stages
    /\ paused \in BOOLEAN
    /\ watching \in BOOLEAN /\ failures \in 0..1

Steady == ConnectionOK /\ OneHandshake /\ LockUsed /\ Accounted /\ OpensAlone /\ OutIsIdle

IInv == Steady /\ LoopOK /\ StageOK

-----------------------------------------------------------------------------
(* What a task does to the lock when its call becomes r: take it free,     *)
(* keep it, give it to nobody or to one who waits, or leave it alone.      *)
LockMoves(t, r) ==
    IF r.at \in Holding
    THEN lock \in {NoTask, t} /\ lock' = t
    ELSE \/ lock # t /\ lock' = lock
         \/ lock \in {NoTask, t} /\ lock' = NoTask
         \/ /\ lock \in {NoTask, t}
            /\ \E u \in Tasks \ {t} : lock' = u /\ call[u].at \in Queued

(* What it does to the session in force. *)
ConnMoves(t, r) ==
    /\ conn' \in Conns
    /\ conn'.id \in {NoId, conn.id} \/ call[t].at \in Opening
    /\ r.at \in Opening => conn'.id \in {NoId, r.prev}

(* No session slips through. *)
SessionMoves(t, r) ==
    /\ sessions' \subseteq Ids /\ lost' \subseteq sessions'
    /\ sessions' \ lost' \subseteq
           {conn'.id} \cup Own(r) \cup ((sessions \ lost) \ ({conn.id} \cup Own(call[t])))

Becomes(t, r) ==
    /\ r \in Calls /\ (r.at = "out" => r = Idle)
    /\ call' = [call EXCEPT ![t] = r]
    /\ LockMoves(t, r)
    /\ ConnMoves(t, r)
    /\ SessionMoves(t, r)

Moves(t) == UNCHANGED <<world, calm>> /\ \E r \in Calls : Becomes(t, r)

-----------------------------------------------------------------------------
(* A move of a task keeps what is steady. *)
LEMMA MoveKeeps ==
    ASSUME Steady, NEW t \in Tasks, Moves(t)
    PROVE  Steady'
<1>1. PICK r \in Calls : Becomes(t, r)
    BY DEF Moves
<1>2. /\ call'[t] = r
      /\ \A u \in Tasks : u # t => call'[u] = call[u]
    BY <1>1 DEF Becomes, Steady, ConnectionOK
<1>3. ConnectionOK'
    BY <1>1 DEF Becomes, Steady, ConnectionOK, ConnMoves, SessionMoves, LockMoves, Moves
<1>4. OneHandshake' /\ LockUsed'
    BY <1>1, <1>2, ConnectionAssumption
       DEF Becomes, LockMoves, Steady, OneHandshake, LockUsed, Holding, Queued, Handshake
<1>5. Accounted'
    <2>. SUFFICES ASSUME NEW i \in sessions' \ lost', i # conn'.id
                  PROVE  \E u \in Tasks : i \in Own(call'[u])
        BY DEF Accounted, Own
    <2>1. CASE i \in Own(r)
        BY <1>2, <2>1
    <2>2. CASE i \in sessions \ lost /\ i # conn.id /\ i \notin Own(call[t])
        <3>1. PICK u \in Tasks : i \in Own(call[u])
            BY <2>2 DEF Steady, Accounted
        <3>. QED
            BY <1>2, <2>2, <3>1
    <2>. QED
        BY <1>1, <2>1, <2>2 DEF Becomes, SessionMoves
<1>6. OpensAlone'
    <2>. SUFFICES ASSUME NEW u \in Tasks, call'[u].at \in Opening
                  PROVE  conn'.id \in {NoId, call'[u].prev}
        BY DEF OpensAlone
    <2>1. CASE u = t
        BY <1>1, <1>2, <2>1 DEF Becomes, ConnMoves
    <2>2. CASE u # t
        <3>1. call[u].at \in Opening /\ lock = u
            BY <1>2, <2>2 DEF Opening, Handshake, Steady, OneHandshake
        <3>2. call[t].at \notin Opening
            BY <2>2, <3>1 DEF Opening, Handshake, Steady, OneHandshake
        <3>. QED
            BY <1>1, <1>2, <2>2, <3>1, <3>2 DEF Becomes, ConnMoves, Steady, OpensAlone
    <2>. QED
        BY <2>1, <2>2
<1>7. OutIsIdle'
    BY <1>1, <1>2 DEF OutIsIdle, Becomes, Steady
<1>. QED
    BY <1>3, <1>4, <1>5, <1>6, <1>7 DEF Steady

-----------------------------------------------------------------------------
(* The operators of the connector. *)

(* A task that begins to connect knows of no session of its own; the one   *)
(* in force stays so, or was forgotten.                                    *)
Begins(t, c) ==
    /\ call[t].at \notin Owning
    /\ c \in Conns
    /\ sessions' = sessions /\ lost \subseteq lost' /\ lost' \subseteq sessions
    /\ c.id = conn.id \/ (c.id = NoId /\ {conn.id} \cap sessions \subseteq lost')

(* The rest of such a step. *)
LEMMA BeginsMoves ==
    ASSUME Steady, NEW t \in Tasks, NEW c, Begins(t, c), conn' \in Conns, conn'.id = c.id,
           NEW r \in Calls, r.at \notin Owning,
           r.at \in Opening => conn'.id \in {NoId, r.prev}
    PROVE  ConnMoves(t, r) /\ SessionMoves(t, r)
<1>1. ConnMoves(t, r)
    BY DEF ConnMoves, Begins
<1>2. SessionMoves(t, r)
    BY DEF SessionMoves, Begins, Own, Steady, ConnectionOK
<1>. QED
    BY <1>1, <1>2

(* The attempts left stay within their bounds. *)
LEMMA AttemptsTyped ==
    /\ 0 \in 0..StartAttempts + EnsureAttempts
    /\ \A a \in {StartAttempts, EnsureAttempts} : a - 1 \in 0..StartAttempts + EnsureAttempts
    /\ \A l \in 0..StartAttempts + EnsureAttempts :
           l > 0 => l - 1 \in 0..StartAttempts + EnsureAttempts
BY ConnectionAssumption

(* A call ends in one of three places. *)
LEMMA ResultTyped ==
    ASSUME NEW r \in Calls, NEW ok \in BOOLEAN
    PROVE  Result(r, ok) \in Calls /\ Result(r, ok).at \in {"yes", "no", "send"}
<1>1. r.use \in {"none", "request"} /\ r.again \in BOOLEAN
    BY DEF Calls
<1>2. Idle \in Calls
    BY AttemptsTyped DEF Idle, Calls, Places
<1>3. Result(r, ok).at \in {"yes", "no", "send"}
    BY DEF Result, Idle
<1>. QED
    BY <1>1, <1>2, <1>3 DEF Result, Idle, Calls, Places

(* asyncio.Lock goes to one who waits, or to nobody. *)
LEMMA ReleaseMoves ==
    ASSUME Steady, NEW t \in Tasks, Release(t), lock \in {NoTask, t},
           NEW r, r.at \notin Holding
    PROVE  LockMoves(t, r)
BY DEF Release, LockMoves, Queued

(* connect() under the lock: the session is there, or a handshake begins. *)
LEMMA LockedMoves ==
    ASSUME Steady, NEW t \in Tasks, NEW c, Begins(t, c), lock \in {NoTask, t},
           NEW r \in Calls, Locked(t, c, r)
    PROVE  \E q \in Calls : Becomes(t, q)
<1>1. CASE c.connected /\ c.id # NoId /\ c.fresh
    <2>. DEFINE q == Result(r, TRUE)
    <2>1. /\ conn' = c /\ Release(t) /\ call' = [call EXCEPT ![t] = q]
        BY <1>1 DEF Locked, Go
    <2>2. q \in Calls /\ q.at \in {"yes", "no", "send"}
        BY ResultTyped
    <2>3. q.at \notin Holding \cup Owning \cup Opening
        BY <2>2 DEF Holding, Owning, Opening, Handshake
    <2>. HIDE DEF q
    <2>4. ConnMoves(t, q) /\ SessionMoves(t, q)
        BY <2>1, <2>2, <2>3, BeginsMoves DEF Begins
    <2>. QED
        BY <2>1, <2>2, <2>3, <2>4, ReleaseMoves DEF Becomes
<1>2. CASE ~(c.connected /\ c.id # NoId /\ c.fresh)
    <2>. DEFINE q == [r EXCEPT !.at = "connectex", !.id = NoId, !.prev = c.id,
                               !.was = c.connected]
    <2>1. conn' = [c EXCEPT !.base = TRUE] /\ lock' = t /\ call' = [call EXCEPT ![t] = q]
        BY <1>2 DEF Locked, Go
    <2>2. q \in Calls /\ q.at = "connectex" /\ q.prev = c.id
        BY DEF Calls, Conns, Begins, Places
    <2>3. conn' \in Conns /\ conn'.id = c.id
        BY <2>1 DEF Conns, Begins
    <2>. HIDE DEF q
    <2>4. LockMoves(t, q)
        BY <2>1, <2>2 DEF LockMoves, Holding, Handshake
    <2>5. ConnMoves(t, q) /\ SessionMoves(t, q)
        BY <2>2, <2>3, BeginsMoves DEF Owning
    <2>. QED
        BY <2>1, <2>2, <2>4, <2>5 DEF Becomes
<1>. QED
    BY <1>1, <1>2

(* What is left to a task that leaves the lock alone. *)
LEMMA LeavesLock ==
    ASSUME Steady, NEW t \in Tasks, call[t].at \notin Holding \cup Queued, lock' = lock,
           NEW r, r.at \notin Holding
    PROVE  LockMoves(t, r)
BY DEF Steady, LockUsed, LockMoves

(* connect() waits for the lock unless it is free. *)
LEMMA ConnectMoves ==
    ASSUME Steady, NEW t \in Tasks, NEW c, Begins(t, c),
           call[t].at \notin Holding \cup Queued,
           NEW r \in Calls, Connect(t, c, r)
    PROVE  \E q \in Calls : Becomes(t, q)
<1>1. CASE Free
    BY <1>1, LockedMoves DEF Free, Connect
<1>2. CASE ~Free
    <2>. DEFINE q == [r EXCEPT !.at = "lock"]
    <2>1. conn' = c /\ lock' = lock /\ call' = [call EXCEPT ![t] = q]
        BY <1>2 DEF Connect, Go
    <2>2. q \in Calls /\ q.at = "lock"
        BY DEF Calls, Places
    <2>. HIDE DEF q
    <2>3. LockMoves(t, q)
        BY <2>1, <2>2, LeavesLock DEF Holding, Handshake
    <2>4. ConnMoves(t, q) /\ SessionMoves(t, q)
        BY <2>1, <2>2, BeginsMoves DEF Owning, Opening, Begins
    <2>. QED
        BY <2>1, <2>2, <2>3, <2>4 DEF Becomes
<1>. QED
    BY <1>1, <1>2

(* connect_with_retry() counts its attempts. *)
LEMMA RetryMoves ==
    ASSUME Steady, NEW t \in Tasks, NEW c, Begins(t, c),
           call[t].at \notin Holding \cup Queued,
           NEW r \in Calls, NEW attempts \in {StartAttempts, EnsureAttempts},
           ConnectWithRetry(t, c, r, attempts)
    PROVE  \E q \in Calls : Becomes(t, q)
<1>. DEFINE q == [r EXCEPT !.id = NoId, !.left = attempts - 1]
<1>1. q \in Calls
    BY AttemptsTyped DEF Calls
<1>2. Connect(t, c, q)
    BY DEF ConnectWithRetry
<1>. HIDE DEF q
<1>. QED
    BY <1>1, <1>2, ConnectMoves

(* ensure_connected() trusts, asks or connects. *)
LEMMA EnsureMoves ==
    ASSUME Steady, NEW t \in Tasks, NEW c, Begins(t, c),
           call[t].at \notin Holding \cup Queued,
           NEW r \in Calls, EnsureConnected(t, c, r)
    PROVE  \E q \in Calls : Becomes(t, q)
<1>1. CASE c.id # NoId /\ c.connected /\ c.fresh
    <2>. DEFINE q == Result(r, TRUE)
    <2>1. /\ conn' = c /\ lock' = lock /\ call' = [call EXCEPT ![t] = q]
        BY <1>1 DEF EnsureConnected, Go
    <2>2. q \in Calls /\ q.at \in {"yes", "no", "send"}
        BY ResultTyped
    <2>3. q.at \notin Holding \cup Owning \cup Opening
        BY <2>2 DEF Holding, Owning, Opening, Handshake
    <2>. HIDE DEF q
    <2>4. ConnMoves(t, q) /\ SessionMoves(t, q)
        BY <2>1, <2>2, <2>3, BeginsMoves DEF Begins
    <2>. QED
        BY <2>1, <2>2, <2>3, <2>4, LeavesLock DEF Becomes
<1>2. CASE ~(c.id # NoId /\ c.connected /\ c.fresh) /\ c.id # NoId /\ c.base
    <2>. DEFINE q == [r EXCEPT !.at = "status", !.id = c.id]
    <2>1. conn' = c /\ lock' = lock /\ call' = [call EXCEPT ![t] = q]
        BY <1>2 DEF EnsureConnected, Go
    <2>2. q \in Calls /\ q.at = "status"
        BY DEF Calls, Places, Begins, Conns
    <2>. HIDE DEF q
    <2>3. LockMoves(t, q)
        BY <2>1, <2>2, LeavesLock DEF Holding, Handshake
    <2>4. ConnMoves(t, q) /\ SessionMoves(t, q)
        BY <2>1, <2>2, BeginsMoves DEF Owning, Opening, Begins
    <2>. QED
        BY <2>1, <2>2, <2>3, <2>4 DEF Becomes
<1>3. CASE ~(c.id # NoId /\ c.connected /\ c.fresh) /\ ~(c.id # NoId /\ c.base)
    <2>. DEFINE d == [c EXCEPT !.connected = FALSE]
    <2>1. ConnectWithRetry(t, d, r, EnsureAttempts)
        BY <1>3 DEF EnsureConnected
    <2>2. Begins(t, d)
        BY DEF Begins, Conns
    <2>. HIDE DEF d
    <2>. QED
        BY <2>1, <2>2, RetryMoves
<1>. QED
    BY <1>1, <1>2, <1>3

-----------------------------------------------------------------------------
(* The steps of a task in the connector. *)

(* The step only ends the call, or goes to a place outside the lock, with  *)
(* the connection as it is.                                                *)
LEMMA GoesMoves ==
    ASSUME Steady, NEW t \in Tasks, call[t].at \notin Holding \cup Queued,
           NEW r \in Calls, r.at \notin Holding, r.at = "out" => r = Idle, Go(t, r),
           UNCHANGED <<conn, lock, sessions, lost>>
    PROVE  Becomes(t, r)
<1>1. LockMoves(t, r)
    BY LeavesLock
<1>2. ConnMoves(t, r)
    BY DEF ConnMoves, Steady, ConnectionOK, Opening, Holding, Handshake
<1>3. SessionMoves(t, r)
    BY DEF SessionMoves, Own, Owning, Holding, Handshake, Steady, ConnectionOK
<1>. QED
    BY <1>1, <1>2, <1>3 DEF Becomes, Go

(* A call that begins with the connection as it is. *)
LEMMA BeginsAsIs ==
    ASSUME Steady, NEW t \in Tasks, call[t].at \notin Owning, UNCHANGED <<sessions, lost>>
    PROVE  /\ Begins(t, conn)
           /\ \A b \in BOOLEAN : Begins(t, [conn EXCEPT !.connected = b])
BY DEF Begins, Steady, ConnectionOK, Conns

(* A call that begins with the session in force forgotten. *)
LEMMA BeginsForgetting ==
    ASSUME Steady, NEW t \in Tasks, call[t].at \notin Owning,
           sessions' = sessions, lost' = Forgotten
    PROVE  Begins(t, Invalidated)
BY DEF Begins, Steady, ConnectionOK, Conns, Forgotten, Invalidated

(* The answer of ConnectionStatus, or none. *)
LEMMA StatusMoves ==
    ASSUME Steady, NEW t \in Tasks, StatusAlive(t) \/ StatusDead(t)
    PROVE  Moves(t)
<1>1. /\ call[t].at = "status" /\ call[t] \in Calls
      /\ call[t].at \notin Holding \cup Queued \cup Owning \cup Opening
    BY DEF StatusAlive, StatusDead, Holding, Queued, Owning, Opening, Handshake, Steady,
       ConnectionOK
<1>2. CASE StatusAlive(t)
    <2>. DEFINE q == Result(call[t], TRUE)
    <2>1. q \in Calls /\ q.at \in {"yes", "no", "send"}
        BY <1>1, ResultTyped
    <2>2. q.at \notin Holding \cup Owning \cup Opening
        BY <2>1 DEF Holding, Owning, Opening, Handshake
    <2>3. /\ conn' = [conn EXCEPT !.connected = TRUE] /\ call' = [call EXCEPT ![t] = q]
          /\ UNCHANGED <<lock, sessions, lost, world, calm>>
        BY <1>2 DEF StatusAlive, Go
    <2>. HIDE DEF q
    <2>4. ConnMoves(t, q) /\ SessionMoves(t, q)
        BY <1>1, <2>1, <2>2, <2>3, BeginsAsIs, BeginsMoves DEF Steady, ConnectionOK, Conns
    <2>5. LockMoves(t, q)
        BY <1>1, <2>2, <2>3, LeavesLock
    <2>. QED
        BY <2>1, <2>3, <2>4, <2>5 DEF Moves, Becomes
<1>3. CASE StatusDead(t)
    BY <1>1, <1>3, BeginsAsIs, RetryMoves DEF StatusDead, Moves
<1>. QED
    BY <1>2, <1>3

(* A task gets the lock, or tries again. *)
LEMMA LockStepMoves ==
    ASSUME Steady, NEW t \in Tasks, GetLock(t) \/ Retry(t)
    PROVE  Moves(t)
<1>1. call[t].at \notin Holding \cup Owning /\ call[t] \in Calls /\ Begins(t, conn)
    BY BeginsAsIs DEF GetLock, Retry, Holding, Owning, Handshake, Steady, ConnectionOK
<1>2. CASE GetLock(t)
    BY <1>1, <1>2, LockedMoves DEF GetLock, Moves
<1>3. CASE Retry(t)
    BY <1>1, <1>3, ConnectMoves DEF Retry, Moves, Queued
<1>. QED
    BY <1>2, <1>3

(* An attempt that fails gives the lock back; what it leaves behind is up  *)
(* to who calls this.                                                      *)
LEMMA FailMoves ==
    ASSUME Steady, NEW t \in Tasks, call[t].at \in Handshake,
           NEW c \in Conns, AttemptFails(t, c)
    PROVE  /\ conn' = c
           /\ \E q \in Calls : /\ call' = [call EXCEPT ![t] = q] /\ LockMoves(t, q)
                               /\ q.at \notin Owning \cup Opening \cup {"out"}
<1>. DEFINE s == [call[t] EXCEPT !.at = "sleep", !.id = NoId, !.prev = NoId,
                                 !.was = FALSE, !.left = @ - 1]
            f == Result(call[t], FALSE)
            q == IF call[t].left > 0 THEN s ELSE f
<1>1. call[t] \in Calls /\ lock = t
    BY DEF Steady, ConnectionOK, OneHandshake
<1>2. f \in Calls /\ f.at \in {"yes", "no", "send"}
    BY <1>1, ResultTyped
<1>3. call[t].left > 0 => s \in Calls /\ s.at = "sleep"
    BY <1>1, AttemptsTyped DEF Calls, Places
<1>4. conn' = c /\ Release(t) /\ call' = [call EXCEPT ![t] = q]
    BY DEF AttemptFails, Go
<1>. HIDE DEF s, f
<1>5. q \in Calls /\ q.at \in {"yes", "no", "send", "sleep"}
    BY <1>2, <1>3
<1>. HIDE DEF q
<1>6. q.at \notin Owning \cup Opening \cup Holding \cup {"out"}
    BY <1>5 DEF Owning, Opening, Holding, Handshake
<1>. QED
    BY <1>1, <1>4, <1>5, <1>6, ReleaseMoves

(* A new session has an id. *)
LEMMA NewIdIsId == NewId \subseteq Ids
BY DEF NewId

(* The answer to /ConnectEx, or none: a session may stay behind at the     *)
(* bridge.                                                                 *)
LEMMA ConnectExMoves ==
    ASSUME Steady, NEW t \in Tasks, ConnectExFails(t) \/ ConnectExAnswers(t)
    PROVE  Moves(t)
<1>1. /\ call[t].at = "connectex" /\ call[t] \in Calls /\ lock = t
      /\ conn.id \in {NoId, call[t].prev} /\ Own(call[t]) = {}
    BY DEF ConnectExFails, ConnectExAnswers, Steady, ConnectionOK, OneHandshake, Handshake,
       OpensAlone, Opening, Own, Owning
<1>2. CASE ConnectExFails(t)
    <2>. DEFINE c == [conn EXCEPT !.connected = FALSE]
    <2>1. c \in Conns /\ c.id = conn.id /\ AttemptFails(t, c) /\ UNCHANGED <<world, calm>>
        BY <1>2 DEF ConnectExFails, Steady, ConnectionOK, Conns
    <2>. HIDE DEF c
    <2>2. PICK q \in Calls : /\ call' = [call EXCEPT ![t] = q] /\ LockMoves(t, q)
                            /\ q.at \notin Owning \cup Opening \cup {"out"}
        BY <1>1, <2>1, FailMoves DEF Handshake
    <2>3. conn' = c
        BY <1>1, <2>1, FailMoves DEF Handshake
    <2>4. SessionMoves(t, q)
        BY <1>1, <1>2, <2>1, <2>2, <2>3, NewIdIsId
           DEF ConnectExFails, SessionMoves, Own, Steady, ConnectionOK
    <2>. QED
        BY <2>1, <2>2, <2>3, <2>4 DEF Moves, Becomes, ConnMoves
<1>3. CASE ConnectExAnswers(t)
    <2>1. PICK i \in NewId :
               /\ sessions' = sessions \cup {i} /\ lost' = lost \ {i}
               /\ call' = [call EXCEPT ![t] = [call[t] EXCEPT !.at = "ready", !.id = i]]
        BY <1>3 DEF ConnectExAnswers, Go
    <2>. DEFINE q == [call[t] EXCEPT !.at = "ready", !.id = i]
    <2>2. q \in Calls /\ q.at = "ready" /\ q.prev = call[t].prev /\ q.id = i
        BY <1>1, NewIdIsId DEF Calls, Places
    <2>3. call' = [call EXCEPT ![t] = q] /\ UNCHANGED <<conn, lock, world, calm>>
        BY <1>3, <2>1 DEF ConnectExAnswers
    <2>. HIDE DEF q
    <2>4. LockMoves(t, q) /\ ConnMoves(t, q)
        BY <1>1, <2>2, <2>3 DEF LockMoves, Holding, Handshake, ConnMoves, Steady, ConnectionOK
    <2>5. SessionMoves(t, q)
        BY <1>1, <2>1, <2>2, <2>3, NewIdIsId
           DEF SessionMoves, Own, Owning, Steady, ConnectionOK
    <2>. QED
        BY <2>2, <2>3, <2>4, <2>5 DEF Moves, Becomes
<1>. QED
    BY <1>2, <1>3

(* The new session is in force, or is to be undone. *)
LEMMA ReadyMoves ==
    ASSUME Steady, NEW t \in Tasks, Ready(t) \/ NotReady(t)
    PROVE  Moves(t)
<1>1. /\ call[t].at = "ready" /\ call[t] \in Calls /\ lock = t
      /\ conn.id \in {NoId, call[t].prev} /\ Own(call[t]) = {call[t].id}
    BY DEF Ready, NotReady, Steady, ConnectionOK, OneHandshake, Handshake, OpensAlone, Opening,
       Own, Owning
<1>2. NoId \notin sessions
    BY ConnectionAssumption DEF Steady, ConnectionOK
<1>3. CASE Ready(t)
    <2>. DEFINE c == [conn EXCEPT !.id = call[t].id, !.connected = TRUE, !.fresh = TRUE]
                k == [call[t] EXCEPT !.at = "cleanup", !.id = call[t].prev, !.prev = NoId,
                                     !.was = FALSE, !.left = 0]
                f == Result(call[t], TRUE)
    <2>1. conn' = c /\ UNCHANGED <<sessions, lost, world, calm>>
        BY <1>3 DEF Ready
    <2>2. c \in Conns /\ c.id = call[t].id
        BY <1>1 DEF Steady, ConnectionOK, Conns, Calls
    <2>. HIDE DEF c
    <2>3. CASE call[t].prev # NoId
        <3>1. k \in Calls /\ k.at = "cleanup" /\ k.id = call[t].prev
            BY <1>1, AttemptsTyped DEF Calls, Places
        <3>2. lock' = lock /\ call' = [call EXCEPT ![t] = k]
            BY <1>3, <2>3 DEF Ready, Go
        <3>. HIDE DEF k
        <3>3. LockMoves(t, k) /\ ConnMoves(t, k)
            BY <1>1, <2>1, <2>2, <3>1, <3>2 DEF LockMoves, ConnMoves, Holding, Handshake, Opening
        <3>4. SessionMoves(t, k)
            BY <1>1, <1>2, <2>1, <2>2, <3>1
               DEF SessionMoves, Own, Owning, Steady, ConnectionOK
        <3>. QED
            BY <2>1, <3>1, <3>2, <3>3, <3>4 DEF Moves, Becomes
    <2>4. CASE call[t].prev = NoId
        <3>1. f \in Calls /\ f.at \in {"yes", "no", "send"}
            BY <1>1, ResultTyped
        <3>2. Release(t) /\ call' = [call EXCEPT ![t] = f]
            BY <1>3, <2>4 DEF Ready, Go
        <3>3. f.at \notin Owning \cup Opening \cup Holding
            BY <3>1 DEF Owning, Opening, Holding, Handshake
        <3>. HIDE DEF f
        <3>4. LockMoves(t, f) /\ ConnMoves(t, f)
            BY <1>1, <2>1, <2>2, <3>1, <3>2, <3>3, ReleaseMoves DEF ConnMoves, Opening
        <3>5. SessionMoves(t, f)
            BY <1>1, <1>2, <2>1, <2>2, <2>4 DEF SessionMoves, Own, Steady, ConnectionOK
        <3>. QED
            BY <2>1, <3>1, <3>2, <3>4, <3>5 DEF Moves, Becomes
    <2>. QED
        BY <2>3, <2>4
<1>4. CASE NotReady(t)
    <2>. DEFINE q == [call[t] EXCEPT !.at = "undo"]
    <2>1. q \in Calls /\ q.at = "undo" /\ q.prev = call[t].prev /\ q.id = call[t].id
        BY <1>1 DEF Calls, Places
    <2>2. call' = [call EXCEPT ![t] = q] /\ UNCHANGED <<conn, lock, sessions, lost, world, calm>>
        BY <1>4 DEF NotReady, Go
    <2>. HIDE DEF q
    <2>3. LockMoves(t, q) /\ ConnMoves(t, q)
        BY <1>1, <2>1, <2>2 DEF LockMoves, Holding, Handshake, ConnMoves, Steady, ConnectionOK
    <2>4. SessionMoves(t, q)
        BY <1>1, <2>1, <2>2 DEF SessionMoves, Own, Owning, Steady, ConnectionOK
    <2>. QED
        BY <2>1, <2>2, <2>3, <2>4 DEF Moves, Becomes
<1>. QED
    BY <1>3, <1>4

(* A Disconnect that ends a call, whether it arrives or not. *)
LEMMA DisconnectedMoves ==
    ASSUME Steady, NEW t \in Tasks, Own(call[t]) = {call[t].id}, Disconnected(call[t].id),
           {conn.id} \cap sessions \subseteq {conn'.id} \cup lost' \cup {call[t].id},
           NEW q, q.at \notin Owning
    PROVE  SessionMoves(t, q)
BY DEF Disconnected, SessionMoves, Own, Steady, ConnectionOK

(* What was read before the handshake is put back. *)
LEMMA UndoneMoves ==
    ASSUME Steady, NEW t \in Tasks, Undone(t)
    PROVE  Moves(t)
<1>1. /\ call[t].at = "undo" /\ call[t] \in Calls /\ lock = t
      /\ conn.id \in {NoId, call[t].prev} /\ Own(call[t]) = {call[t].id}
    BY DEF Undone, Steady, ConnectionOK, OneHandshake, Handshake, OpensAlone, Opening, Own, Owning
<1>2. NoId \notin sessions
    BY ConnectionAssumption DEF Steady, ConnectionOK
<1>. DEFINE c == [conn EXCEPT !.connected = call[t].was, !.id = call[t].prev]
<1>3. c \in Conns /\ c.id = call[t].prev /\ AttemptFails(t, c) /\ UNCHANGED <<world, calm>>
    BY <1>1 DEF Undone, Steady, ConnectionOK, Conns, Calls
<1>. HIDE DEF c
<1>4. PICK q \in Calls : /\ call' = [call EXCEPT ![t] = q] /\ LockMoves(t, q)
                        /\ q.at \notin Owning \cup Opening \cup {"out"}
    BY <1>1, <1>3, FailMoves DEF Handshake
<1>5. conn' = c
    BY <1>1, <1>3, FailMoves DEF Handshake
<1>6. SessionMoves(t, q)
    BY <1>1, <1>2, <1>3, <1>4, <1>5, DisconnectedMoves DEF Undone
<1>7. ConnMoves(t, q)
    BY <1>1, <1>3, <1>4, <1>5 DEF ConnMoves, Opening
<1>. QED
    BY <1>3, <1>4, <1>6, <1>7 DEF Moves, Becomes

(* A session is closed, after a handshake or by disconnect(). *)
LEMMA ClosedMoves ==
    ASSUME Steady, NEW t \in Tasks, CleanedUp(t) \/ Closed(t)
    PROVE  Moves(t)
<1>1. /\ call[t].at \in {"cleanup", "closing"} /\ call[t] \in Calls /\ lock = t
      /\ Own(call[t]) = {call[t].id} /\ call[t].at \notin Opening
    BY DEF CleanedUp, Closed, Steady, ConnectionOK, OneHandshake, Handshake, Own, Owning, Opening
<1>2. PICK q \in Calls : q.at \in {"yes", "no", "send"} /\ call' = [call EXCEPT ![t] = q]
    <2>1. CASE CleanedUp(t)
        BY <1>1, <2>1, ResultTyped DEF CleanedUp, Go
    <2>2. CASE Closed(t)
        <3>1. [Idle EXCEPT !.at = "yes"] \in Calls
            BY AttemptsTyped DEF Idle, Calls, Places
        <3>. QED
            BY <2>2, <3>1 DEF Closed, Go, Idle
    <2>. QED
        BY <2>1, <2>2
<1>3. q.at \notin Owning \cup Opening \cup Holding
    BY <1>2 DEF Owning, Opening, Holding, Handshake
<1>4. UNCHANGED <<conn, world, calm>> /\ Disconnected(call[t].id) /\ Release(t)
    BY DEF CleanedUp, Closed
<1>5. LockMoves(t, q)
    BY <1>1, <1>3, <1>4, ReleaseMoves
<1>6. ConnMoves(t, q)
    BY <1>3, <1>4 DEF ConnMoves, Steady, ConnectionOK
<1>7. SessionMoves(t, q)
    BY <1>1, <1>3, <1>4, DisconnectedMoves
<1>. QED
    BY <1>2, <1>4, <1>5, <1>6, <1>7 DEF Moves, Becomes

(* connect(), connect_with_retry() and ensure_connected(). *)
LEMMA ConnectStepMoves ==
    ASSUME Steady, NEW t \in Tasks, ConnectStep(t)
    PROVE  Moves(t)
BY StatusMoves, LockStepMoves, ConnectExMoves, ReadyMoves, UndoneMoves, ClosedMoves
   DEF ConnectStep

(* disconnect() forgets the session before it closes it. *)
LEMMA CloseMoves ==
    ASSUME Steady, NEW t \in Tasks, call[t].at \notin Owning, lock \in {NoTask, t},
           Close(t), UNCHANGED <<sessions, lost>>
    PROVE  \E q \in Calls : Becomes(t, q)
<1>. DEFINE q == [Idle EXCEPT !.at = "closing", !.id = conn.id]
<1>1. q \in Calls /\ q.at = "closing" /\ q.id = conn.id
    BY AttemptsTyped DEF Idle, Calls, Places, Steady, ConnectionOK, Conns
<1>2. /\ conn' \in Conns /\ conn'.id = NoId /\ lock' = t
      /\ call' = [call EXCEPT ![t] = q]
    BY DEF Close, Go, Steady, ConnectionOK, Conns
<1>. HIDE DEF q
<1>3. LockMoves(t, q) /\ ConnMoves(t, q)
    BY <1>1, <1>2 DEF LockMoves, ConnMoves, Holding, Opening
<1>4. SessionMoves(t, q)
    BY <1>1, <1>2 DEF SessionMoves, Own, Owning, Steady, ConnectionOK
<1>. QED
    BY <1>1, <1>2, <1>3, <1>4 DEF Becomes

(* disconnect() waits for the lock unless it is free. *)
LEMMA DisconnectMoves ==
    ASSUME Steady, NEW t \in Tasks, call[t].at = "out", Disconnect(t),
           UNCHANGED <<sessions, lost>>
    PROVE  \E q \in Calls : Becomes(t, q)
<1>1. CASE Free
    BY <1>1, CloseMoves DEF Free, Disconnect, Owning
<1>2. CASE ~Free
    <2>1. [Idle EXCEPT !.at = "dlock"] \in Calls
        BY AttemptsTyped DEF Idle, Calls, Places
    <2>. QED
        BY <1>2, <2>1, GoesMoves DEF Disconnect, Holding, Handshake, Queued, Idle
<1>. QED
    BY <1>1, <1>2

(* The rest of disconnect(). *)
LEMMA CloseStepMoves ==
    ASSUME Steady, NEW t \in Tasks, CloseStep(t)
    PROVE  Moves(t)
BY ClosedMoves, CloseMoves DEF CloseStep, GetCloseLock, Moves, Owning

(* A request connects first if there is no session. *)
LEMMA AskMoves ==
    ASSUME Steady, NEW t \in Tasks, call[t].at = "out", Ask(t), UNCHANGED <<sessions, lost>>
    PROVE  \E q \in Calls : Becomes(t, q)
<1>. DEFINE r == [Idle EXCEPT !.use = "request", !.again = TRUE]
<1>1. r \in Calls
    BY AttemptsTyped DEF Idle, Calls, Places
<1>2. call[t].at \notin Holding \cup Queued \cup Owning
    BY DEF Holding, Handshake, Queued, Owning
<1>3. CASE conn.id = NoId
    BY <1>1, <1>2, <1>3, BeginsAsIs, EnsureMoves DEF Ask
<1>4. CASE conn.id # NoId
    <2>. DEFINE q == [r EXCEPT !.at = "request", !.id = conn.id]
    <2>1. q \in Calls /\ q.at = "request"
        BY <1>1 DEF Idle, Calls, Places, Steady, ConnectionOK, Conns
    <2>2. Go(t, q) /\ UNCHANGED <<conn, lock>>
        BY <1>4 DEF Ask
    <2>. HIDE DEF q
    <2>. QED
        BY <1>2, <2>1, <2>2, GoesMoves DEF Holding, Handshake
<1>. QED
    BY <1>3, <1>4

(* A request is answered, repeated once, or given up. *)
LEMMA RequestStepMoves ==
    ASSUME Steady, NEW t \in Tasks, RequestStep(t)
    PROVE  Moves(t)
<1>1. /\ call[t].at \in {"send", "request"} /\ call[t] \in Calls
      /\ call[t].at \notin Holding \cup Queued \cup Owning
    BY DEF RequestStep, Send, Answered, RequestFails, RequestGivesUp, Holding, Handshake,
       Queued, Owning, Steady, ConnectionOK
<1>2. ASSUME NEW r \in Calls, r.at \notin Holding \cup {"out"}, Go(t, r),
             UNCHANGED <<conn, lock, sessions, lost, world, calm>>
      PROVE  Moves(t)
    BY <1>1, <1>2, GoesMoves DEF Moves
<1>3. CASE Send(t)
    <2>. DEFINE q == [call[t] EXCEPT !.at = "request", !.id = conn.id]
    <2>1. q \in Calls /\ q.at = "request"
        BY <1>1 DEF Calls, Places, Steady, ConnectionOK, Conns
    <2>2. Go(t, q) /\ UNCHANGED <<conn, lock, sessions, lost, world, calm>>
        BY <1>3 DEF Send
    <2>. HIDE DEF q
    <2>. QED
        BY <1>2, <2>1, <2>2 DEF Holding, Handshake
<1>4. CASE Answered(t) \/ RequestGivesUp(t)
    <2>1. /\ [Idle EXCEPT !.at = "yes"] \in Calls /\ [Idle EXCEPT !.at = "no"] \in Calls
          /\ [Idle EXCEPT !.at = "yes"].at = "yes" /\ [Idle EXCEPT !.at = "no"].at = "no"
        BY AttemptsTyped DEF Idle, Calls, Places
    <2>. QED
        BY <1>2, <1>4, <2>1 DEF Answered, RequestGivesUp, Holding, Handshake
<1>5. CASE RequestFails(t)
    <2>. DEFINE r == [call[t] EXCEPT !.again = FALSE]
    <2>1. r \in Calls
        BY <1>1 DEF Calls
    <2>2. EnsureConnected(t, Invalidated, r) /\ Begins(t, Invalidated) /\ UNCHANGED <<world, calm>>
        BY <1>1, <1>5, BeginsForgetting DEF RequestFails
    <2>. HIDE DEF r
    <2>. QED
        BY <1>1, <2>1, <2>2, EnsureMoves DEF Moves
<1>. QED
    BY <1>3, <1>4, <1>5 DEF RequestStep

(* A cancelled task gives the lock back, and its session is lost. *)
LEMMA CancelMoves ==
    ASSUME Steady, NEW t \in Tasks, NEW r \in Calls, r = Idle \/ r.at = "no", Cancel(t, r),
           UNCHANGED <<conn, world, calm>>
    PROVE  Moves(t)
<1>1. r.at \notin Owning \cup Opening \cup Holding
    BY DEF Owning, Opening, Holding, Handshake, Idle
<1>2. LockMoves(t, r)
    <2>1. CASE lock = t
        BY <1>1, <2>1, ReleaseMoves DEF Cancel
    <2>2. CASE lock # t
        BY <1>1, <2>2 DEF Cancel, LockMoves
    <2>. QED
        BY <2>1, <2>2
<1>3. ConnMoves(t, r)
    BY <1>1 DEF ConnMoves, Steady, ConnectionOK
<1>4. SessionMoves(t, r)
    <2>1. CASE sessions' = sessions
        BY <1>1, <2>1 DEF SessionMoves, Cancel, Own, Owning, Steady, ConnectionOK
    <2>2. CASE sessions' # sessions
        <3>1. PICK i \in NewId : sessions' = sessions \cup {i} /\ lost' = lost \cup {i}
            BY <2>2 DEF Cancel
        <3>2. call[t].at = "connectex"
            BY <2>2 DEF Cancel
        <3>. QED
            BY <1>1, <3>1, <3>2, NewIdIsId DEF SessionMoves, Own, Owning, Steady, ConnectionOK
    <2>. QED
        BY <2>1, <2>2
<1>. QED
    BY <1>2, <1>3, <1>4 DEF Moves, Becomes, Cancel, Go

-----------------------------------------------------------------------------
(* The steps of the engine, of the watchdog and of the bridge. *)

(* A call that has not begun, and one that failed. *)
LEMMA IdleTyped ==
    /\ Idle \in Calls /\ Idle.at = "out"
    /\ [Idle EXCEPT !.at = "no"] \in Calls /\ [Idle EXCEPT !.at = "no"].at = "no"
BY AttemptsTyped DEF Idle, Calls, Places

(* The engine, its watchdog and its pollers. *)
LEMMA AllTasks ==
    /\ Engine \in Tasks /\ Watchdog \in Tasks /\ Engine # Watchdog
    /\ \A p \in Pollers : p \in Tasks /\ p # Engine /\ p # Watchdog
BY EngineAssumption

(* Where a task is when it begins something. *)
LEMMA Outside ==
    ASSUME NEW t \in Tasks, call[t].at \in {"out", "yes", "no", "probe", "request", "status"}
    PROVE  call[t].at \notin Holding \cup Queued \cup Owning \cup Opening
BY DEF Holding, Queued, Owning, Opening, Handshake

(* A task outside the lock goes on with the connection as it is. *)
LEMMA GoesAsIs ==
    ASSUME Steady, NEW t \in Tasks, call[t].at \in {"out", "yes", "no", "probe", "request"},
           NEW r \in Calls, r.at = "probe" \/ r = Idle, Go(t, r),
           UNCHANGED <<conn, lock, sessions, lost, world, calm>>
    PROVE  Moves(t)
BY Outside, GoesMoves, IdleTyped DEF Moves, Holding, Handshake

(* ensure_connected() with the connection as it is. *)
LEMMA EnsureAsIs ==
    ASSUME Steady, NEW t \in Tasks, call[t].at \in {"out", "yes", "no", "probe", "request"},
           NEW r \in Calls, EnsureConnected(t, conn, r), UNCHANGED <<sessions, lost, world, calm>>
    PROVE  Moves(t)
BY Outside, BeginsAsIs, EnsureMoves DEF Moves

(* The steps of the watchdog. *)
LEMMA WatchdogMoves ==
    ASSUME Steady, WatchdogStep
    PROVE  Moves(Watchdog)
<1>1. CASE Wakes
    <2>. DEFINE q == [Idle EXCEPT !.at = "probe", !.id = conn.id]
    <2>1. q \in Calls /\ q.at = "probe"
        BY IdleTyped DEF Idle, Calls, Places, Steady, ConnectionOK, Conns
    <2>. HIDE DEF q
    <2>2. CASE ~conn.connected \/ conn.id = NoId
        BY <1>1, <2>2, IdleTyped, AllTasks, EnsureAsIs DEF Wakes
    <2>3. CASE ~(~conn.connected \/ conn.id = NoId)
        <3>1. Go(Watchdog, q) /\ UNCHANGED <<conn, lock, sessions, lost, world, calm>>
            BY <1>1, <2>3 DEF Wakes, q
        <3>. QED
            BY <1>1, <2>1, <3>1, AllTasks, GoesAsIs DEF Wakes
    <2>. QED
        BY <2>2, <2>3
<1>2. CASE ProbeAlive
    BY <1>2, IdleTyped, AllTasks, GoesAsIs DEF ProbeAlive
<1>3. CASE ProbeFails
    <2>1. CASE failures = 0
        BY <1>3, <2>1, IdleTyped, AllTasks, GoesAsIs DEF ProbeFails
    <2>2. CASE failures # 0
        <3>1. /\ call[Watchdog].at = "probe" /\ lost' = Forgotten
              /\ EnsureConnected(Watchdog, Invalidated, Idle) /\ UNCHANGED <<sessions, world, calm>>
            BY <1>3, <2>2 DEF ProbeFails
        <3>2. Begins(Watchdog, Invalidated)
            BY <3>1, AllTasks, Outside, BeginsForgetting
        <3>. QED
            BY <3>1, <3>2, IdleTyped, AllTasks, Outside, EnsureMoves DEF Moves
    <2>. QED
        BY <2>1, <2>2
<1>4. CASE WatchdogGoesOn
    BY <1>4, IdleTyped, AllTasks, GoesAsIs DEF WatchdogGoesOn
<1>5. CASE ConnectStep(Watchdog)
    BY <1>5, AllTasks, ConnectStepMoves
<1>. QED
    BY <1>1, <1>2, <1>3, <1>4, <1>5 DEF WatchdogStep

(* The steps of a poller. *)
LEMMA PollerMoves ==
    ASSUME Steady, NEW p \in Pollers, PollerStep(p)
    PROVE  Moves(p)
<1>1. CASE Polls(p)
    BY <1>1, AllTasks, AskMoves DEF Polls, Moves
<1>2. CASE Polled(p)
    BY <1>2, AllTasks, IdleTyped, GoesAsIs DEF Polled
<1>3. CASE CandlesWaitEnds(p) \/ PollCancelled(p)
    BY <1>3, AllTasks, IdleTyped, CancelMoves DEF CandlesWaitEnds, PollCancelled
<1>4. CASE ConnectStep(p) \/ RequestStep(p)
    BY <1>4, AllTasks, ConnectStepMoves, RequestStepMoves
<1>. QED
    BY <1>1, <1>2, <1>3, <1>4 DEF PollerStep

(* A call of the engine has ended. *)
LEMMA DoneMoves ==
    ASSUME Steady, NEW result \in {"yes", "no"}, Done(result)
    PROVE  Moves(Engine)
BY IdleTyped, AllTasks, GoesAsIs DEF Done

(* The connection check of a tick that is not paused. *)
LEMMA AfterCommandsMoves ==
    ASSUME Steady, call[Engine].at \in {"out", "yes"}, AfterCommands,
           UNCHANGED <<sessions, lost, world, calm>>
    PROVE  Moves(Engine)
<1>1. CASE paused
    BY <1>1, IdleTyped, AllTasks, GoesAsIs DEF AfterCommands
<1>2. CASE ~paused
    BY <1>2, IdleTyped, AllTasks, EnsureAsIs DEF AfterCommands
<1>. QED
    BY <1>1, <1>2

(* The steps of the engine and of its operator. *)
LEMMA EngineMoves ==
    ASSUME Steady, StageOK, EngineStep \/ Operator
    PROVE  Moves(Engine) \/ (EndWatchdog /\ Moves(Watchdog)) \/ UNCHANGED connectionVars
<1>1. CASE Start
    <2>1. /\ call[Engine].at = "out" /\ ConnectWithRetry(Engine, conn, Idle, StartAttempts)
          /\ UNCHANGED <<sessions, lost, world, calm>>
        BY <1>1, IdleTyped DEF Start, StageOK
    <2>. QED
        BY <2>1, IdleTyped, AllTasks, Outside, BeginsAsIs, RetryMoves DEF Moves
<1>2. CASE Started \/ NotStarted \/ AskAnswered \/ AskFailed \/ Checked \/ NotConnected \/ Ended
    BY <1>2, AllTasks, DoneMoves
       DEF Started, NotStarted, AskAnswered, AskFailed, Checked, NotConnected, Ended
<1>3. CASE WatchdogStarts \/ EnterLoop \/ EndOfTick \/ PauseOrResume
    BY <1>3 DEF WatchdogStarts, EnterLoop, EndOfTick, PauseOrResume
<1>4. CASE Asks
    BY <1>4, AllTasks, AskMoves DEF Asks, EngineOut, Moves
<1>5. CASE CandlesWaitEnds(Engine) \/ StageTimeout \/ EndWatchdog
    BY <1>5, AllTasks, IdleTyped, CancelMoves DEF CandlesWaitEnds, StageTimeout, EndWatchdog
<1>6. CASE CommandsDone \/ RestartMt5Done
    BY <1>6, AllTasks, AfterCommandsMoves DEF CommandsDone, RestartMt5Done, EngineOut
<1>7. CASE RestartMt5 \/ EndConnection
    BY <1>7, AllTasks, DisconnectMoves DEF RestartMt5, EndConnection, EngineOut, Moves
<1>8. CASE ConnectStep(Engine) \/ CloseStep(Engine) \/ RequestStep(Engine)
    BY <1>8, AllTasks, ConnectStepMoves, CloseStepMoves, RequestStepMoves
<1>. QED
    BY <1>1, <1>2, <1>3, <1>4, <1>5, <1>6, <1>7, <1>8 DEF EngineStep, Operator

(* The bridge and the clock hand nothing over. *)
LEMMA BridgeKeeps ==
    ASSUME Steady, BridgeStep
    PROVE  Steady'
<1>1. ConnectionOK'
    BY DEF BridgeStep, GraceEnds, BridgeDrops, BecomesCalm, Steady, ConnectionOK, Conns
<1>2. /\ conn'.id = conn.id /\ UNCHANGED <<lock, call>>
      /\ sessions' \ lost' \subseteq sessions \ lost
    BY DEF BridgeStep, GraceEnds, BridgeDrops, BecomesCalm, Steady, ConnectionOK, Conns
<1>3. OneHandshake' /\ LockUsed' /\ OpensAlone' /\ OutIsIdle'
    BY <1>2 DEF Steady, OneHandshake, LockUsed, OpensAlone, OutIsIdle
<1>4. Accounted'
    BY <1>2 DEF Steady, Accounted
<1>. QED
    BY <1>1, <1>3, <1>4 DEF Steady

(* The process dies, and every session it had is lost. *)
LEMMA DeathKeeps ==
    ASSUME Steady, ProcessDies
    PROVE  Steady'
<1>1. /\ conn' = NoConn /\ lock' = NoTask /\ call' = [t \in Tasks |-> Idle]
      /\ lost' = sessions /\ UNCHANGED <<sessions, world, calm>>
    BY DEF ProcessDies
<1>2. ConnectionOK'
    BY <1>1, IdleTyped DEF Steady, ConnectionOK, NoConn, Conns
<1>3. OneHandshake' /\ LockUsed' /\ OpensAlone' /\ OutIsIdle'
    BY <1>1, IdleTyped, ConnectionAssumption
       DEF OneHandshake, LockUsed, OpensAlone, Handshake, Opening, OutIsIdle
<1>4. Accounted'
    BY <1>1 DEF Accounted
<1>. QED
    BY <1>2, <1>3, <1>4 DEF Steady

(* The lock, the sessions and the one in force. *)
LEMMA SteadyInductive ==
    ASSUME Steady, StageOK, [Next]_vars
    PROVE  Steady'
<1>1. CASE UNCHANGED connectionVars
    BY <1>1 DEF connectionVars, Steady, ConnectionOK, OneHandshake, LockUsed, Accounted, OpensAlone,
        OutIsIdle
<1>2. CASE EngineStep \/ Operator
    BY <1>1, <1>2, AllTasks, EngineMoves, MoveKeeps
<1>3. CASE WatchdogStep
    BY <1>3, AllTasks, WatchdogMoves, MoveKeeps
<1>4. CASE BridgeStep \/ ProcessDies
    BY <1>4, BridgeKeeps, DeathKeeps
<1>5. CASE UNCHANGED vars
    BY <1>1, <1>5 DEF vars
<1>6. ASSUME NEW p \in Pollers, PollerStep(p) PROVE Steady'
    BY <1>6, AllTasks, PollerMoves, MoveKeeps
<1>. QED
    BY <1>2, <1>3, <1>4, <1>5, <1>6 DEF Next

-----------------------------------------------------------------------------
(* The stages. *)

(* The pollers do nothing to the stage and to the watchdog. *)
LEMMA PollersAside ==
    ASSUME NEW p \in Pollers, PollerStep(p)
    PROVE  UNCHANGED <<loopVars, watchVars>>
BY DEF PollerStep, Polls, Polled, CandlesWaitEnds, PollCancelled

(* They have no step of their own but while a tick works or is cancelled.  *)
LEMMA PollersQuiet ==
    ASSUME Steady, StageOK, stage \notin {"work", "ending"}, NEW p \in Pollers
    PROVE  ~PollerStep(p)
<1>1. call[p] = Idle
    BY AllTasks DEF StageOK, PollersOut, Steady, OutIsIdle
<1>2. call[p].at = "out" /\ call[p].use = "none"
    BY <1>1 DEF Idle
<1>. QED
    BY <1>2 DEF PollerStep, Polls, Polled, CandlesWaitEnds, PollCancelled

(* The flags of the engine keep their types. *)
LEMMA LoopInductive ==
    ASSUME Steady, LoopOK, [Next]_vars
    PROVE  LoopOK'
<1>. USE DEF Stages, At, loopVars, watchVars
<1>1. stage' \in Stages
    BY PollersAside DEF LoopOK, Next, EngineStep, Operator, WatchdogStep, vars,
        Start, Started, NotStarted, WatchdogStarts, EnterLoop, Asks, AskAnswered, AskFailed,
        CandlesWaitEnds, CommandsDone, RestartMt5Done, AfterCommands, Checked, NotConnected,
        EndOfTick, Head, StageTimeout, EndWatchdog, EndConnection, Ended,
        PauseOrResume, RestartMt5,
        Wakes, ProbeAlive, ProbeFails, WatchdogGoesOn, ProcessDies
<1>2. paused' \in {paused, ~paused, TRUE, FALSE}
    BY PollersAside DEF Next, EngineStep, Operator, WatchdogStep, vars,
        Start, Started, NotStarted, WatchdogStarts, EnterLoop, Asks, AskAnswered, AskFailed,
        CandlesWaitEnds, CommandsDone, RestartMt5Done, Checked, NotConnected,
        EndOfTick, StageTimeout, EndWatchdog, EndConnection, Ended,
        PauseOrResume, RestartMt5,
        Wakes, ProbeAlive, ProbeFails, WatchdogGoesOn, ProcessDies
<1>3. watching' \in {watching, TRUE, FALSE} /\ failures' \in {failures, 0, 1}
    BY PollersAside DEF Next, EngineStep, Operator, WatchdogStep, vars,
        Start, Started, NotStarted, WatchdogStarts, EnterLoop, Asks, AskAnswered, AskFailed,
        CandlesWaitEnds, CommandsDone, RestartMt5Done, Checked, NotConnected,
        EndOfTick, StageTimeout, EndWatchdog, EndConnection, Ended,
        PauseOrResume, RestartMt5,
        Wakes, ProbeAlive, ProbeFails, WatchdogGoesOn, ProcessDies
<1>4. paused' \in BOOLEAN /\ watching' \in BOOLEAN
    BY <1>2, <1>3, Zenon DEF LoopOK
<1>5. failures' \in 0..1
    BY <1>3 DEF LoopOK
<1>. QED
    BY <1>1, <1>4, <1>5 DEF LoopOK

(* Without a watchdog no step of its own is possible. *)
LEMMA WatchdogOff ==
    ASSUME Steady, StageOK, ~watching
    PROVE  ~WatchdogStep
<1>1. call[Watchdog].at = "out"
    BY IdleTyped DEF StageOK
<1>2. ~Wakes /\ ~ProbeAlive /\ ~ProbeFails /\ ~WatchdogGoesOn
    BY <1>1 DEF Wakes, ProbeAlive, ProbeFails, WatchdogGoesOn
<1>3. ~ConnectStep(Watchdog)
    BY <1>1 DEF ConnectStep, StatusAlive, StatusDead, GetLock, ConnectExFails, ConnectExAnswers,
        Ready, NotReady, Undone, CleanedUp, Retry
<1>. QED
    BY <1>2, <1>3 DEF WatchdogStep

(* A step of the connector by a task changes no call of another one.       *)
LEMMA OthersStay ==
    ASSUME NEW t \in Tasks, Moves(t), NEW u \in Tasks, u # t
    PROVE  call'[u] = call[u]
BY DEF Moves, Becomes

(* Between two engines nothing happens but a start. *)
LEMMA FromDown ==
    ASSUME Steady, StageOK, [Next]_vars, stage = "down"
    PROVE  Start \/ (BridgeStep /\ UNCHANGED <<loopVars, watchVars>>) \/ UNCHANGED vars
<1>1. call[Engine].at = "out" /\ ~WatchdogStep
    BY WatchdogOff, IdleTyped DEF StageOK
<1>2. ~ConnectStep(Engine) /\ ~CloseStep(Engine) /\ ~RequestStep(Engine)
    BY <1>1 DEF ConnectStep, StatusAlive, StatusDead, GetLock, ConnectExFails, ConnectExAnswers,
        Ready, NotReady, Undone, CleanedUp, Retry, CloseStep, GetCloseLock, Closed,
        RequestStep, Send, Answered, RequestFails, RequestGivesUp
<1>3. EngineStep => Start
    BY <1>2 DEF EngineStep, Started, NotStarted, WatchdogStarts, EnterLoop, Asks, AskAnswered,
        AskFailed, CandlesWaitEnds, CommandsDone, RestartMt5Done, Checked, NotConnected,
        EndOfTick, StageTimeout, Limited, EndWatchdog, EndConnection, Ended
<1>. QED
    BY <1>1, <1>3, PollersQuiet DEF Next, Operator, PauseOrResume, RestartMt5, ProcessDies

(* An engine that closes the connection does only that. *)
LEMMA FromClosing ==
    ASSUME Steady, StageOK, [Next]_vars, stage = "closing"
    PROVE  \/ Ended \/ ProcessDies \/ UNCHANGED vars
           \/ (CloseStep(Engine) \/ BridgeStep) /\ UNCHANGED <<loopVars, watchVars>>
<1>1. call[Engine].at \in {"dlock", "closing", "yes"} /\ ~WatchdogStep
    BY WatchdogOff DEF StageOK
<1>2. ~ConnectStep(Engine) /\ ~RequestStep(Engine)
    BY <1>1 DEF ConnectStep, StatusAlive, StatusDead, GetLock, ConnectExFails, ConnectExAnswers,
        Ready, NotReady, Undone, CleanedUp, Retry,
        RequestStep, Send, Answered, RequestFails, RequestGivesUp
<1>3. EngineStep => Ended \/ (CloseStep(Engine) /\ UNCHANGED <<loopVars, watchVars>>)
    BY <1>2 DEF EngineStep, Start, Started, NotStarted, WatchdogStarts, EnterLoop, Asks,
        AskAnswered, AskFailed, CandlesWaitEnds, CommandsDone, RestartMt5Done, Checked,
        NotConnected, EndOfTick, StageTimeout, Limited, EndWatchdog, EndConnection
<1>. QED
    BY <1>1, <1>3, PollersQuiet DEF Next, Operator, PauseOrResume, RestartMt5

(* Any other stage goes on, or ends by closing the connection. *)
LEMMA FromOthers ==
    ASSUME [Next]_vars, stage \notin {"down", "closing"}
    PROVE  stage' \notin {"down", "closing"} \/ EndConnection \/ ProcessDies
<1>. USE DEF loopVars, At
<1>1. CASE Start \/ Started \/ NotStarted \/ WatchdogStarts \/ EnterLoop \/ Asks \/ AskAnswered
    BY <1>1 DEF Start, Started, NotStarted, WatchdogStarts, EnterLoop, Asks, AskAnswered
<1>2. CASE AskFailed \/ CandlesWaitEnds(Engine) \/ CommandsDone \/ RestartMt5Done \/ Checked
    BY <1>2 DEF AskFailed, CandlesWaitEnds, CommandsDone, RestartMt5Done, AfterCommands, Head, Checked
<1>3. CASE NotConnected \/ EndOfTick \/ StageTimeout \/ EndWatchdog \/ Ended \/ Operator
    BY <1>3 DEF NotConnected, Head, EndOfTick, StageTimeout, EndWatchdog, Ended, Operator,
        PauseOrResume, RestartMt5
<1>4. CASE Wakes \/ ProbeAlive \/ ProbeFails \/ WatchdogGoesOn
    BY <1>4 DEF Wakes, ProbeAlive, ProbeFails, WatchdogGoesOn
<1>5. CASE UNCHANGED <<loopVars, watchVars>> \/ UNCHANGED vars
    BY <1>5 DEF vars
<1>. QED
    BY <1>1, <1>2, <1>3, <1>4, <1>5, PollersAside DEF Next, EngineStep, WatchdogStep

(* Who ends the watchdog. *)
LEMMA WatchdogEnds ==
    ASSUME [Next]_vars
    PROVE  watching' = watching \/ watching' = TRUE \/ EndWatchdog \/ ProcessDies
<1>. USE DEF watchVars
<1>1. CASE Start \/ Started \/ NotStarted \/ WatchdogStarts \/ EnterLoop \/ Asks \/ AskAnswered
    BY <1>1 DEF Start, Started, NotStarted, WatchdogStarts, EnterLoop, Asks, AskAnswered
<1>2. CASE AskFailed \/ CandlesWaitEnds(Engine) \/ CommandsDone \/ RestartMt5Done \/ Checked
    BY <1>2 DEF AskFailed, CandlesWaitEnds, CommandsDone, RestartMt5Done, Checked
<1>3. CASE NotConnected \/ EndOfTick \/ StageTimeout \/ EndConnection \/ Ended \/ Operator
    BY <1>3 DEF NotConnected, EndOfTick, StageTimeout, EndConnection, Ended, Operator,
        PauseOrResume, RestartMt5
<1>4. CASE Wakes \/ ProbeAlive \/ ProbeFails \/ WatchdogGoesOn
    BY <1>4 DEF Wakes, ProbeAlive, ProbeFails, WatchdogGoesOn
<1>5. CASE UNCHANGED <<loopVars, watchVars>> \/ UNCHANGED vars
    BY <1>5 DEF vars
<1>. QED
    BY <1>1, <1>2, <1>3, <1>4, <1>5, PollersAside DEF Next, EngineStep, WatchdogStep

(* A watchdog that is not there has no call, and a new engine finds none.  *)
LEMMA WatchdogInductive ==
    ASSUME Steady, StageOK, LoopOK, [Next]_vars, ~watching'
    PROVE  call'[Watchdog] = Idle
<1>1. CASE EndWatchdog
    BY <1>1, AllTasks DEF EndWatchdog, Cancel, Go, Steady, ConnectionOK
<1>2. CASE ProcessDies
    BY <1>2, AllTasks DEF ProcessDies
<1>3. CASE ~EndWatchdog /\ ~ProcessDies
    <2>1. watching' \in {watching, TRUE}
        BY <1>3, WatchdogEnds, Zenon
    <2>2. ~watching
        BY <2>1, Zenon
    <2>3. CASE EngineStep \/ Operator
        <3>1. Moves(Engine) \/ UNCHANGED connectionVars
            BY <1>3, <2>3, EngineMoves
        <3>2. call'[Watchdog] = call[Watchdog]
            BY <3>1, AllTasks, OthersStay DEF connectionVars
        <3>. QED
            BY <2>2, <3>2 DEF StageOK
    <2>4. CASE BridgeStep \/ UNCHANGED vars
        BY <2>2, <2>4 DEF BridgeStep, GraceEnds, BridgeDrops, BecomesCalm, vars, connectionVars,
            StageOK
    <2>5. ASSUME NEW p \in Pollers, PollerStep(p) PROVE call'[Watchdog] = Idle
        <3>1. call'[Watchdog] = call[Watchdog]
            BY <2>5, AllTasks, PollerMoves, OthersStay
        <3>. QED
            BY <2>2, <3>1 DEF StageOK
    <2>. QED
        BY <1>3, <2>2, <2>3, <2>4, <2>5, WatchdogOff DEF Next
<1>. QED
    BY <1>1, <1>2, <1>3

(* A tick ends when its pollers have. *)
LEMMA PollersInductive ==
    ASSUME Steady, StageOK, LoopOK, [Next]_vars
    PROVE  stage' \notin {"work", "ending"} => PollersOut'
<1>. SUFFICES ASSUME stage' \notin {"work", "ending"}
              PROVE  PollersOut'
    OBVIOUS
<1>1. PollersOut \/ ProcessDies
    <2>. SUFFICES ASSUME stage \in {"work", "ending"}
                  PROVE  PollersOut \/ ProcessDies
        BY DEF StageOK
    <2>. USE DEF At, loopVars
    <2>1. CASE EngineStep
        BY <2>1 DEF EngineStep, Start, Started, NotStarted, WatchdogStarts, EnterLoop, Asks,
            AskAnswered, AskFailed, CandlesWaitEnds, CommandsDone, RestartMt5Done, Checked,
            NotConnected, EndOfTick, StageTimeout, EndWatchdog, EndConnection, Ended
    <2>2. CASE Operator \/ WatchdogStep
        BY <2>2 DEF Operator, PauseOrResume, RestartMt5, WatchdogStep, Wakes, ProbeAlive,
            ProbeFails, WatchdogGoesOn
    <2>. QED
        BY <2>1, <2>2, PollersAside DEF Next, vars
<1>2. CASE ProcessDies
    BY <1>2, AllTasks, IdleTyped DEF ProcessDies, PollersOut
<1>3. CASE PollersOut /\ ~ProcessDies
    <2>1. CASE EngineStep \/ Operator \/ WatchdogStep
        <3>1. Moves(Engine) \/ Moves(Watchdog) \/ UNCHANGED connectionVars
            BY <2>1, EngineMoves, WatchdogMoves
        <3>2. \A p \in Pollers : call'[p] = call[p]
            BY <3>1, AllTasks, OthersStay DEF connectionVars
        <3>. QED
            BY <1>3, <3>2 DEF PollersOut
    <2>2. ASSUME NEW p \in Pollers, PollerStep(p) PROVE FALSE
        BY <2>2, PollersQuiet, PollersAside DEF loopVars
    <2>3. CASE BridgeStep \/ UNCHANGED vars
        BY <1>3, <2>3 DEF BridgeStep, GraceEnds, BridgeDrops, BecomesCalm, vars, connectionVars,
            PollersOut
    <2>. QED
        BY <1>3, <2>1, <2>2, <2>3 DEF Next
<1>. QED
    BY <1>1, <1>2, <1>3

(* Each stage finds the connection as the one before leaves it. *)
LEMMA StageInductive ==
    ASSUME Steady, StageOK, LoopOK, [Next]_vars
    PROVE  StageOK'
<1>. SUFFICES /\ stage' \in {"down", "closing"} => ~watching'
              /\ stage' = "down" => call'[Engine] = Idle
              /\ stage' = "closing" => call'[Engine].at \in {"dlock", "closing", "yes"}
              /\ stage' = "down" \/ (stage' = "closing" /\ call'[Engine].at # "dlock")
                     => conn'.id = NoId /\ ~conn'.connected
    BY WatchdogInductive, PollersInductive DEF StageOK
<1>1. CASE ProcessDies
    BY <1>1, AllTasks DEF ProcessDies, At, NoConn
<1>2. CASE BridgeStep /\ UNCHANGED <<loopVars, watchVars>>
    <2>1. conn'.id = conn.id /\ conn'.connected = conn.connected /\ call' = call
        BY <1>2 DEF BridgeStep, GraceEnds, BridgeDrops, BecomesCalm, Steady, ConnectionOK, Conns
    <2>. QED
        BY <1>2, <2>1 DEF StageOK, loopVars, watchVars
<1>3. CASE UNCHANGED vars
    BY <1>3 DEF vars, connectionVars, loopVars, watchVars, StageOK
<1>4. CASE Start
    BY <1>4 DEF Start, At
<1>5. CASE Ended
    <2>1. stage' = "down" /\ call'[Engine] = Idle /\ UNCHANGED <<conn, watching>>
        BY <1>5, AllTasks DEF Ended, Done, Go, At, watchVars, Steady, ConnectionOK
    <2>2. ~watching /\ conn.id = NoId /\ ~conn.connected
        BY <1>5 DEF Ended, Done, StageOK
    <2>. QED
        BY <2>1, <2>2
<1>6. CASE stage = "closing" /\ CloseStep(Engine) /\ UNCHANGED <<loopVars, watchVars>>
    <2>1. /\ stage' = "closing" /\ ~watching'
        BY <1>6 DEF loopVars, watchVars, StageOK
    <2>2. CASE GetCloseLock(Engine)
        <3>1. call'[Engine].at = "closing" /\ conn'.id = NoId /\ ~conn'.connected
            BY <2>2, AllTasks DEF GetCloseLock, Close, Go, Idle, Steady, ConnectionOK, Conns
        <3>. QED
            BY <2>1, <3>1
    <2>3. CASE Closed(Engine)
        <3>1. call'[Engine].at = "yes" /\ conn' = conn /\ call[Engine].at = "closing"
            BY <2>3, AllTasks DEF Closed, Go, Idle, Steady, ConnectionOK
        <3>. QED
            BY <1>6, <2>1, <3>1 DEF StageOK
    <2>. QED
        BY <1>6, <2>2, <2>3 DEF CloseStep
<1>7. CASE EndConnection
    <2>1. stage' = "closing" /\ ~watching'
        BY <1>7 DEF EndConnection, At, watchVars
    <2>2. CASE Free
        <3>1. call'[Engine].at = "closing" /\ conn'.id = NoId /\ ~conn'.connected
            BY <1>7, <2>2, AllTasks
               DEF EndConnection, Disconnect, Close, Go, Idle, Steady, ConnectionOK, Conns
        <3>. QED
            BY <2>1, <3>1
    <2>3. CASE ~Free
        <3>1. call'[Engine].at = "dlock"
            BY <1>7, <2>3, AllTasks
               DEF EndConnection, Disconnect, Go, Idle, Steady, ConnectionOK
        <3>. QED
            BY <2>1, <3>1
    <2>. QED
        BY <2>2, <2>3
<1>8. CASE stage' \notin {"down", "closing"}
    BY <1>8
<1>9. CASE stage = "down"
    BY <1>2, <1>3, <1>4, <1>9, FromDown
<1>10. CASE stage = "closing"
    BY <1>1, <1>2, <1>3, <1>5, <1>6, <1>10, FromClosing
<1>11. CASE stage \notin {"down", "closing"}
    BY <1>1, <1>7, <1>8, <1>11, FromOthers
<1>. QED
    BY <1>9, <1>10, <1>11

-----------------------------------------------------------------------------
(* Nothing has happened yet. *)
LEMMA InitIInv == Init => IInv
<1>. SUFFICES ASSUME Init PROVE IInv
    OBVIOUS
<1>1. ConnectionOK /\ call = [t \in Tasks |-> Idle] /\ lock = NoTask /\ conn = NoConn
    BY IdleTyped DEF Init, ConnectionInit, ConnectionOK, NoConn, Conns
<1>2. LoopOK
    <2>1. stage \in Stages /\ failures \in 0..1
        BY DEF Init, Stages
    <2>2. paused \in BOOLEAN /\ watching \in BOOLEAN
        BY Zenon DEF Init
    <2>. QED
        BY <2>1, <2>2 DEF LoopOK
<1>3. OneHandshake /\ LockUsed /\ OpensAlone /\ OutIsIdle
    BY <1>1, IdleTyped, ConnectionAssumption
       DEF OneHandshake, LockUsed, OpensAlone, Handshake, Opening, OutIsIdle
<1>4. Accounted
    BY DEF Init, ConnectionInit, Accounted
<1>5. StageOK
    BY <1>1, AllTasks, IdleTyped DEF Init, StageOK, NoConn, PollersOut
<1>. QED
    BY <1>1, <1>2, <1>3, <1>4, <1>5 DEF IInv, Steady

(* The invariant of the engine and its connection. *)
THEOREM Invariance == Spec => []IInv
<1>1. IInv /\ [Next]_vars => IInv'
    BY SteadyInductive, LoopInductive, StageInductive DEF IInv
<1>. QED
    BY InitIInv, <1>1, PTL DEF Spec

(* Types hold. *)
THEOREM TypeCorrect == Spec => []TypeOK
<1>1. IInv => TypeOK
    BY DEF IInv, Steady, ConnectionOK, LoopOK, Conns, Calls, TypeOK
<1>. QED
    BY Invariance, <1>1, PTL

(* "Keeping the HTTP handshake under the reconnect lock" (connect): one    *)
(* task at a time opens or closes sessions, whoever is cancelled.          *)
THEOREM HandshakesUnderLock == Spec => []OneHandshake
<1>1. IInv => OneHandshake
    BY DEF IInv, Steady
<1>. QED
    BY Invariance, <1>1, PTL

(* A session that nobody has a name for was dropped or cut off, and is     *)
(* recorded as lost: a new session replaces the old one and no other.      *)
THEOREM SessionsAccounted == Spec => []NothingElseLost
<1>1. ASSUME IInv PROVE NothingElseLost
    <2>. SUFFICES ASSUME NEW i \in sessions \ lost, i # conn.id
                  PROVE  lock # NoTask /\ i \in {call[lock].id, call[lock].prev}
        BY DEF NothingElseLost
    <2>1. PICK t \in Tasks : i \in Own(call[t])
        BY <1>1 DEF IInv, Steady, Accounted
    <2>2. call[t].at \in Owning /\ i = call[t].id
        BY <2>1 DEF Own
    <2>3. lock = t
        BY <1>1, <2>2 DEF IInv, Steady, OneHandshake, Owning, Handshake
    <2>. QED
        BY <2>2, <2>3, ConnectionAssumption
<1>. QED
    BY Invariance, <1>1, PTL

(* Between two engines nothing touches the connection and there is no      *)
(* session to trade with (_run_robot_once, disconnect).                    *)
THEOREM QuietBetweenEngines == Spec => []QuietWhenDown
<1>1. ASSUME IInv PROVE QuietWhenDown
    <2>. SUFFICES ASSUME stage = "down"
                  PROVE  /\ lock = NoTask /\ ~watching
                         /\ conn.id = NoId /\ ~conn.connected
                         /\ \A t \in Tasks : call[t] = Idle
        BY DEF QuietWhenDown
    <2>1. ~watching /\ conn.id = NoId /\ ~conn.connected
        BY <1>1 DEF IInv, StageOK
    <2>2. \A t \in Tasks : call[t] = Idle
        BY <1>1, <2>1, EngineAssumption DEF IInv, StageOK, Steady, OutIsIdle, PollersOut
    <2>3. lock \notin Tasks
        BY <1>1, <2>2, IdleTyped DEF IInv, Steady, LockUsed, Holding, Queued, Handshake
    <2>. QED
        BY <1>1, <2>1, <2>2, <2>3 DEF IInv, Steady, ConnectionOK
<1>. QED
    BY Invariance, <1>1, PTL
=============================================================================

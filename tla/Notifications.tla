---------------------------- MODULE Notifications ----------------------------
(***************************************************************************)
(* How the panel tells its owner and admins what the robot does.           *)
(*                                                                         *)
(* HeartbeatMonitor (core/heartbeat.py) reads the state and the positions  *)
(* the robot has published and publishes events; EventBus                  *)
(* (core/event_bus.py) hands them, one at a time, to the handlers wired in *)
(* core/bot.py; those call NotificationService, which claims a key per     *)
(* trade in Redis, queues the message and sends it chat by chat, with      *)
(* retries.  Both queues are bounded and live in memory; the panel may be  *)
(* stopped, killed and started again.                                      *)
(*                                                                         *)
(* Two kinds of event are kept: a trade was opened (one event per ticket,  *)
(* under a claim) and the link to the broker was lost or restored.         *)
(***************************************************************************)
EXTENDS Naturals, Sequences, FiniteSets, SequencesExt

CONSTANTS
    Tickets,         \* positions the robot may open
    Chats,           \* the recipients, in the order they are written to; there is one
    BusLimit,        \* maxsize of the event queue (500)
    OutboxLimit,     \* maxsize of the notification queue (1000)
    Attempts,        \* max_retries
    MaxLinkChanges,  \* bounds: changes of the link,
    MaxLives,        \*         lives of the panel,
    MaxRows,         \*         rows of the setting of trade messages
    Nothing          \* no event

ASSUME NotificationsAssumption ==
    /\ BusLimit \in Nat \ {0} /\ OutboxLimit \in Nat \ {0} /\ Attempts \in Nat \ {0}
    /\ IsFiniteSet(Tickets) /\ Nothing \notin Tickets
    /\ {"lost", "restored"} \cap (Tickets \cup {Nothing}) = {}
    /\ Chats \in Seq(ToSet(Chats)) /\ Chats # <<>> /\ IsInjective(Chats)
    /\ MaxLives \in Nat \ {0} /\ MaxRows \in Nat \ {0}

VARIABLES
    snapshot,   \* tickets of the positions the robot has published up to now
    link,       \* the robot's link to the broker, as published
    changes,    \* how often it changed
    redis,      \* Redis answers
    claims,     \* tickets claimed in Redis
    rows,       \* the rows of the trade setting in the database, oldest first
    life,       \* which life of the panel process this is
    panel,      \* "up", "closing" (stop() is running) or "down"
    monitor,    \* HeartbeatMonitor: its next read and what it remembers
    before,     \* tickets open when this life of the panel began
    bus,        \* the event queue
    event,      \* the event whose handler runs
    local,      \* tickets claimed in this process
    outbox,     \* the notification queue
    job,        \* the notification being sent
    announced,  \* ticket -> the last life of the panel that published it, 0: none
    got,        \* chat -> ticket -> messages that reached it, 2 for more than one
    told,       \* chat -> the last message about the link
    edge,       \* the last event about the link
    dropped,    \* events a message of which was dropped, for one of the listed causes
    resent      \* tickets that may reach a chat twice, for one of the listed causes

robotVars == <<snapshot, link, changes>>
storeVars == <<redis, claims, rows>>
lifeVars == <<life, panel, before>>
history == <<announced, got, told, edge, dropped, resent>>
vars == <<robotVars, storeVars, lifeVars, monitor, bus, event, local, outbox, job, history>>

Edges == {"lost", "restored"}
Recipients == ToSet(Chats)
NoJob == [event |-> Nothing, left |-> <<>>, attempt |-> 1]
FreshMonitor == [reads |-> "state", link |-> "unknown", polled |-> FALSE, known |-> {}]

InTransit(e) == e \in ToSet(bus) \cup ToSet(outbox) \cup {event, job.event}

TypeOK ==
    /\ snapshot \subseteq Tickets
    /\ link \in {"connected", "disconnected"}
    /\ redis \in BOOLEAN /\ claims \subseteq Tickets
    /\ rows \in Seq(BOOLEAN) /\ Len(rows) \in 1..MaxRows
    /\ panel \in {"up", "closing", "down"} /\ life \in 1..MaxLives
    /\ monitor.reads \in {"state", "positions"} /\ monitor.known \subseteq Tickets
    /\ bus \in Seq(Tickets \cup Edges) /\ Len(bus) <= BusLimit
    /\ outbox \in Seq(Tickets \cup Edges) /\ Len(outbox) <= OutboxLimit
    /\ event \in Tickets \cup Edges \cup {Nothing}
    /\ job.event = Nothing <=> job.left = <<>>
    /\ job.attempt \in 1..Attempts
    /\ claims \cup local \subseteq snapshot
    /\ dropped \subseteq Tickets \cup Edges /\ resent \subseteq Tickets

-----------------------------------------------------------------------------
(* The robot, Redis and the operator.                                      *)

RobotOpens(t) ==
    /\ t \notin snapshot
    /\ snapshot' = snapshot \cup {t}
    /\ UNCHANGED <<link, changes, storeVars, lifeVars, monitor, bus, event, local, outbox, job, history>>

LinkChanges ==
    /\ changes < MaxLinkChanges
    /\ changes' = changes + 1
    /\ link' = IF link = "connected" THEN "disconnected" ELSE "connected"
    /\ UNCHANGED <<snapshot, storeVars, lifeVars, monitor, bus, event, local, outbox, job, history>>

RedisChanges ==
    /\ redis' = ~redis
    /\ UNCHANGED <<robotVars, claims, rows, lifeVars, monitor, bus, event, local, outbox, job, history>>

(* upsert_setting adds a row each time: the key of the row contains a      *)
(* NULL, and NULLs never conflict.                                         *)
Upsert(on) == Append(rows, on)

(* The row of every type that has none when the panel starts.              *)
Defaults == <<TRUE>>

(* toggle_notification shows and flips the newest row.                     *)
Toggle ==
    /\ panel = "up"
    /\ Len(rows) < MaxRows
    /\ rows' = Upsert(~Last(rows))
    /\ UNCHANGED <<robotVars, redis, claims, lifeVars, monitor, bus, event, local, outbox, job, history>>

-----------------------------------------------------------------------------
(* The heartbeat monitor, every heartbeat_interval_seconds.                *)

(* publish() of each in turn: what finds the queue full is dropped.        *)
Publish(events) ==
    LET all == bus \o events
        fits == IF Len(all) < BusLimit THEN Len(all) ELSE BusLimit
        links == Edges \cap ToSet(events)
    IN  /\ bus' = SubSeq(all, 1, fits)
        /\ dropped' = (dropped \ (IF links = {} THEN {} ELSE Edges))
                        \cup ToSet(SubSeq(all, fits + 1, Len(all)))
        /\ edge' = IF links = {} THEN edge ELSE CHOOSE e \in links : TRUE
        /\ announced' = [t \in Tickets |-> IF t \in ToSet(events) THEN life ELSE announced[t]]

CheckState ==
    /\ panel = "up" /\ monitor.reads = "state"
    /\ monitor' = [monitor EXCEPT !.reads = "positions", !.link = link]
    /\ Publish(IF monitor.link \in {"unknown", link} THEN <<>>
               ELSE <<IF link = "connected" THEN "restored" ELSE "lost">>)
    /\ UNCHANGED <<robotVars, storeVars, lifeVars, event, local, outbox, job, got, told, resent>>

(* Mutant of Known: the tickets of this poll replace them.                 *)
KnownReplaced(read) == read

(* A poll adds its tickets to those that are known.                        *)
Known(read) == monitor.known \cup read

CheckPositions(read, order) ==
    /\ panel = "up" /\ monitor.reads = "positions"
    /\ ToSet(order) = IF monitor.polled THEN read \ monitor.known ELSE {}
    /\ monitor' = [monitor EXCEPT !.reads = "state", !.polled = TRUE, !.known = Known(read)]
    /\ Publish(order)
    /\ UNCHANGED <<robotVars, storeVars, lifeVars, event, local, outbox, job, got, told, resent>>

(* get_open_positions raises: trade detection is skipped this time.        *)
PositionsFail ==
    /\ panel = "up" /\ monitor.reads = "positions"
    /\ monitor' = [monitor EXCEPT !.reads = "state"]
    /\ UNCHANGED <<robotVars, storeVars, lifeVars, bus, event, local, outbox, job, history>>

(* One poll reads what the robot published, less the positions closed      *)
(* since and the rows that do not parse; an unreachable store reads as no  *)
(* rows at all.                                                            *)
Poll == \E read \in SUBSET snapshot :
            \E order \in SetToSeqs(read \ monitor.known) \cup {<<>>} : CheckPositions(read, order)

-----------------------------------------------------------------------------
(* The worker of the event bus and the handlers it runs.                   *)

(* What a handler does with its event: settings first, then the claim.     *)
(* The setting in force is the oldest row.                                 *)
(* get_setting: of several rows the oldest is in force. *)
InForce == rows[1]

Muted == ~InForce

(* Mutant of Claimed: Redis is not asked.                                  *)
ClaimedHereOnly(t) == t \in local

(* Claimed before: in this process, or in Redis if that answers.           *)
Claimed(t) == t \in local \/ (redis /\ t \in claims)

TakeEvent ==
    /\ panel # "down" /\ event = Nothing /\ bus # <<>>
    /\ event' = Head(bus) /\ bus' = Tail(bus)
    /\ UNCHANGED <<robotVars, storeVars, lifeVars, monitor, local, outbox, job, history>>

(* put_nowait: a full queue drops the message, the claim stays.            *)
Enqueue(e) ==
    IF Len(outbox) < OutboxLimit
    THEN /\ outbox' = Append(outbox, e)
         /\ UNCHANGED dropped
    ELSE /\ dropped' = dropped \cup {e}
         /\ UNCHANGED outbox

(* Without an answer from Redis the claim is made here only; the request   *)
(* that got no answer may still have made it there.                        *)
Claim(t) ==
    /\ local' = local \cup {t}
    /\ \/ /\ redis
          /\ claims' = claims \cup {t}
          /\ UNCHANGED resent
       \/ /\ ~redis
          /\ claims' \in {claims, claims \cup {t}}
          /\ resent' = resent \cup {t}

Handle ==
    /\ event # Nothing
    /\ event' = Nothing
    /\ \/ /\ event \in Edges
          /\ Enqueue(event)
          /\ UNCHANGED <<local, claims, resent>>
       \/ /\ event \in Tickets /\ ~Muted /\ ~Claimed(event)
          /\ Claim(event)
          /\ Enqueue(event)
       \/ /\ event \in Tickets /\ (Muted \/ Claimed(event))
          /\ dropped' = IF Muted THEN dropped \cup {event} ELSE dropped
          /\ UNCHANGED <<local, claims, resent, outbox>>
    /\ UNCHANGED <<robotVars, redis, rows, lifeVars, monitor, bus, job, announced, got, told, edge>>

(* The handler raises, which it can do before the claim only, where it     *)
(* reads the settings; the bus logs it and goes on.                        *)
HandlerFails ==
    /\ event # Nothing
    /\ event' = Nothing
    /\ dropped' = dropped \cup {event}
    /\ UNCHANGED <<robotVars, storeVars, lifeVars, monitor, bus, local, outbox, job, announced, got, told, edge, resent>>

-----------------------------------------------------------------------------
(* The worker of the notification service.                                 *)

TakeJob ==
    /\ panel = "up" /\ job = NoJob /\ outbox # <<>>
    /\ job' = [event |-> Head(outbox), left |-> Chats, attempt |-> 1]
    /\ outbox' = Tail(outbox)
    /\ UNCHANGED <<robotVars, storeVars, lifeVars, monitor, bus, event, local, history>>

(* The message reaches the chat that is next.                              *)
Reaches ==
    LET chat == Head(job.left) IN
    IF job.event \in Tickets
    THEN /\ got' = [got EXCEPT ![chat][job.event] = IF @ = 2 THEN 2 ELSE @ + 1]
         /\ UNCHANGED told
    ELSE /\ told' = [told EXCEPT ![chat] = job.event]
         /\ UNCHANGED got

(* Mutant of GoOn: nothing leaves the loop over the attempts.              *)
GoOnAgain == [job EXCEPT !.attempt = 1]

(* Mutant of GoOn: the loop over the chats ends with the first success.    *)
GoOnNever == NoJob

GoOn == IF Len(job.left) = 1 THEN NoJob ELSE [job EXCEPT !.left = Tail(@), !.attempt = 1]

Sent ==
    /\ panel = "up" /\ job # NoJob
    /\ Reaches
    /\ job' = GoOn
    /\ UNCHANGED <<robotVars, storeVars, lifeVars, monitor, bus, event, local, outbox, announced, edge, dropped, resent>>

(* send_message raises, or the rows written after it cannot be; the        *)
(* message may have reached the chat in both cases.  After the last        *)
(* attempt the failure is logged; if that raises too, the chats that are   *)
(* left get nothing.                                                       *)
SendFails ==
    /\ panel = "up" /\ job # NoJob
    /\ \/ /\ job.attempt < Attempts
          /\ job' = [job EXCEPT !.attempt = @ + 1]
          /\ \/ Reaches /\ resent' = resent \cup ({job.event} \cap Tickets)
             \/ UNCHANGED <<got, told, resent>>
          /\ UNCHANGED dropped
       \/ /\ job.attempt = Attempts
          /\ job' \in {GoOn, NoJob}
          /\ Reaches \/ UNCHANGED <<got, told>>
          /\ dropped' = dropped \cup {job.event}
          /\ UNCHANGED resent
    /\ UNCHANGED <<robotVars, storeVars, lifeVars, monitor, bus, event, local, outbox, announced, edge>>

-----------------------------------------------------------------------------
(* The life of the process.                                                *)

(* stop(): the monitor and the notification worker are cancelled first,    *)
(* with the message in its hands; the bus worker goes on until its turn.   *)
Stop ==
    /\ panel = "up"
    /\ panel' = "closing"
    /\ job' = NoJob
    /\ dropped' = dropped \cup ({job.event} \ {Nothing})
    /\ UNCHANGED <<robotVars, storeVars, life, before, monitor, bus, event, local, outbox, announced, got, told, edge, resent>>

(* The process ends, after stop() or without: what is in memory is gone.   *)
Ends ==
    /\ panel # "down"
    /\ panel' = "down"
    /\ dropped' = dropped \cup {e \in Tickets \cup Edges : InTransit(e)}
    /\ monitor' = FreshMonitor
    /\ bus' = <<>> /\ outbox' = <<>> /\ local' = {}
    /\ event' = Nothing /\ job' = NoJob
    /\ UNCHANGED <<robotVars, storeVars, life, before, announced, got, told, edge, resent>>

Restarts ==
    /\ panel = "down" /\ life < MaxLives
    /\ panel' = "up" /\ life' = life + 1
    /\ before' = snapshot
    /\ UNCHANGED <<robotVars, storeVars, monitor, bus, event, local, outbox, job, history>>

Init ==
    /\ snapshot \in SUBSET Tickets /\ before = snapshot
    /\ link = "connected" /\ changes = 0
    /\ redis = TRUE /\ claims = {} /\ rows = Defaults
    /\ life = 1 /\ panel = "up" /\ monitor = FreshMonitor
    /\ bus = <<>> /\ event = Nothing
    /\ local = {} /\ outbox = <<>> /\ job = NoJob
    /\ announced = [t \in Tickets |-> 0]
    /\ got = [c \in Recipients |-> [t \in Tickets |-> 0]]
    /\ told = [c \in Recipients |-> "nothing"]
    /\ edge = "nothing" /\ dropped = {} /\ resent = {}

World == RedisChanges \/ LinkChanges \/ Toggle \/ \E t \in Tickets : RobotOpens(t)
Monitor == CheckState \/ Poll \/ PositionsFail
Bus == TakeEvent \/ Handle \/ HandlerFails
Service == TakeJob \/ Sent \/ SendFails
Process == Stop \/ Ends \/ Restarts

Next == World \/ Monitor \/ Bus \/ Service \/ Process

Spec == Init /\ [][Next]_vars

(* The two workers are loops that wait for their queue; every send has a   *)
(* time limit, and a process that is stopping ends.                        *)
FairSpec == Spec /\ WF_vars(Bus) /\ WF_vars(Service) /\ WF_vars(panel = "closing" /\ Ends)

-----------------------------------------------------------------------------
(* A trade is announced at most once in a life of the panel, whatever the  *)
(* polls in between read: known tickets are never forgotten                *)
(* (heartbeat.py:60-64).                                                   *)
AnnouncedOnce ==
    [][\A t \in Tickets :
            announced[t] = life =>
                ~(Len(bus') > Len(bus) /\ t \in ToSet(SubSeq(bus', Len(bus) + 1, Len(bus'))))]_vars

(* A chat gets the message of a trade twice only if an attempt whose       *)
(* message had arrived was repeated, or if Redis was away when the trade   *)
(* was claimed: restarts and re-reads alone never repeat one.              *)
RepeatHasCause ==
    \A c \in Recipients, t \in Tickets : got[c][t] = 2 => t \in resent

(* A chat that never got the message of an announced trade: the message    *)
(* is on its way, or was dropped by a full queue, a handler that failed,   *)
(* the last failed attempt or the end of the process.                      *)
SilenceHasCause ==
    \A c \in Recipients, t \in Tickets :
        announced[t] > 0 /\ got[c][t] = 0 => InTransit(t) \/ t \in dropped

(* Once no message about the link is on its way and the last one was not   *)
(* dropped, the last thing every chat was told about the link is the last  *)
(* thing that happened: queues and retries keep the order.                 *)
TellsTheLatest ==
    (edge # "nothing" /\ edge \notin dropped /\ ~InTransit("lost") /\ ~InTransit("restored"))
        => \A c \in Recipients : told[c] = edge

(* Every announced trade reaches every chat in the end, or is dropped for  *)
(* one of those causes: neither worker stops while the panel lives.        *)
Settles ==
    \A t \in Tickets :
        announced[t] > 0 ~> (t \in dropped \/ \A c \in Recipients : got[c][t] > 0)

(* What the settings page says: changes take effect immediately, so a      *)
(* trade is not announced to the chats while the setting shown is off.     *)
MutedStaysSilent ==
    [][\A t \in Tickets :
            t \in ToSet(outbox') \ ToSet(outbox) => Last(rows)]_vars

(* What heartbeat.py:65-67 says: a position that was open when the panel   *)
(* started is never announced as a new trade in that life of the panel.    *)
OldTradesStaySilent == \A t \in before : announced[t] # life

=============================================================================

------------------------ MODULE NotificationsProofs ------------------------
(***************************************************************************)
(* Why a trade is announced once in a life of the panel, why a message     *)
(* repeats or is missing only for the listed causes, and why the chats are *)
(* told of the link in the order of its changes: for any number of trades, *)
(* chats, lives and changes, and queues of any length.                     *)
(***************************************************************************)
EXTENDS Notifications, FiniteSetTheorems, SequenceTheorems, TLAPS

Events == Tickets \cup Edges
Jobs == [event : Events \cup {Nothing}, left : Seq(Recipients), attempt : 1..Attempts]

(* The queues, the worker and what has reached the chats. *)
QueuesOK ==
    /\ bus \in Seq(Events) /\ Len(bus) <= BusLimit
    /\ outbox \in Seq(Events)
    /\ event \in Events \cup {Nothing}
    /\ job \in Jobs
    /\ job.event = Nothing => job = NoJob
    /\ job.event # Nothing => job.left # <<>>
    /\ IsInjective(job.left)

HistoryOK ==
    /\ life \in Nat \ {0} /\ announced \in [Tickets -> 0..life]
    /\ got \in [Recipients -> [Tickets -> 0..2]]
    /\ told \in [Recipients -> Edges \cup {"nothing"}]
    /\ edge \in Edges \cup {"nothing"}

(* The robot, the stores and the monitor. *)
ControlOK ==
    /\ snapshot \subseteq Tickets
    /\ link \in {"connected", "disconnected"}
    /\ redis \in BOOLEAN /\ claims \cup local \subseteq snapshot
    /\ rows \in Seq(BOOLEAN) /\ Len(rows) \in 1..MaxRows
    /\ panel \in {"up", "closing", "down"} /\ life \in 1..MaxLives
    /\ monitor \in [reads : {"state", "positions"},
                    link : {"unknown", "connected", "disconnected"},
                    polled : BOOLEAN, known : SUBSET Tickets]
    /\ Len(outbox) <= OutboxLimit
    /\ dropped \subseteq Events /\ resent \subseteq Tickets

(* What was announced in this life is known to the monitor. *)
StillKnown == \A t \in Tickets : announced[t] = life => panel = "down" \/ t \in monitor.known

(* The message of trade t is on its way to chat c. *)
Waits(c, t) == t \in ToSet(outbox) \/ (job.event = t /\ c \in ToSet(job.left))

Settled(c, t) == got[c][t] > 0 \/ t \in dropped \/ Waits(c, t)

(* A claim has led to a message, and an announcement leads to a claim.     *)
ClaimsKept == \A c \in Recipients, t \in claims \cup local : Settled(c, t)

NotForgotten ==
    \A c \in Recipients, t \in Tickets :
        announced[t] > 0 => Settled(c, t) \/ t \in ToSet(bus) \/ event = t

(* A trade whose message may not repeat is in one place only, and chats    *)
(* that are still to get the message have not had it.                      *)
OneCopy(t) ==
    /\ \A i, j \in DOMAIN outbox : outbox[i] = t /\ outbox[j] = t => i = j
    /\ t \in ToSet(outbox) =>
           t \in claims /\ job.event # t /\ \A c \in Recipients : got[c][t] = 0
    /\ job.event = t => t \in claims /\ \A c \in ToSet(job.left) : got[c][t] = 0
    /\ \A c \in Recipients : got[c][t] = 0 \/ (got[c][t] = 1 /\ t \in claims)

Single == \A t \in Tickets \ resent : OneCopy(t)

(* The newest message about the link in a queue is about e. *)
NoEdge(q) == \A i \in DOMAIN q : q[i] \notin Edges
Newest(q, e) == \E i \in DOMAIN q : q[i] = e /\ \A j \in DOMAIN q : j > i => q[j] \notin Edges

(* The last event about the link is the newest on its way, or has arrived. *)
Last1 == Newest(bus, edge)
Last2 == NoEdge(bus) /\ event = edge
Last3 == NoEdge(bus) /\ event \notin Edges /\ Newest(outbox, edge)
Last4 ==
    /\ NoEdge(bus) /\ event \notin Edges /\ NoEdge(outbox)
    /\ job.event \in Edges => job.event = edge
    /\ \A c \in Recipients : told[c] = edge \/ (job.event = edge /\ c \in ToSet(job.left))

InOrder == edge # "nothing" /\ edge \notin dropped => Last1 \/ Last2 \/ Last3 \/ Last4

Flow == QueuesOK /\ HistoryOK /\ StillKnown /\ ClaimsKept /\ NotForgotten /\ Single /\ InOrder

(* What the monitor published about trades is about trades of the robot.   *)
OfTheRobot == ToSet(bus) \cup {event} \subseteq snapshot \cup Edges \cup {Nothing}

IInv == ControlOK /\ OfTheRobot /\ Flow

-----------------------------------------------------------------------------
(* Sequences. *)

(* What an element of a queue is, and of one that was appended to or from  *)
(* which the first was taken.                                              *)
LEMMA Elements ==
    ASSUME NEW S, NEW q \in Seq(S)
    PROVE  /\ ToSet(q) = {q[i] : i \in 1..Len(q)} /\ DOMAIN q = 1..Len(q) /\ Len(q) \in Nat
           /\ ToSet(q) \subseteq S
BY DEF ToSet

(* What a queue holds after Append: its elements in their places, then the *)
(* new one.                                                                *)
LEMMA Appended ==
    ASSUME NEW S, NEW q \in Seq(S), NEW e \in S
    PROVE  /\ Append(q, e) \in Seq(S) /\ Len(Append(q, e)) = Len(q) + 1
           /\ \A i \in 1..Len(q) : Append(q, e)[i] = q[i]
           /\ Append(q, e)[Len(q) + 1] = e
           /\ ToSet(Append(q, e)) = ToSet(q) \cup {e}
<1>1. /\ Append(q, e) \in Seq(S) /\ Len(Append(q, e)) = Len(q) + 1
      /\ \A i \in 1..Len(q) : Append(q, e)[i] = q[i]
      /\ Append(q, e)[Len(q) + 1] = e
    BY AppendProperties
<1>2. DOMAIN Append(q, e) = 1..Len(q) + 1 /\ DOMAIN q = 1..Len(q) /\ Len(q) \in Nat
    BY <1>1
<1>3. ToSet(Append(q, e)) = ToSet(q) \cup {e}
    BY <1>1, <1>2 DEF ToSet
<1>. QED
    BY <1>1, <1>3

(* What a queue holds after its first element was taken: the others, one   *)
(* place further on.                                                       *)
LEMMA Taken ==
    ASSUME NEW S, NEW q \in Seq(S), q # <<>>
    PROVE  /\ Head(q) = q[1] /\ Head(q) \in S /\ Len(q) \in Nat \ {0}
           /\ Tail(q) \in Seq(S) /\ Len(Tail(q)) = Len(q) - 1
           /\ \A i \in 1..Len(q) - 1 : Tail(q)[i] = q[i + 1]
           /\ ToSet(q) = ToSet(Tail(q)) \cup {Head(q)}
<1>1. /\ Head(q) = q[1] /\ Head(q) \in S /\ Len(q) \in Nat \ {0}
      /\ Tail(q) \in Seq(S) /\ Len(Tail(q)) = Len(q) - 1
      /\ \A i \in 1..Len(Tail(q)) : Tail(q)[i] = q[i + 1]
    BY HeadTailProperties, EmptySeq
<1>2. DOMAIN Tail(q) = 1..Len(q) - 1 /\ DOMAIN q = 1..Len(q)
    BY <1>1
<1>3. ToSet(q) \subseteq ToSet(Tail(q)) \cup {Head(q)}
    <2>. SUFFICES ASSUME NEW i \in 1..Len(q), i # 1 PROVE q[i] \in ToSet(Tail(q))
        BY <1>1, <1>2 DEF ToSet
    <2>1. i - 1 \in 1..Len(q) - 1 /\ Tail(q)[i - 1] = q[i]
        BY <1>1
    <2>. QED
        BY <1>2, <2>1 DEF ToSet
<1>4. ToSet(Tail(q)) \cup {Head(q)} \subseteq ToSet(q)
    BY <1>1, <1>2 DEF ToSet
<1>. QED
    BY <1>1, <1>3, <1>4

(* The newest message about the link when one is appended or taken.        *)
LEMMA NewestAppended ==
    ASSUME NEW S, NEW q \in Seq(S), NEW e \in S
    PROVE  /\ e \in Edges => Newest(Append(q, e), e)
           /\ e \notin Edges => \A x : Newest(q, x) => Newest(Append(q, e), x)
           /\ e \notin Edges => (NoEdge(q) => NoEdge(Append(q, e)))
<1>1. /\ DOMAIN Append(q, e) = 1..Len(q) + 1 /\ DOMAIN q = 1..Len(q) /\ Len(q) \in Nat
      /\ \A i \in 1..Len(q) : Append(q, e)[i] = q[i]
      /\ Append(q, e)[Len(q) + 1] = e
    BY Appended
<1>. QED
    BY <1>1 DEF Newest, NoEdge

(* Taking the first message of a queue takes the newest about the link     *)
(* only if it was the last of them.                                        *)
LEMMA NewestTaken ==
    ASSUME NEW S, NEW q \in Seq(S), q # <<>>
    PROVE  /\ \A x : Newest(q, x) => Newest(Tail(q), x) \/ (NoEdge(Tail(q)) /\ Head(q) = x)
           /\ NoEdge(q) => NoEdge(Tail(q)) /\ Head(q) \notin Edges
<1>1. /\ Head(q) = q[1] /\ Len(q) \in Nat \ {0} /\ DOMAIN q = 1..Len(q)
      /\ DOMAIN Tail(q) = 1..Len(q) - 1
      /\ \A i \in 1..Len(q) - 1 : Tail(q)[i] = q[i + 1]
    BY Taken
<1>2. NoEdge(q) => NoEdge(Tail(q)) /\ Head(q) \notin Edges
    BY <1>1 DEF NoEdge
<1>3. ASSUME NEW x, Newest(q, x)
      PROVE  Newest(Tail(q), x) \/ (NoEdge(Tail(q)) /\ Head(q) = x)
    <2>1. PICK i \in 1..Len(q) : q[i] = x /\ \A j \in 1..Len(q) : j > i => q[j] \notin Edges
        BY <1>1, <1>3 DEF Newest
    <2>2. CASE i = 1
        <3>1. \A j \in 1..Len(q) - 1 : j + 1 \in 1..Len(q) /\ j + 1 > 1
            BY <1>1
        <3>. QED
            BY <1>1, <2>1, <2>2, <3>1 DEF NoEdge
    <2>3. CASE i # 1
        <3>1. i - 1 \in 1..Len(q) - 1 /\ Tail(q)[i - 1] = x
            BY <1>1, <2>1, <2>3
        <3>2. \A j \in 1..Len(q) - 1 : j > i - 1 => Tail(q)[j] \notin Edges
            BY <1>1, <2>1
        <3>. QED
            BY <1>1, <3>1, <3>2 DEF Newest
    <2>. QED
        BY <2>2, <2>3
<1>. QED
    BY <1>2, <1>3

-----------------------------------------------------------------------------
(* publish(): what does not fit is dropped, and the queue keeps its order. *)

(* publish() of one event after the other (event_bus.py): the queue keeps  *)
(* what it held, gets what fits in the given order, and every event is     *)
(* either in its place of the queue or dropped.                            *)
LEMMA Published ==
    ASSUME QueuesOK, NEW events \in Seq(Events), Publish(events)
    PROVE  /\ bus' \in Seq(Events) /\ Len(bus') <= BusLimit /\ Len(bus) <= Len(bus')
           /\ \A i \in 1..Len(bus) : bus'[i] = bus[i]
           /\ \A i \in 1..Len(bus') : i > Len(bus) => bus'[i] \in ToSet(events)
           /\ \A k \in 1..Len(events) :
                  \/ events[k] \in dropped'
                  \/ Len(bus) + k <= Len(bus') /\ bus'[Len(bus) + k] = events[k]
           /\ dropped' \subseteq dropped \cup Events
<1>. DEFINE all == bus \o events
            fits == IF Len(all) < BusLimit THEN Len(all) ELSE BusLimit
<1>1. /\ all \in Seq(Events) /\ Len(all) = Len(bus) + Len(events)
      /\ Len(bus) \in Nat /\ Len(events) \in Nat /\ BusLimit \in Nat
      /\ \A i \in 1..Len(all) : all[i] = IF i <= Len(bus) THEN bus[i] ELSE events[i - Len(bus)]
    BY ConcatProperties, NotificationsAssumption DEF QueuesOK
<1>2. bus' = SubSeq(all, 1, fits) /\ ToSet(SubSeq(all, fits + 1, Len(all))) \subseteq dropped'
    BY DEF Publish
<1>. HIDE DEF all
<1>3. fits \in 0..Len(all) /\ fits <= BusLimit /\ fits >= Len(bus)
    BY <1>1 DEF QueuesOK
<1>4. /\ bus' \in Seq(Events) /\ Len(bus') = fits
      /\ \A i \in 1..fits : bus'[i] = all[i]
    <2>1. SubSeq(all, 1, fits) \in Seq(Events) /\ Len(SubSeq(all, 1, fits)) = fits
        BY <1>1, <1>3, SubSeqProperties
    <2>2. \A i \in 1..fits : SubSeq(all, 1, fits)[i] = all[i]
        BY <1>1, <1>3, <2>1, SubSeqProperties
    <2>. QED
        BY <1>2, <2>1, <2>2
<1>. HIDE DEF fits
<1>5. ASSUME NEW i \in 1..Len(bus'), i > Len(bus) PROVE bus'[i] \in ToSet(events)
    <2>1. i - Len(bus) \in 1..Len(events) /\ bus'[i] = events[i - Len(bus)]
        BY <1>1, <1>3, <1>4, <1>5
    <2>. QED
        BY <2>1, Elements
<1>6. ASSUME NEW k \in 1..Len(events)
      PROVE  \/ events[k] \in dropped'
             \/ Len(bus) + k <= Len(bus') /\ bus'[Len(bus) + k] = events[k]
    <2>1. Len(bus) + k \in 1..Len(all) /\ all[Len(bus) + k] = events[k]
        BY <1>1
    <2>2. CASE Len(bus) + k <= fits
        BY <1>1, <1>3, <1>4, <2>1, <2>2
    <2>3. CASE Len(bus) + k > fits
        <3>. DEFINE rest == SubSeq(all, fits + 1, Len(all))
                    m == Len(bus) + k - fits
        <3>1. m \in 1..Len(all) - fits
            BY <1>1, <1>3, <2>1, <2>3
        <3>2. /\ fits + 1 \in Int /\ Len(all) \in Int
              /\ \A i \in fits + 1 .. Len(all) : all[i] \in Events
            BY <1>1, <1>3
        <3>3. /\ rest \in Seq(Events)
              /\ Len(rest) = IF fits + 1 <= Len(all) THEN Len(all) - (fits + 1) + 1 ELSE 0
              /\ \A i \in 1 .. Len(all) - (fits + 1) + 1 : rest[i] = all[fits + 1 + i - 1]
            <4>. HIDE DEF m
            <4>. QED
                BY <3>2, SubSeqProperties
        <3>4. m \in 1..Len(rest) /\ rest[m] = events[k]
            BY <1>1, <1>3, <2>1, <3>1, <3>2, <3>3
        <3>5. events[k] \in ToSet(rest)
            <4>. HIDE DEF rest
            <4>. QED
                BY <3>3, <3>4, Elements
        <3>. QED
            BY <1>2, <3>5
    <2>. QED
        BY <1>1, <1>3, <2>1, <2>2, <2>3
<1>7. dropped' \subseteq dropped \cup Events
    <2>. DEFINE rest == SubSeq(all, fits + 1, Len(all))
    <2>1. /\ fits + 1 \in Int /\ Len(all) \in Int
          /\ \A i \in fits + 1 .. Len(all) : all[i] \in Events
        BY <1>1, <1>3
    <2>2. rest \in Seq(Events)
        BY <2>1, SubSeqProperties
    <2>3. dropped' \subseteq dropped \cup ToSet(rest)
        BY DEF Publish, all, fits
    <2>. HIDE DEF rest
    <2>. QED
        BY <2>2, <2>3, Elements
<1>. QED
    BY <1>1, <1>3, <1>4, <1>5, <1>6, <1>7

(* Nothing that is in the queue leaves it, and only the new come after it. *)
LEMMA PublishedInQueue ==
    ASSUME QueuesOK, NEW events \in Seq(Events), Publish(events)
    PROVE  /\ ToSet(bus) \subseteq ToSet(bus')
           /\ ToSet(events) \subseteq ToSet(bus') \cup dropped'
           /\ ToSet(events) \cap Edges = {} =>
                  /\ NoEdge(bus) => NoEdge(bus')
                  /\ \A x : Newest(bus, x) => Newest(bus', x)
<1>1. /\ DOMAIN bus = 1..Len(bus) /\ DOMAIN bus' = 1..Len(bus') /\ DOMAIN events = 1..Len(events)
      /\ Len(bus) \in Nat /\ Len(bus') \in Nat /\ Len(events) \in Nat
    BY Published DEF QueuesOK
<1>2. /\ Len(bus) <= Len(bus') /\ \A i \in 1..Len(bus) : bus'[i] = bus[i]
      /\ \A i \in 1..Len(bus') : i > Len(bus) => bus'[i] \in ToSet(events)
    BY Published
<1>3. ToSet(bus) \subseteq ToSet(bus')
    BY <1>1, <1>2 DEF ToSet
<1>4. ToSet(events) \subseteq ToSet(bus') \cup dropped'
    <2>. SUFFICES ASSUME NEW k \in 1..Len(events), events[k] \notin dropped'
                  PROVE  events[k] \in ToSet(bus')
        BY <1>1 DEF ToSet
    <2>1. Len(bus) + k \in 1..Len(bus') /\ bus'[Len(bus) + k] = events[k]
        BY <1>1, Published
    <2>. QED
        BY <1>1, <2>1 DEF ToSet
<1>5. ASSUME ToSet(events) \cap Edges = {}
      PROVE  /\ NoEdge(bus) => NoEdge(bus')
             /\ \A x : Newest(bus, x) => Newest(bus', x)
    <2>1. \A i \in 1..Len(bus') : i > Len(bus) => bus'[i] \notin Edges
        BY <1>2, <1>5
    <2>. QED
        BY <1>1, <1>2, <2>1 DEF NoEdge, Newest
<1>. QED
    BY <1>3, <1>4, <1>5

(* A round of the monitor keeps the pipeline whole, if it publishes either *)
(* new trades, which it then knows, or one change of the link.             *)
LEMMA PublishKeeps ==
    ASSUME IInv, NEW events \in Seq(Events), Publish(events),
           ToSet(events) \subseteq Tickets \/ (\E e \in Edges : events = <<e>>),
           monitor.known \cup (ToSet(events) \cap Tickets) \subseteq monitor'.known,
           UNCHANGED <<outbox, event, job, got, told, claims, local, resent, life, panel, snapshot>>
    PROVE  Flow'
<1>1. /\ announced' = [t \in Tickets |-> IF t \in ToSet(events) THEN life ELSE announced[t]]
      /\ \A e \in dropped : e \notin Edges => e \in dropped'
      /\ life \in Nat \ {0} /\ announced \in [Tickets -> 0..life]
    BY DEF Publish, IInv, Flow, HistoryOK
<1>2. \A t \in Tickets : t \notin Edges
    BY NotificationsAssumption DEF Edges
<1>3. QueuesOK'
    BY Published DEF IInv, Flow, QueuesOK
<1>4. edge' \in Edges \cup {"nothing"}
    BY DEF Publish, IInv, Flow, HistoryOK
<1>5. HistoryOK'
    BY <1>1, <1>4 DEF IInv, Flow, HistoryOK
<1>6. StillKnown'
    BY <1>1 DEF IInv, Flow, StillKnown
<1>7. \A c \in Recipients, t \in Tickets : Settled(c, t) => Settled(c, t)'
    BY <1>1, <1>2 DEF Settled, Waits
<1>8. ClaimsKept'
    BY <1>7 DEF IInv, Flow, ControlOK, ClaimsKept
<1>9. NotForgotten'
    <2>. SUFFICES ASSUME NEW c \in Recipients, NEW t \in Tickets, announced'[t] > 0
                  PROVE  Settled(c, t)' \/ t \in ToSet(bus') \/ event' = t
        BY DEF NotForgotten
    <2>1. CASE t \in ToSet(events)
        BY <2>1, PublishedInQueue DEF IInv, Flow, Settled
    <2>2. CASE t \notin ToSet(events)
        BY <1>1, <1>7, <2>2, PublishedInQueue DEF IInv, Flow, NotForgotten
    <2>. QED
        BY <2>1, <2>2
<1>10. Single'
    BY DEF IInv, Flow, Single, OneCopy
<1>11. InOrder'
    <2>1. CASE ToSet(events) \subseteq Tickets
        <3>1. ToSet(events) \cap Edges = {} /\ Edges \cap ToSet(events) = {}
            BY <1>2, <2>1
        <3>2. edge' = edge /\ dropped \subseteq dropped'
            BY <3>1 DEF Publish
        <3>3. /\ NoEdge(bus) => NoEdge(bus')
              /\ Newest(bus, edge) => Newest(bus', edge)
            BY <3>1, PublishedInQueue DEF IInv, Flow
        <3>. QED
            BY <3>2, <3>3 DEF IInv, Flow, InOrder, Last1, Last2, Last3, Last4
    <2>2. ASSUME NEW e \in Edges, events = <<e>> PROVE InOrder'
        <3>1. ToSet(events) = {e} /\ Len(events) = 1 /\ events[1] = e
            BY <2>2 DEF ToSet
        <3>2. edge' = e
            <4>1. Edges \cap ToSet(events) = {e}
                BY <3>1
            <4>. QED
                BY <4>1 DEF Publish
        <3>3. CASE e \in dropped'
            BY <3>2, <3>3 DEF InOrder
        <3>4. CASE Len(bus) + 1 <= Len(bus') /\ bus'[Len(bus) + 1] = e
            <4>1. /\ DOMAIN bus' = 1..Len(bus') /\ Len(bus') \in Nat /\ Len(bus) \in Nat
                BY Published DEF IInv, Flow, QueuesOK
            <4>2. \A i \in 1..Len(bus') : i > Len(bus) => bus'[i] = e
                BY <3>1, Published DEF IInv, Flow
            <4>3. Len(bus') \in 1..Len(bus') /\ bus'[Len(bus')] = e
                BY <3>4, <4>1, <4>2
            <4>4. Newest(bus', e)
                BY <4>1, <4>3 DEF Newest
            <4>. QED
                BY <3>2, <4>4 DEF InOrder, Last1
        <3>. QED
            BY <3>1, <3>3, <3>4, Published DEF IInv, Flow
    <2>. QED
        BY <2>1, <2>2
<1>. QED
    BY <1>3, <1>5, <1>6, <1>8, <1>9, <1>10, <1>11 DEF Flow

-----------------------------------------------------------------------------
(* One lemma per action. *)

(* Trades, changes of the link and no event are three different things. *)
LEMMA SeparateEvents == \A t \in Tickets : t \notin Edges /\ t # Nothing
BY NotificationsAssumption DEF Edges

(* What the robot, Redis and the operator do touches nothing of the        *)
(* pipeline.                                                               *)
LEMMA WorldKeeps ==
    ASSUME IInv, World
    PROVE  Flow'
BY DEF World, RedisChanges, LinkChanges, Toggle, RobotOpens, storeVars, lifeVars, robotVars, history,
    IInv, Flow, QueuesOK, HistoryOK, StillKnown, ClaimsKept, NotForgotten, Settled, Waits, Single,
    OneCopy, InOrder, Last1, Last2, Last3, Last4

(* A round of the monitor publishes one change of the link, or trades the  *)
(* robot has that the monitor did not know and knows from now on           *)
(* (heartbeat.py).                                                         *)
LEMMA MonitorPublishes ==
    ASSUME IInv, CheckState \/ Poll
    PROVE  \E events \in Seq(Events) :
               /\ Publish(events)
               /\ ToSet(events) \subseteq (snapshot \ monitor.known) \cup Edges
               /\ ToSet(events) \subseteq Tickets \/ (\E e \in Edges : events = <<e>>)
               /\ monitor.known \cup (ToSet(events) \cap Tickets) \subseteq monitor'.known
<1>1. CASE CheckState
    <2>. DEFINE ev == IF monitor.link \in {"unknown", link} THEN <<>>
                      ELSE <<IF link = "connected" THEN "restored" ELSE "lost">>
    <2>1. /\ ev \in Seq(Events) /\ ToSet(ev) \subseteq Edges
          /\ ToSet(ev) \subseteq Tickets \/ (\E e \in Edges : ev = <<e>>)
          /\ ToSet(ev) \cap Tickets = {}
        <3>1. CASE monitor.link \in {"unknown", link}
            BY <3>1 DEF ToSet
        <3>2. CASE monitor.link \notin {"unknown", link}
            <4>1. PICK e \in Edges : ev = <<e>>
                BY <3>2 DEF Edges
            <4>2. ToSet(<<e>>) = {e} /\ <<e>> \in Seq(Events)
                BY DEF ToSet, Events
            <4>. HIDE DEF ev
            <4>. QED
                BY <4>1, <4>2, SeparateEvents
        <3>. QED
            BY <3>1, <3>2
    <2>2. Publish(ev) /\ monitor'.known = monitor.known
        BY <1>1 DEF CheckState, IInv, ControlOK
    <2>. HIDE DEF ev
    <2>. QED
        BY <2>1, <2>2
<1>2. CASE Poll
    <2>1. PICK read \in SUBSET snapshot :
              \E order \in SetToSeqs(read \ monitor.known) \cup {<<>>} : CheckPositions(read, order)
        BY <1>2 DEF Poll
    <2>2. PICK order \in SetToSeqs(read \ monitor.known) \cup {<<>>} : CheckPositions(read, order)
        BY <2>1
    <2>. DEFINE new == read \ monitor.known
    <2>3. order \in Seq(new)
        <3>1. CASE order = <<>>
            BY <3>1
        <3>2. CASE order \in SetToSeqs(new)
            <4>1. Cardinality(new) \in Nat
                BY NotificationsAssumption, FS_Subset, FS_CardinalityType DEF IInv, ControlOK
            <4>2. order \in [1..Cardinality(new) -> new]
                BY <3>2 DEF SetToSeqs
            <4>. HIDE DEF new
            <4>. QED
                BY <4>1, <4>2, SeqDef
        <3>. QED
            BY <2>2, <3>1, <3>2
    <2>4. read \subseteq Tickets /\ new \subseteq Tickets /\ new \subseteq Events
        BY DEF IInv, ControlOK, Events
    <2>5. order \in Seq(Events) /\ ToSet(order) \subseteq new
        BY <2>3, <2>4, Elements
    <2>6. Publish(order) /\ monitor'.known = monitor.known \cup read
        BY <2>2 DEF CheckPositions, Known, IInv, ControlOK
    <2>. QED
        BY <2>4, <2>5, <2>6
<1>. QED
    BY <1>1, <1>2

(* The rounds of the heartbeat monitor. *)
LEMMA MonitorKeeps ==
    ASSUME IInv, Monitor
    PROVE  Flow'
<1>1. CASE CheckState \/ Poll
    <2>1. PICK events \in Seq(Events) :
               /\ Publish(events)
               /\ ToSet(events) \subseteq Tickets \/ (\E e \in Edges : events = <<e>>)
               /\ monitor.known \cup (ToSet(events) \cap Tickets) \subseteq monitor'.known
        BY <1>1, MonitorPublishes
    <2>2. UNCHANGED <<outbox, event, job, got, told, claims, local, resent, life, panel, snapshot>>
        BY <1>1 DEF CheckState, Poll, CheckPositions, robotVars, storeVars, lifeVars
    <2>. QED
        BY <2>1, <2>2, PublishKeeps
<1>2. CASE PositionsFail
    BY <1>2 DEF PositionsFail, storeVars, lifeVars, robotVars, history,
        IInv, ControlOK, Flow, QueuesOK, HistoryOK, StillKnown, ClaimsKept, NotForgotten, Settled, Waits,
        Single, OneCopy, InOrder, Last1, Last2, Last3, Last4
<1>. QED
    BY <1>1, <1>2 DEF Monitor

(* The event taken from the bus was the oldest: the order of the link      *)
(* events stays.                                                           *)
LEMMA TakeEventKeeps ==
    ASSUME IInv, TakeEvent
    PROVE  Flow'
<1>1. /\ bus \in Seq(Events) /\ bus # <<>> /\ event = Nothing
      /\ event' = Head(bus) /\ bus' = Tail(bus)
      /\ UNCHANGED <<robotVars, storeVars, lifeVars, monitor, local, outbox, job, history>>
    BY DEF TakeEvent, IInv, Flow, QueuesOK
<1>2. /\ Head(bus) \in Events /\ Tail(bus) \in Seq(Events) /\ Len(Tail(bus)) = Len(bus) - 1
      /\ Len(bus) \in Nat /\ ToSet(bus) = ToSet(Tail(bus)) \cup {Head(bus)}
    BY <1>1, Taken
<1>3. QueuesOK'
    BY <1>1, <1>2, NotificationsAssumption DEF IInv, Flow, QueuesOK
<1>. UNCHANGED <<outbox, job, announced, got, told, edge, dropped, resent>>
    BY <1>1 DEF history
<1>4. NotForgotten'
    <2>. SUFFICES ASSUME NEW c \in Recipients, NEW t \in Tickets, announced[t] > 0
                  PROVE  Settled(c, t)' \/ t \in ToSet(Tail(bus)) \/ Head(bus) = t
        BY <1>1 DEF NotForgotten
    <2>1. Settled(c, t) \/ t \in ToSet(bus)
        BY <1>1, SeparateEvents DEF IInv, Flow, NotForgotten
    <2>2. Settled(c, t) => Settled(c, t)'
        BY DEF Settled, Waits
    <2>. QED
        BY <1>2, <2>1, <2>2
<1>5. InOrder'
    <2>. SUFFICES ASSUME edge # "nothing", edge \notin dropped
                  PROVE  (Last1 \/ Last2 \/ Last3 \/ Last4)'
        BY DEF InOrder
    <2>1. event \notin Edges /\ edge \in Edges
        BY <1>1, NotificationsAssumption DEF Edges, IInv, Flow, HistoryOK
    <2>2. /\ Newest(bus, edge) =>
                 Newest(Tail(bus), edge) \/ (NoEdge(Tail(bus)) /\ Head(bus) = edge)
          /\ NoEdge(bus) => NoEdge(Tail(bus)) /\ Head(bus) \notin Edges
        BY <1>1, NewestTaken
    <2>3. Last1 \/ Last2 \/ Last3 \/ Last4
        BY DEF IInv, Flow, InOrder
    <2>4. CASE Last1
        BY <1>1, <2>2, <2>4 DEF Last1, Last2
    <2>5. CASE Last3
        BY <1>1, <2>2, <2>5 DEF Last3
    <2>6. CASE Last4
        BY <1>1, <2>2, <2>6 DEF Last4
    <2>. QED
        BY <2>1, <2>3, <2>4, <2>5, <2>6 DEF Last2
<1>6. HistoryOK' /\ StillKnown' /\ ClaimsKept' /\ Single'
    BY <1>1 DEF IInv, Flow, HistoryOK, StillKnown, ClaimsKept, Settled, Waits, Single, OneCopy,
        robotVars, storeVars, lifeVars, history
<1>. QED
    BY <1>3, <1>4, <1>5, <1>6 DEF Flow

(* Of a message that is queued or dropped. *)
LEMMA Enqueued ==
    ASSUME QueuesOK, NEW e \in Events, Enqueue(e)
    PROVE  /\ outbox' \in Seq(Events) /\ dropped \subseteq dropped' /\ dropped' \subseteq dropped \cup {e}
           /\ e \in ToSet(outbox') \/ e \in dropped'
           /\ ToSet(outbox) \subseteq ToSet(outbox') /\ ToSet(outbox') \subseteq ToSet(outbox) \cup {e}
           /\ e \in Edges => e \in dropped' \/ Newest(outbox', e)
           /\ e \notin Edges => /\ NoEdge(outbox) => NoEdge(outbox')
                               /\ \A x : Newest(outbox, x) => Newest(outbox', x)
           /\ e \notin ToSet(outbox) =>
                  \A i, j \in DOMAIN outbox' : outbox'[i] = e /\ outbox'[j] = e => i = j
           /\ \A t : t # e /\ (\A i, j \in DOMAIN outbox : outbox[i] = t /\ outbox[j] = t => i = j)
                  => \A i, j \in DOMAIN outbox' : outbox'[i] = t /\ outbox'[j] = t => i = j
<1>1. CASE Len(outbox) < OutboxLimit
    <2>1. outbox' = Append(outbox, e) /\ dropped' = dropped
        BY <1>1 DEF Enqueue
    <2>2. /\ DOMAIN outbox = 1..Len(outbox) /\ Len(outbox) \in Nat
          /\ DOMAIN outbox' = 1..Len(outbox) + 1
          /\ \A i \in 1..Len(outbox) : outbox'[i] = outbox[i]
          /\ outbox'[Len(outbox) + 1] = e
          /\ outbox' \in Seq(Events) /\ ToSet(outbox') = ToSet(outbox) \cup {e}
        BY <2>1, Appended DEF QueuesOK
    <2>3. /\ e \in Edges => Newest(outbox', e)
          /\ e \notin Edges => /\ NoEdge(outbox) => NoEdge(outbox')
                              /\ \A x : Newest(outbox, x) => Newest(outbox', x)
        BY <2>1, NewestAppended DEF QueuesOK
    <2>4. e \notin ToSet(outbox) => \A i \in 1..Len(outbox) : outbox[i] # e
        BY <2>2 DEF ToSet
    <2>5. e \notin ToSet(outbox) =>
              \A i, j \in DOMAIN outbox' : outbox'[i] = e /\ outbox'[j] = e => i = j
        BY <2>2, <2>4
    <2>6. \A t : t # e /\ (\A i, j \in DOMAIN outbox : outbox[i] = t /\ outbox[j] = t => i = j)
                  => \A i, j \in DOMAIN outbox' : outbox'[i] = t /\ outbox'[j] = t => i = j
        BY <2>2
    <2>. QED
        BY <2>1, <2>2, <2>3, <2>5, <2>6
<1>2. CASE ~(Len(outbox) < OutboxLimit)
    <2>1. outbox' = outbox /\ dropped' = dropped \cup {e}
        BY <1>2 DEF Enqueue
    <2>2. e \notin ToSet(outbox) => \A i \in DOMAIN outbox : outbox[i] # e
        BY DEF ToSet
    <2>. QED
        BY <2>1, <2>2 DEF QueuesOK
<1>. QED
    BY <1>1, <1>2

(* The handler of an event: a change of the link and a trade claimed for   *)
(* the first time are queued or dropped, a trade claimed before is settled *)
(* already, a muted one is dropped.                                        *)
LEMMA HandleKeeps ==
    ASSUME IInv, Handle
    PROVE  Flow'
<1>1. /\ event \in Events /\ event' = Nothing
      /\ UNCHANGED <<robotVars, redis, rows, lifeVars, monitor, bus, job, announced, got, told, edge>>
      /\ claims \subseteq Tickets /\ local \subseteq Tickets
    BY DEF Handle, IInv, Flow, QueuesOK, ControlOK
<1>2. QueuesOK
    BY DEF IInv, Flow
<1>3. HistoryOK' /\ StillKnown'
    BY <1>1 DEF IInv, Flow, HistoryOK, StillKnown, lifeVars
<1>4. Nothing \notin Edges
    BY NotificationsAssumption DEF Edges
<1>5. CASE event \in Edges /\ Enqueue(event) /\ UNCHANGED <<local, claims, resent>>
    <2>1. QueuesOK'
        BY <1>1, <1>2, <1>5, Enqueued DEF QueuesOK
    <2>2. \A t \in Tickets : t \in ToSet(outbox') <=> t \in ToSet(outbox)
        BY <1>1, <1>2, <1>5, Enqueued, SeparateEvents
    <2>3. \A t \in Tickets, c \in Recipients : Settled(c, t) => Settled(c, t)'
        BY <1>1, <1>2, <1>5, <2>2, Enqueued DEF Settled, Waits
    <2>4. ClaimsKept'
        BY <1>1, <1>5, <2>3 DEF IInv, Flow, ClaimsKept
    <2>5. NotForgotten'
        BY <1>1, <1>5, <2>3, SeparateEvents DEF IInv, Flow, NotForgotten
    <2>6. Single'
        <3>. SUFFICES ASSUME NEW t \in Tickets \ resent PROVE OneCopy(t)'
            BY <1>5 DEF Single
        <3>1. OneCopy(t) /\ t # event
            BY <1>5, SeparateEvents DEF IInv, Flow, Single
        <3>2. \A i, j \in DOMAIN outbox' : outbox'[i] = t /\ outbox'[j] = t => i = j
            BY <1>1, <1>2, <1>5, <3>1, Enqueued DEF OneCopy
        <3>. QED
            BY <1>1, <1>5, <2>2, <3>1, <3>2 DEF OneCopy
    <2>7. InOrder'
        <3>. SUFFICES ASSUME edge # "nothing", edge \notin dropped'
                      PROVE  (Last1 \/ Last2 \/ Last3 \/ Last4)'
            BY <1>1 DEF InOrder
        <3>1. edge \notin dropped /\ (Last1 \/ Last2)
            BY <1>1, <1>2, <1>5, Enqueued
               DEF IInv, Flow, InOrder, Last3, Last4
        <3>2. CASE Last1
            BY <1>1, <3>2 DEF Last1
        <3>3. CASE Last2
            BY <1>1, <1>2, <1>4, <1>5, <3>3, Enqueued DEF Last2, Last3
        <3>. QED
            BY <3>1, <3>2, <3>3
    <2>. QED
        BY <1>3, <2>1, <2>4, <2>5, <2>6, <2>7 DEF Flow
<1>6. ASSUME event \in Tickets, dropped \subseteq dropped', outbox' \in Seq(Events),
             NoEdge(outbox) => NoEdge(outbox'), \A x : Newest(outbox, x) => Newest(outbox', x)
      PROVE  QueuesOK' /\ InOrder'
    <2>1. QueuesOK'
        BY <1>1, <1>2, <1>6 DEF QueuesOK
    <2>2. InOrder'
        <3>. SUFFICES ASSUME edge # "nothing", edge \notin dropped'
                      PROVE  (Last1 \/ Last2 \/ Last3 \/ Last4)'
            BY <1>1 DEF InOrder
        <3>1. edge \in Edges /\ event \notin Edges /\ event' \notin Edges
            BY <1>1, <1>4, <1>6, SeparateEvents DEF IInv, Flow, HistoryOK
        <3>2. Last1 \/ Last2 \/ Last3 \/ Last4
            BY <1>6 DEF IInv, Flow, InOrder
        <3>3. CASE Last1
            BY <1>1, <3>3 DEF Last1
        <3>4. CASE Last3
            BY <1>1, <1>6, <3>1, <3>4 DEF Last3
        <3>5. CASE Last4
            BY <1>1, <1>6, <3>1, <3>5 DEF Last4
        <3>. QED
            BY <3>1, <3>2, <3>3, <3>4, <3>5 DEF Last2
    <2>. QED
        BY <2>1, <2>2
<1>7. CASE event \in Tickets /\ ~Claimed(event) /\ Claim(event) /\ Enqueue(event)
    <2>1. /\ local' = local \cup {event} /\ claims \subseteq claims' /\ claims' \subseteq claims \cup {event}
          /\ resent \subseteq resent'
          /\ event \notin resent' => event \in claims' /\ event \notin claims
        BY <1>7 DEF Claim, Claimed
    <2>2. QueuesOK' /\ InOrder'
        BY <1>1, <1>2, <1>6, <1>7, Enqueued, SeparateEvents
    <2>3. \A t \in Tickets, c \in Recipients : Settled(c, t) \/ t = event => Settled(c, t)'
        BY <1>1, <1>2, <1>7, Enqueued DEF Settled, Waits
    <2>4. ClaimsKept'
        BY <1>1, <1>7, <2>1, <2>3 DEF IInv, Flow, ClaimsKept
    <2>5. NotForgotten'
        BY <1>1, <2>3 DEF IInv, Flow, NotForgotten
    <2>6. Single'
        <3>. SUFFICES ASSUME NEW t \in Tickets \ resent' PROVE OneCopy(t)'
            BY DEF Single
        <3>1. OneCopy(t)
            BY <2>1 DEF IInv, Flow, Single
        <3>2. CASE t # event
            <4>1. t \in ToSet(outbox') => t \in ToSet(outbox)
                BY <1>1, <1>2, <1>7, <3>2, Enqueued
            <4>2. \A i, j \in DOMAIN outbox' : outbox'[i] = t /\ outbox'[j] = t => i = j
                BY <1>1, <1>2, <1>7, <3>1, <3>2, Enqueued DEF OneCopy
            <4>. QED
                BY <1>1, <2>1, <3>1, <4>1, <4>2 DEF OneCopy
        <3>3. CASE t = event
            <4>1. t \notin claims /\ t \in claims'
                BY <2>1, <3>3
            <4>2. t \notin ToSet(outbox) /\ job.event # t /\ \A c \in Recipients : got[c][t] = 0
                BY <3>1, <4>1 DEF OneCopy
            <4>3. \A i, j \in DOMAIN outbox' : outbox'[i] = t /\ outbox'[j] = t => i = j
                BY <1>1, <1>2, <1>7, <3>3, <4>2, Enqueued
            <4>. QED
                BY <1>1, <4>1, <4>2, <4>3 DEF OneCopy
        <3>. QED
            BY <3>2, <3>3
    <2>. QED
        BY <1>3, <2>2, <2>4, <2>5, <2>6 DEF Flow
<1>8. CASE /\ event \in Tickets /\ (Muted \/ Claimed(event))
           /\ dropped' = IF Muted THEN dropped \cup {event} ELSE dropped
           /\ UNCHANGED <<local, claims, resent, outbox>>
    <2>1. QueuesOK' /\ InOrder'
        <3>1. outbox' = outbox /\ dropped \subseteq dropped'
            BY <1>8
        <3>2. outbox' \in Seq(Events)
            BY <1>2, <3>1 DEF QueuesOK
        <3>. QED
            BY <1>6, <1>8, <3>1, <3>2
    <2>2. \A t \in Tickets, c \in Recipients : Settled(c, t) => Settled(c, t)'
        BY <1>1, <1>8 DEF Settled, Waits
    <2>3. ClaimsKept'
        BY <1>1, <1>8, <2>2 DEF IInv, Flow, ClaimsKept
    <2>4. ASSUME NEW c \in Recipients, NEW t \in Tickets, t = event PROVE Settled(c, t)'
        <3>1. CASE Muted
            BY <1>8, <2>4, <3>1 DEF Settled
        <3>2. CASE Claimed(event)
            <4>1. Settled(c, t)
                BY <2>4, <3>2 DEF Claimed, IInv, Flow, ClaimsKept
            <4>. QED
                BY <2>2, <4>1
        <3>. QED
            BY <1>8, <3>1, <3>2
    <2>5. NotForgotten'
        <3>. SUFFICES ASSUME NEW c \in Recipients, NEW t \in Tickets, announced[t] > 0
                      PROVE  Settled(c, t)' \/ t \in ToSet(bus)
            BY <1>1 DEF NotForgotten
        <3>1. Settled(c, t) \/ t \in ToSet(bus) \/ event = t
            BY DEF IInv, Flow, NotForgotten
        <3>. QED
            BY <2>2, <2>4, <3>1
    <2>6. Single'
        BY <1>1, <1>8 DEF IInv, Flow, Single, OneCopy
    <2>. QED
        BY <1>3, <2>1, <2>3, <2>5, <2>6 DEF Flow
<1>. QED
    BY <1>5, <1>7, <1>8 DEF Handle

(* A handler that raises drops its event and nothing else. *)
LEMMA HandlerFailsKeeps ==
    ASSUME IInv, HandlerFails
    PROVE  Flow'
<1>1. /\ event \in Events /\ event' = Nothing /\ dropped' = dropped \cup {event}
      /\ UNCHANGED <<claims, local, snapshot, life, panel, monitor, bus, outbox, job>>
      /\ UNCHANGED <<announced, got, told, edge, resent>>
    BY DEF HandlerFails, IInv, Flow, QueuesOK, storeVars, lifeVars, robotVars
<1>2. \A t \in Tickets, c \in Recipients : Settled(c, t) \/ t = event => Settled(c, t)'
    BY <1>1 DEF Settled, Waits
<1>3. QueuesOK' /\ HistoryOK' /\ StillKnown' /\ Single'
    BY <1>1 DEF IInv, Flow, QueuesOK, HistoryOK, StillKnown, Single, OneCopy
<1>4. ClaimsKept'
    BY <1>1, <1>2 DEF IInv, Flow, ControlOK, ClaimsKept
<1>5. NotForgotten'
    BY <1>1, <1>2 DEF IInv, Flow, NotForgotten
<1>6. InOrder'
    <2>. SUFFICES ASSUME edge # "nothing", edge \notin dropped, event # edge
                  PROVE  (Last1 \/ Last2 \/ Last3 \/ Last4)'
        BY <1>1 DEF InOrder
    <2>1. event' \notin Edges /\ (Last1 \/ Last3 \/ Last4)
        BY <1>1, NotificationsAssumption DEF Edges, IInv, Flow, InOrder, Last2
    <2>2. CASE Last1
        BY <1>1, <2>2 DEF Last1
    <2>3. CASE Last3
        BY <1>1, <2>1, <2>3 DEF Last3
    <2>4. CASE Last4
        BY <1>1, <2>1, <2>4 DEF Last4
    <2>. QED
        BY <2>1, <2>2, <2>3, <2>4
<1>. QED
    BY <1>3, <1>4, <1>5, <1>6 DEF Flow

(* The notification taken from the outbox goes to all chats, and no other  *)
(* copy of it is left if it may not repeat.                                *)
LEMMA TakeJobKeeps ==
    ASSUME IInv, TakeJob
    PROVE  Flow'
<1>1. /\ outbox \in Seq(Events) /\ outbox # <<>> /\ job = NoJob
      /\ job' = [event |-> Head(outbox), left |-> Chats, attempt |-> 1] /\ outbox' = Tail(outbox)
      /\ UNCHANGED <<claims, local, snapshot, life, panel, monitor, bus, event>>
      /\ UNCHANGED <<announced, got, told, edge, dropped, resent>>
    BY DEF TakeJob, IInv, Flow, QueuesOK, storeVars, lifeVars, robotVars, history
<1>2. /\ Head(outbox) \in Events /\ Tail(outbox) \in Seq(Events) /\ Head(outbox) = outbox[1]
      /\ ToSet(outbox) = ToSet(Tail(outbox)) \cup {Head(outbox)}
      /\ Len(outbox) \in Nat \ {0} /\ DOMAIN outbox = 1..Len(outbox)
      /\ DOMAIN Tail(outbox) = 1..Len(outbox) - 1
      /\ \A i \in 1..Len(outbox) - 1 : Tail(outbox)[i] = outbox[i + 1]
    BY <1>1, Taken
<1>3. Nothing \notin Events
    BY NotificationsAssumption DEF Events, Edges
<1>4. job'.event = Head(outbox) /\ ToSet(job'.left) = Recipients /\ job.event = Nothing
    BY <1>1 DEF Recipients, NoJob
<1>5. QueuesOK'
    <2>1. job' \in Jobs
        BY <1>1, <1>2, NotificationsAssumption DEF Jobs, Recipients
    <2>2. job'.left # <<>> /\ IsInjective(job'.left) /\ job'.event # Nothing
        BY <1>1, <1>2, <1>3, NotificationsAssumption
    <2>. QED
        BY <1>1, <1>2, <2>1, <2>2 DEF IInv, Flow, QueuesOK
<1>6. \A c \in Recipients, t \in Tickets : Settled(c, t) => Settled(c, t)'
    BY <1>1, <1>2, <1>4, SeparateEvents DEF Settled, Waits
<1>7. HistoryOK' /\ StillKnown'
    BY <1>1 DEF IInv, Flow, HistoryOK, StillKnown
<1>8. ClaimsKept'
    BY <1>1, <1>6 DEF IInv, Flow, ControlOK, ClaimsKept
<1>9. NotForgotten'
    BY <1>1, <1>6 DEF IInv, Flow, NotForgotten
<1>10. Single'
    <2>. SUFFICES ASSUME NEW t \in Tickets \ resent PROVE OneCopy(t)'
        BY <1>1 DEF Single
    <2>1. OneCopy(t)
        BY DEF IInv, Flow, Single
    <2>2. \A i, j \in DOMAIN outbox' : outbox'[i] = t /\ outbox'[j] = t => i = j
        <3>. SUFFICES ASSUME NEW i \in 1..Len(outbox) - 1, NEW j \in 1..Len(outbox) - 1,
                             outbox[i + 1] = t, outbox[j + 1] = t
                      PROVE  i = j
            BY <1>1, <1>2
        <3>1. i + 1 \in DOMAIN outbox /\ j + 1 \in DOMAIN outbox
            BY <1>2
        <3>. QED
            BY <2>1, <3>1 DEF OneCopy
    <2>3. t \in ToSet(outbox') => job'.event # t
        <3>. SUFFICES ASSUME NEW i \in 1..Len(outbox) - 1, outbox[i + 1] = t, outbox[1] = t
                      PROVE  FALSE
            BY <1>1, <1>2, <1>4 DEF ToSet
        <3>1. i + 1 \in DOMAIN outbox /\ 1 \in DOMAIN outbox /\ i + 1 # 1
            BY <1>2
        <3>. QED
            BY <2>1, <3>1 DEF OneCopy
    <2>4. t \in ToSet(outbox') \/ job'.event = t => t \in ToSet(outbox)
        BY <1>1, <1>2, <1>4
    <2>. QED
        BY <1>1, <1>4, <2>1, <2>2, <2>3, <2>4 DEF OneCopy
<1>11. InOrder'
    <2>. SUFFICES ASSUME edge # "nothing", edge \notin dropped
                  PROVE  (Last1 \/ Last2 \/ Last3 \/ Last4)'
        BY <1>1 DEF InOrder
    <2>1. edge \in Edges /\ Nothing \notin Edges
        BY <1>3 DEF IInv, Flow, HistoryOK, Events
    <2>2. /\ Newest(outbox, edge) =>
                 Newest(Tail(outbox), edge) \/ (NoEdge(Tail(outbox)) /\ Head(outbox) = edge)
          /\ NoEdge(outbox) => NoEdge(Tail(outbox)) /\ Head(outbox) \notin Edges
        BY <1>1, NewestTaken
    <2>3. Last1 \/ Last2 \/ Last3 \/ Last4
        BY DEF IInv, Flow, InOrder
    <2>4. CASE Last1 \/ Last2
        BY <1>1, <2>4 DEF Last1, Last2
    <2>5. CASE Last3
        <3>1. CASE Newest(Tail(outbox), edge)
            BY <1>1, <2>5, <3>1 DEF Last3
        <3>2. CASE NoEdge(Tail(outbox)) /\ Head(outbox) = edge
            BY <1>1, <1>4, <2>5, <3>2 DEF Last3, Last4
        <3>. QED
            BY <2>2, <2>5, <3>1, <3>2 DEF Last3
    <2>6. CASE Last4
        BY <1>1, <1>4, <2>1, <2>2, <2>6 DEF Last4
    <2>. QED
        BY <2>3, <2>4, <2>5, <2>6
<1>. QED
    BY <1>5, <1>7, <1>8, <1>9, <1>10, <1>11 DEF Flow

(* The loop over the chats: the next round has the chats that are left but *)
(* the first, or there is none.                                            *)
LEMMA NextChat ==
    ASSUME QueuesOK, job # NoJob
    PROVE  /\ Head(job.left) \in Recipients /\ ToSet(job.left) \subseteq Recipients
           /\ job.event \in Events
           /\ GoOn \in Jobs /\ (GoOn.event = Nothing => GoOn = NoJob)
           /\ GoOn.event # Nothing => GoOn.left # <<>>
           /\ IsInjective(GoOn.left) /\ GoOn.event \in {job.event, Nothing}
           /\ ToSet(GoOn.left) \subseteq ToSet(job.left) \ {Head(job.left)}
           /\ Head(job.left) \in ToSet(job.left)
           /\ \A c \in ToSet(job.left) :
                  c = Head(job.left) \/ (GoOn.event = job.event /\ c \in ToSet(GoOn.left))
<1>. DEFINE q == job.left
<1>1. /\ q \in Seq(Recipients) /\ q # <<>> /\ IsInjective(q)
      /\ job.event \in Events /\ job \in Jobs /\ job.event # Nothing
    BY DEF QueuesOK, Jobs
<1>. HIDE DEF q
<1>2. /\ Head(q) = q[1] /\ Head(q) \in Recipients /\ Len(q) \in Nat \ {0}
      /\ Tail(q) \in Seq(Recipients) /\ Len(Tail(q)) = Len(q) - 1
      /\ \A i \in 1..Len(q) - 1 : Tail(q)[i] = q[i + 1]
      /\ ToSet(q) = ToSet(Tail(q)) \cup {Head(q)} /\ DOMAIN q = 1..Len(q)
      /\ DOMAIN Tail(q) = 1..Len(q) - 1
    BY <1>1, Taken
<1>3. IsInjective(Tail(q)) /\ Head(q) \notin ToSet(Tail(q))
    <2>1. \A i, j \in 1..Len(q) : q[i] = q[j] => i = j
        BY <1>1, <1>2 DEF IsInjective
    <2>2. IsInjective(Tail(q))
        <3>. SUFFICES ASSUME NEW i \in 1..Len(q) - 1, NEW j \in 1..Len(q) - 1, q[i + 1] = q[j + 1]
                      PROVE  i = j
            BY <1>2 DEF IsInjective
        <3>1. i + 1 \in 1..Len(q) /\ j + 1 \in 1..Len(q)
            BY <1>2
        <3>. QED
            BY <2>1, <3>1
    <2>3. ASSUME NEW i \in 1..Len(q) - 1 PROVE Tail(q)[i] # Head(q)
        <3>1. i + 1 \in 1..Len(q) /\ 1 \in 1..Len(q) /\ i + 1 # 1
            BY <1>2
        <3>. QED
            BY <1>2, <2>1, <3>1
    <2>. QED
        BY <1>2, <2>2, <2>3 DEF ToSet
<1>4. CASE Len(q) = 1
    <2>1. GoOn = NoJob
        BY <1>4 DEF GoOn, q
    <2>2. NoJob \in Jobs /\ NoJob.left = <<>> /\ NoJob.event = Nothing
        BY NotificationsAssumption DEF NoJob, Jobs
    <2>3. IsInjective(<<>>) /\ ToSet(<<>>) = {}
        BY DEF IsInjective, ToSet
    <2>4. ToSet(q) = {Head(q)}
        BY <1>2, <1>4 DEF ToSet
    <2>. QED
        BY <1>1, <1>2, <2>1, <2>2, <2>3, <2>4 DEF q
<1>5. CASE Len(q) # 1
    <2>1. GoOn = [event |-> job.event, left |-> Tail(q), attempt |-> 1]
        BY <1>1, <1>5 DEF GoOn, q, Jobs
    <2>2. GoOn.left = Tail(q) /\ GoOn.event = job.event /\ GoOn.attempt = 1
        BY <2>1
    <2>3. Tail(q) # <<>>
        <3>1. Len(Tail(q)) # 0
            BY <1>2, <1>5
        <3>. QED
            BY <3>1, EmptySeq
    <2>4. GoOn \in Jobs
        <3>1. 1 \in 1..Attempts
            BY NotificationsAssumption
        <3>. QED
            BY <1>1, <1>2, <2>1, <3>1 DEF Jobs
    <2>5. IsInjective(GoOn.left) /\ ToSet(GoOn.left) = ToSet(Tail(q))
        BY <1>3, <2>2
    <2>6. ToSet(Tail(q)) = ToSet(q) \ {Head(q)} /\ ToSet(q) \subseteq Recipients
        <3>1. ToSet(q) \subseteq Recipients
            BY <1>1, Elements
        <3>. QED
            BY <1>2, <1>3, <3>1
    <2>7. GoOn.event = job.event /\ GoOn.event # Nothing /\ GoOn.left # <<>>
        BY <1>1, <2>2, <2>3
    <2>8. Head(q) \in Recipients /\ Head(q) \in ToSet(q)
        BY <1>2
    <2>. QED
        BY <1>1, <2>4, <2>5, <2>6, <2>7, <2>8 DEF q
<1>. QED
    BY <1>4, <1>5

(* A message that reaches a chat changes what that chat has, for that      *)
(* message only.                                                           *)
LEMMA Reached ==
    ASSUME QueuesOK, HistoryOK, job # NoJob, Reaches \/ UNCHANGED <<got, told>>
    PROVE  /\ got' \in [Recipients -> [Tickets -> 0..2]]
           /\ told' \in [Recipients -> Edges \cup {"nothing"}]
           /\ \A c \in Recipients, t \in Tickets :
                  /\ c # Head(job.left) \/ t # job.event => got'[c][t] = got[c][t]
                  /\ got[c][t] > 0 => got'[c][t] > 0
                  /\ got[c][t] = 0 => got'[c][t] \in {0, 1}
           /\ \A c \in Recipients :
                  told'[c] = told[c] \/ (c = Head(job.left) /\ told'[c] = job.event)
           /\ job.event \in Tickets => told' = told
           /\ Reaches => /\ job.event \in Tickets => got'[Head(job.left)][job.event] > 0
                         /\ job.event \in Edges => told'[Head(job.left)] = job.event
<1>. DEFINE chat == Head(job.left)
<1>1. chat \in Recipients /\ job.event \in Events
    BY NextChat
<1>2. CASE UNCHANGED <<got, told>> /\ ~Reaches
    BY <1>2 DEF HistoryOK
<1>3. CASE Reaches /\ job.event \in Tickets
    <2>1. /\ got' = [got EXCEPT ![chat][job.event] =
                        IF got[chat][job.event] = 2 THEN 2 ELSE got[chat][job.event] + 1]
          /\ told' = told
        BY <1>3 DEF Reaches
    <2>2. job.event \notin Edges
        BY <1>3, SeparateEvents
    <2>. QED
        BY <1>1, <1>3, <2>1, <2>2 DEF HistoryOK
<1>4. CASE Reaches /\ job.event \notin Tickets
    <2>1. told' = [told EXCEPT ![chat] = job.event] /\ got' = got
        BY <1>4 DEF Reaches
    <2>. QED
        BY <1>1, <1>4, <2>1 DEF HistoryOK, Events
<1>. QED
    BY <1>2, <1>3, <1>4

(* What an attempt, good or failed, does: the chats that are left shrink,  *)
(* and one that leaves them has the message or the message is dropped;     *)
(* only a repeated attempt may reach a chat twice, and it is recorded.     *)
LEMMA SendingMoves ==
    ASSUME IInv, Sent \/ SendFails
    PROVE  /\ job # NoJob /\ (Reaches \/ UNCHANGED <<got, told>>)
           /\ dropped \subseteq dropped' /\ resent \subseteq resent'
           /\ UNCHANGED <<claims, local, snapshot, life, panel, monitor, bus, event, outbox, announced, edge>>
           /\ job' \in Jobs /\ (job'.event = Nothing => job' = NoJob)
           /\ job'.event # Nothing => job'.left # <<>>
           /\ IsInjective(job'.left) /\ job'.event \in {job.event, Nothing}
           /\ ToSet(job'.left) \subseteq ToSet(job.left)
           /\ \A c \in ToSet(job.left) :
                  \/ job'.event = job.event /\ c \in ToSet(job'.left)
                  \/ job.event \in dropped'
                  \/ c = Head(job.left) /\ Reaches
           /\ \/ UNCHANGED <<got, told>>
              \/ job.event \in Tickets \ resent' => Head(job.left) \notin ToSet(job'.left)
<1>1. /\ job # NoJob /\ (Reaches \/ UNCHANGED <<got, told>>)
      /\ dropped \subseteq dropped' /\ resent \subseteq resent'
      /\ UNCHANGED <<claims, local, snapshot, life, panel, monitor, bus, event, outbox, announced, edge>>
    BY DEF Sent, SendFails, storeVars, lifeVars, robotVars
<1>2. QueuesOK /\ job.event # Nothing /\ job \in Jobs /\ job.left # <<>> /\ IsInjective(job.left)
    BY <1>1 DEF IInv, Flow, QueuesOK
<1>3. NoJob \in Jobs /\ NoJob.event = Nothing /\ IsInjective(NoJob.left) /\ ToSet(NoJob.left) = {}
    BY NotificationsAssumption DEF NoJob, Jobs, IsInjective, ToSet
<1>4. CASE Reaches /\ job' = GoOn
    BY <1>1, <1>2, <1>4, NextChat
<1>5. CASE job.attempt < Attempts /\ job' = [job EXCEPT !.attempt = @ + 1]
           /\ \/ resent' = resent \cup ({job.event} \cap Tickets)
              \/ UNCHANGED <<got, told, resent>>
    <2>1. job'.event = job.event /\ job'.left = job.left /\ job' \in Jobs
        BY <1>2, <1>5, NotificationsAssumption DEF Jobs
    <2>. QED
        BY <1>1, <1>2, <1>5, <2>1
<1>6. CASE job' \in {GoOn, NoJob} /\ dropped' = dropped \cup {job.event}
    <2>1. CASE job' = GoOn
        BY <1>1, <1>2, <1>6, <2>1, NextChat
    <2>2. CASE job' = NoJob
        BY <1>1, <1>2, <1>3, <1>6, <2>2
    <2>. QED
        BY <1>6, <2>1, <2>2
<1>. QED
    BY <1>4, <1>5, <1>6 DEF Sent, SendFails

(* The attempts to send one notification to one chat. *)
LEMMA SendingKeeps ==
    ASSUME IInv, Sent \/ SendFails
    PROVE  Flow'
<1>. DEFINE chat == Head(job.left)
<1>1. QueuesOK /\ HistoryOK
    BY DEF IInv, Flow
<1>2. /\ job # NoJob /\ (Reaches \/ UNCHANGED <<got, told>>)
      /\ dropped \subseteq dropped' /\ resent \subseteq resent'
      /\ UNCHANGED <<claims, local, snapshot, life, panel, monitor, bus, event, outbox, announced, edge>>
      /\ job' \in Jobs /\ (job'.event = Nothing => job' = NoJob)
      /\ job'.event # Nothing => job'.left # <<>>
      /\ IsInjective(job'.left) /\ job'.event \in {job.event, Nothing}
      /\ ToSet(job'.left) \subseteq ToSet(job.left)
    BY SendingMoves
<1>3. \A c \in ToSet(job.left) :
          \/ job'.event = job.event /\ c \in ToSet(job'.left)
          \/ job.event \in dropped'
          \/ c = chat /\ Reaches
    BY SendingMoves
<1>4. \/ UNCHANGED <<got, told>>
      \/ job.event \in Tickets \ resent' => chat \notin ToSet(job'.left)
    BY SendingMoves
<1>5. /\ got' \in [Recipients -> [Tickets -> 0..2]]
      /\ told' \in [Recipients -> Edges \cup {"nothing"}]
      /\ \A c \in Recipients, t \in Tickets :
             /\ c # chat \/ t # job.event => got'[c][t] = got[c][t]
             /\ got[c][t] > 0 => got'[c][t] > 0
             /\ got[c][t] = 0 => got'[c][t] \in {0, 1}
      /\ \A c \in Recipients : told'[c] = told[c] \/ (c = chat /\ told'[c] = job.event)
      /\ job.event \in Tickets => told' = told
      /\ Reaches => /\ job.event \in Tickets => got'[chat][job.event] > 0
                    /\ job.event \in Edges => told'[chat] = job.event
    BY <1>1, <1>2, Reached
<1>6. /\ chat \in Recipients /\ ToSet(job.left) \subseteq Recipients
      /\ job.event \in Events /\ chat \in ToSet(job.left)
    BY <1>1, <1>2, NextChat
<1>. HIDE DEF chat
<1>7. \A c \in Recipients, t \in Tickets : Settled(c, t) => Settled(c, t)'
    <2>. SUFFICES ASSUME NEW c \in Recipients, NEW t \in Tickets, Settled(c, t)
                  PROVE  Settled(c, t)'
        OBVIOUS
    <2>1. CASE got[c][t] > 0 \/ t \in dropped \/ t \in ToSet(outbox)
        BY <1>2, <1>5, <2>1 DEF Settled, Waits
    <2>2. CASE job.event = t /\ c \in ToSet(job.left)
        BY <1>3, <1>5, <2>2 DEF Settled, Waits
    <2>. QED
        BY <2>1, <2>2 DEF Settled, Waits
<1>8. QueuesOK'
    BY <1>1, <1>2 DEF QueuesOK
<1>9. HistoryOK' /\ StillKnown'
    BY <1>2, <1>5 DEF IInv, Flow, HistoryOK, StillKnown
<1>10. ClaimsKept'
    BY <1>2, <1>7 DEF IInv, Flow, ControlOK, ClaimsKept
<1>11. NotForgotten'
    BY <1>2, <1>7 DEF IInv, Flow, NotForgotten
<1>12. Single'
    <2>. SUFFICES ASSUME NEW t \in Tickets \ resent' PROVE OneCopy(t)'
        BY DEF Single
    <2>1. OneCopy(t)
        BY <1>2 DEF IInv, Flow, Single
    <2>2. CASE t # job.event
        <3>1. job'.event # t /\ \A c \in Recipients : got'[c][t] = got[c][t]
            BY <1>2, <1>5, <2>2, SeparateEvents
        <3>. QED
            BY <1>2, <2>1, <3>1 DEF OneCopy
    <2>3. CASE t = job.event
        <3>1. t \notin ToSet(outbox) /\ t \in claims /\ \A c \in ToSet(job.left) : got[c][t] = 0
            BY <2>1, <2>3 DEF OneCopy
        <3>2. \A c \in ToSet(job'.left) : c \in Recipients /\ got'[c][t] = 0
            BY <1>2, <1>4, <1>5, <1>6, <2>3, <3>1
        <3>3. \A c \in Recipients : got'[c][t] \in {0, 1}
            <4>1. got'[chat][t] \in {0, 1}
                BY <1>5, <1>6, <3>1
            <4>2. \A c \in Recipients : c # chat => got'[c][t] \in {0, 1}
                BY <1>5, <2>1 DEF OneCopy
            <4>. QED
                BY <4>1, <4>2
        <3>. QED
            BY <1>2, <2>1, <3>1, <3>2, <3>3 DEF OneCopy
    <2>. QED
        BY <2>2, <2>3
<1>13. InOrder'
    <2>. SUFFICES ASSUME edge # "nothing", edge \notin dropped'
                  PROVE  (Last1 \/ Last2 \/ Last3 \/ Last4)'
        BY <1>2 DEF InOrder
    <2>1. edge \in Edges /\ (Last1 \/ Last2 \/ Last3 \/ Last4) /\ Nothing \notin Edges
        BY <1>2, NotificationsAssumption DEF IInv, Flow, HistoryOK, InOrder, Edges
    <2>2. CASE Last1 \/ Last2 \/ Last3
        BY <1>2, <2>2 DEF Last1, Last2, Last3
    <2>3. CASE Last4
        <3>1. NoEdge(bus') /\ event' \notin Edges /\ NoEdge(outbox')
            BY <1>2, <2>3 DEF Last4
        <3>2. job'.event \in Edges => job'.event = edge
            BY <1>2, <2>1, <2>3 DEF Last4
        <3>3. ASSUME NEW c \in Recipients
              PROVE  told'[c] = edge \/ (job'.event = edge /\ c \in ToSet(job'.left))
            <4>1. CASE job.event \notin Edges
                BY <1>5, <1>6, <2>1, <2>3, <4>1 DEF Last4, Events
            <4>2. CASE job.event \in Edges /\ told[c] = edge
                BY <1>5, <2>3, <4>2 DEF Last4
            <4>3. CASE job.event \in Edges /\ c \in ToSet(job.left)
                BY <1>3, <1>5, <2>3, <4>3 DEF Last4
            <4>. QED
                BY <2>3, <4>1, <4>2, <4>3 DEF Last4
        <3>. QED
            BY <1>2, <3>1, <3>2, <3>3 DEF Last4
    <2>. QED
        BY <2>1, <2>2, <2>3
<1>. QED
    BY <1>8, <1>9, <1>10, <1>11, <1>12, <1>13 DEF Flow

(* stop() cancels the notification worker: the message in its hands is     *)
(* lost.                                                                   *)
LEMMA StopKeeps ==
    ASSUME IInv, Stop
    PROVE  Flow'
<1>1. /\ panel = "up" /\ panel' = "closing" /\ job' = NoJob
      /\ dropped' = dropped \cup ({job.event} \ {Nothing})
      /\ UNCHANGED <<claims, local, snapshot, life, monitor, bus, event, outbox>>
      /\ UNCHANGED <<announced, got, told, edge, resent>>
    BY DEF Stop, storeVars, robotVars
<1>2. /\ NoJob \in Jobs /\ NoJob.event = Nothing /\ IsInjective(NoJob.left) /\ ToSet(NoJob.left) = {}
      /\ Nothing \notin Events /\ Nothing \notin Edges
    BY NotificationsAssumption DEF NoJob, Jobs, IsInjective, ToSet, Events, Edges
<1>3. \A c \in Recipients, t \in Tickets : Settled(c, t) => Settled(c, t)'
    BY <1>1, SeparateEvents DEF Settled, Waits
<1>4. QueuesOK'
    BY <1>1, <1>2 DEF IInv, Flow, QueuesOK
<1>5. HistoryOK' /\ StillKnown'
    BY <1>1 DEF IInv, Flow, HistoryOK, StillKnown
<1>6. ClaimsKept'
    BY <1>1, <1>3 DEF IInv, Flow, ControlOK, ClaimsKept
<1>7. NotForgotten'
    BY <1>1, <1>3 DEF IInv, Flow, NotForgotten
<1>8. Single'
    BY <1>1, <1>2, SeparateEvents DEF IInv, Flow, Single, OneCopy
<1>9. InOrder'
    <2>. SUFFICES ASSUME edge # "nothing", edge \notin dropped'
                  PROVE  (Last1 \/ Last2 \/ Last3 \/ Last4)'
        BY <1>1 DEF InOrder
    <2>1. edge \in Edges /\ (Last1 \/ Last2 \/ Last3 \/ Last4)
        BY <1>1 DEF IInv, Flow, HistoryOK, InOrder
    <2>2. job.event # edge
        BY <1>1, <1>2, <2>1
    <2>3. CASE Last1 \/ Last2 \/ Last3
        BY <1>1, <2>3 DEF Last1, Last2, Last3
    <2>4. CASE Last4
        BY <1>1, <1>2, <2>2, <2>4 DEF Last4
    <2>. QED
        BY <2>1, <2>3, <2>4
<1>. QED
    BY <1>4, <1>5, <1>6, <1>7, <1>8, <1>9 DEF Flow

(* The end of the process loses all that is in memory; the claims in Redis *)
(* stay.                                                                   *)
LEMMA EndsKeeps ==
    ASSUME IInv, Ends
    PROVE  Flow'
<1>1. /\ panel' = "down" /\ dropped' = dropped \cup {e \in Events : InTransit(e)}
      /\ bus' = <<>> /\ outbox' = <<>> /\ local' = {} /\ event' = Nothing /\ job' = NoJob
      /\ UNCHANGED <<claims, snapshot, life, announced, got, told, edge, resent>>
    BY DEF Ends, storeVars, robotVars, Events
<1>2. /\ NoJob \in Jobs /\ NoJob.event = Nothing /\ IsInjective(NoJob.left) /\ ToSet(NoJob.left) = {}
      /\ Nothing \notin Events /\ Nothing \notin Edges /\ BusLimit \in Nat
      /\ ToSet(<<>>) = {} /\ DOMAIN <<>> = {} /\ <<>> \in Seq(Events) /\ Len(<<>>) = 0
    BY NotificationsAssumption DEF NoJob, Jobs, IsInjective, ToSet, Events, Edges
<1>3. \A c \in Recipients, t \in Tickets : Settled(c, t) => Settled(c, t)'
    BY <1>1 DEF Settled, Waits, InTransit, Events
<1>4. QueuesOK'
    BY <1>1, <1>2 DEF QueuesOK
<1>5. HistoryOK' /\ StillKnown'
    BY <1>1 DEF IInv, Flow, HistoryOK, StillKnown
<1>6. ClaimsKept'
    BY <1>1, <1>3 DEF IInv, Flow, ControlOK, ClaimsKept
<1>7. NotForgotten'
    <2>. SUFFICES ASSUME NEW c \in Recipients, NEW t \in Tickets, announced[t] > 0
                  PROVE  Settled(c, t)'
        BY <1>1 DEF NotForgotten
    <2>1. Settled(c, t) \/ InTransit(t)
        BY DEF IInv, Flow, NotForgotten, InTransit
    <2>2. InTransit(t) => t \in dropped'
        BY <1>1 DEF Events
    <2>. QED
        BY <1>3, <2>1, <2>2 DEF Settled
<1>8. Single'
    <2>. SUFFICES ASSUME NEW t \in Tickets \ resent PROVE OneCopy(t)'
        BY <1>1 DEF Single
    <2>1. OneCopy(t)
        BY DEF IInv, Flow, Single
    <2>. QED
        BY <1>1, <1>2, <2>1, SeparateEvents DEF OneCopy
<1>9. InOrder'
    <2>. SUFFICES ASSUME edge # "nothing", edge \notin dropped'
                  PROVE  Last4'
        BY <1>1 DEF InOrder
    <2>1. edge \in Edges /\ (Last1 \/ Last2 \/ Last3 \/ Last4) /\ ~InTransit(edge)
        BY <1>1 DEF IInv, Flow, HistoryOK, InOrder, Events
    <2>2. \A q : Newest(q, edge) => edge \in ToSet(q)
        BY DEF Newest, ToSet
    <2>3. Last4 /\ job.event # edge
        BY <2>1, <2>2 DEF InTransit, Last1, Last2, Last3
    <2>. QED
        BY <1>1, <1>2, <2>3 DEF Last4, NoEdge
<1>. QED
    BY <1>4, <1>5, <1>6, <1>7, <1>8, <1>9 DEF Flow

(* In a new life nothing has been announced yet. *)
LEMMA RestartsKeeps ==
    ASSUME IInv, Restarts
    PROVE  Flow'
<1>1. /\ life' = life + 1 /\ life' \in Nat \ {0} /\ panel' = "up"
      /\ UNCHANGED <<claims, local, snapshot, bus, event, outbox, job>>
      /\ UNCHANGED <<announced, got, told, edge, dropped, resent>>
    BY DEF Restarts, IInv, Flow, HistoryOK, history, storeVars, robotVars
<1>2. announced' \in [Tickets -> 0..life'] /\ \A t \in Tickets : announced'[t] # life'
    BY <1>1 DEF IInv, Flow, HistoryOK
<1>3. HistoryOK' /\ StillKnown'
    BY <1>1, <1>2 DEF IInv, Flow, HistoryOK, StillKnown
<1>4. QueuesOK' /\ ClaimsKept' /\ NotForgotten' /\ Single' /\ InOrder'
    BY <1>1 DEF IInv, Flow, QueuesOK, ClaimsKept, NotForgotten, Settled, Waits, Single, OneCopy, InOrder,
        Last1, Last2, Last3, Last4
<1>. QED
    BY <1>3, <1>4 DEF Flow

-----------------------------------------------------------------------------
(* The whole invariant. *)

(* Every step keeps the types of the variables and the capacity of the     *)
(* outbox.                                                                 *)
LEMMA ControlSteps ==
    ASSUME IInv, [Next]_vars
    PROVE  ControlOK'
<1>. USE DEF robotVars, storeVars, lifeVars, history
<1>1. CASE World
    <2>1. CASE Toggle
        <3>1. /\ rows \in Seq(BOOLEAN) /\ Len(rows) < MaxRows /\ MaxRows \in Nat
              /\ rows' = Append(rows, ~Last(rows)) /\ (~Last(rows)) \in BOOLEAN
            BY <2>1, NotificationsAssumption DEF Toggle, Upsert, IInv, ControlOK
        <3>2. rows' \in Seq(BOOLEAN) /\ Len(rows') \in 1..MaxRows
            <4>1. Len(rows) \in Nat
                BY <3>1
            <4>. QED
                BY <3>1, <4>1, AppendProperties
        <3>. QED
            BY <2>1, <3>2 DEF Toggle, IInv, ControlOK
    <2>2. CASE RedisChanges \/ LinkChanges \/ \E t \in Tickets : RobotOpens(t)
        BY <2>2 DEF RedisChanges, LinkChanges, RobotOpens, IInv, ControlOK
    <2>. QED
        BY <1>1, <2>1, <2>2 DEF World
<1>2. CASE CheckState \/ Poll
    <2>1. PICK events \in Seq(Events) : Publish(events)
        BY <1>2, MonitorPublishes
    <2>2. dropped' \subseteq Events
        BY <2>1, Published DEF IInv, Flow, ControlOK
    <2>3. UNCHANGED <<robotVars, storeVars, lifeVars, local, outbox, resent>>
        BY <1>2 DEF CheckState, Poll, CheckPositions
    <2>4. monitor' \in [reads : {"state", "positions"},
                        link : {"unknown", "connected", "disconnected"},
                        polled : BOOLEAN, known : SUBSET Tickets]
        BY <1>2 DEF CheckState, Poll, CheckPositions, Known, IInv, ControlOK
    <2>. QED
        BY <2>2, <2>3, <2>4 DEF IInv, ControlOK
<1>3. CASE PositionsFail
    BY <1>3 DEF PositionsFail, IInv, ControlOK
<1>4. CASE Bus
    <2>1. CASE TakeEvent \/ HandlerFails
        BY <2>1 DEF TakeEvent, HandlerFails, IInv, ControlOK, Flow, QueuesOK
    <2>2. CASE Handle
        <3>1. /\ UNCHANGED <<robotVars, redis, rows, lifeVars, monitor>>
              /\ event \in Events
            BY <2>2 DEF Handle, IInv, Flow, QueuesOK
        <3>2. claims' \cup local' \subseteq snapshot /\ resent' \subseteq Tickets
            BY <2>2, SeparateEvents DEF Handle, Claim, IInv, ControlOK, OfTheRobot
        <3>3. dropped' \subseteq Events
            BY <2>2, <3>1 DEF Handle, Enqueue, IInv, ControlOK
        <3>4. Len(outbox') <= OutboxLimit
            BY <2>2, NotificationsAssumption DEF Handle, Enqueue, IInv, ControlOK, Flow, QueuesOK
        <3>. QED
            BY <3>1, <3>2, <3>3, <3>4 DEF IInv, ControlOK
    <2>. QED
        BY <1>4, <2>1, <2>2 DEF Bus
<1>5. CASE TakeJob
    <2>1. Len(outbox') = Len(outbox) - 1 /\ Len(outbox) \in Nat
        BY <1>5, Taken DEF TakeJob, IInv, Flow, QueuesOK
    <2>. QED
        BY <1>5, <2>1, NotificationsAssumption DEF TakeJob, IInv, ControlOK
<1>6. CASE Sent \/ SendFails
    <2>1. UNCHANGED <<robotVars, storeVars, lifeVars, monitor, local, outbox>>
        BY <1>6 DEF Sent, SendFails
    <2>2. dropped' \subseteq Events /\ resent' \subseteq Tickets
        <3>1. job.event \in Events
            <4>1. job # NoJob /\ QueuesOK
                BY <1>6 DEF Sent, SendFails, IInv, Flow
            <4>. QED
                BY <4>1, NextChat
        <3>. QED
            BY <1>6, <3>1 DEF Sent, SendFails, IInv, ControlOK
    <2>. QED
        BY <2>1, <2>2 DEF IInv, ControlOK
<1>7. CASE Stop
    BY <1>7 DEF Stop, IInv, ControlOK, Flow, QueuesOK, Jobs
<1>8. CASE Ends
    BY <1>8, NotificationsAssumption DEF Ends, FreshMonitor, Events, IInv, ControlOK
<1>9. CASE Restarts
    BY <1>9, NotificationsAssumption DEF Restarts, IInv, ControlOK
<1>10. CASE UNCHANGED vars
    BY <1>10 DEF vars, IInv, ControlOK
<1>. QED
    BY <1>1, <1>2, <1>3, <1>4, <1>5, <1>6, <1>7, <1>8, <1>9, <1>10 DEF Next, Monitor, Service, Process

(* Every step keeps the published trades among those of the robot. *)
LEMMA OfTheRobotSteps ==
    ASSUME IInv, [Next]_vars
    PROVE  OfTheRobot'
<1>. USE DEF robotVars, storeVars, lifeVars, history
<1>1. CASE CheckState \/ Poll
    <2>1. PICK events \in Seq(Events) :
              Publish(events) /\ ToSet(events) \subseteq (snapshot \ monitor.known) \cup Edges
        BY <1>1, MonitorPublishes
    <2>2. event' = event /\ snapshot' = snapshot
        BY <1>1 DEF CheckState, Poll, CheckPositions
    <2>3. ToSet(bus') \subseteq ToSet(bus) \cup ToSet(events)
        <3>1. QueuesOK
            BY DEF IInv, Flow
        <3>2. /\ bus \in Seq(Events) /\ bus' \in Seq(Events)
              /\ \A i \in 1..Len(bus) : bus'[i] = bus[i]
              /\ \A i \in 1..Len(bus') : i > Len(bus) => bus'[i] \in ToSet(events)
            BY <2>1, <3>1, Published DEF QueuesOK
        <3>. QED
            BY <3>2, Elements
    <2>. QED
        BY <2>1, <2>2, <2>3 DEF IInv, OfTheRobot
<1>2. CASE TakeEvent
    <2>1. ToSet(bus) = ToSet(bus') \cup {event'} /\ snapshot' = snapshot
        BY <1>2, Taken DEF TakeEvent, IInv, Flow, QueuesOK
    <2>. QED
        BY <2>1 DEF IInv, OfTheRobot
<1>3. CASE \/ World \/ PositionsFail \/ Handle \/ HandlerFails \/ Service \/ Stop \/ Restarts
           \/ UNCHANGED vars
    <2>1. bus' = bus /\ event' \in {event, Nothing} /\ snapshot \subseteq snapshot'
        BY <1>3 DEF World, RedisChanges, LinkChanges, Toggle, RobotOpens, PositionsFail, Handle,
            HandlerFails, Service, TakeJob, Sent, SendFails, Stop, Restarts, vars
    <2>. QED
        BY <2>1 DEF IInv, OfTheRobot
<1>4. CASE Ends
    BY <1>4 DEF Ends, OfTheRobot, ToSet
<1>. QED
    BY <1>1, <1>2, <1>3, <1>4 DEF Next, Monitor, Bus, Process

(* Every step keeps the pipeline whole. *)
LEMMA FlowSteps ==
    ASSUME IInv, [Next]_vars
    PROVE  Flow'
<1>1. CASE UNCHANGED vars
    BY <1>1 DEF vars, robotVars, storeVars, lifeVars, history, IInv, Flow, QueuesOK, HistoryOK, StillKnown,
        ClaimsKept, NotForgotten, Settled, Waits, Single, OneCopy, InOrder, Last1, Last2, Last3, Last4
<1>. QED
    BY <1>1, WorldKeeps, MonitorKeeps, TakeEventKeeps, HandleKeeps, HandlerFailsKeeps, TakeJobKeeps,
       SendingKeeps, StopKeeps, EndsKeeps, RestartsKeeps DEF Next, Bus, Service, Process

(* The pipeline is whole when the panel starts for the first time. *)
LEMMA InitIInv ==
    ASSUME Init
    PROVE  IInv
<1>1. /\ NoJob \in Jobs /\ NoJob.event = Nothing /\ IsInjective(NoJob.left) /\ ToSet(NoJob.left) = {}
      /\ Nothing \notin Events /\ Nothing \notin Edges
      /\ ToSet(<<>>) = {} /\ DOMAIN <<>> = {} /\ <<>> \in Seq(Events) /\ Len(<<>>) = 0
      /\ BusLimit \in Nat /\ OutboxLimit \in Nat /\ 1 \in 1..MaxLives /\ 1 \in 1..MaxRows
    BY NotificationsAssumption DEF NoJob, Jobs, IsInjective, ToSet, Events, Edges
<1>2. ControlOK
    BY <1>1 DEF Init, ControlOK, FreshMonitor, Defaults
<1>3. QueuesOK /\ HistoryOK
    BY <1>1 DEF Init, QueuesOK, HistoryOK
<1>4. StillKnown /\ ClaimsKept /\ NotForgotten
    BY DEF Init, StillKnown, ClaimsKept, NotForgotten
<1>5. Single
    BY <1>1, SeparateEvents DEF Init, Single, OneCopy
<1>6. InOrder /\ OfTheRobot
    BY <1>1 DEF Init, InOrder, OfTheRobot
<1>. QED
    BY <1>2, <1>3, <1>4, <1>5, <1>6 DEF IInv, Flow

(* The pipeline is whole in every state the program can reach. *)
THEOREM Invariance == Spec => []IInv
<1>1. Init => IInv
    BY InitIInv
<1>2. IInv /\ [Next]_vars => IInv'
    BY ControlSteps, OfTheRobotSteps, FlowSteps DEF IInv
<1>. QED
    BY <1>1, <1>2, PTL DEF Spec

(* The variables keep their types and the queues their limits              *)
(* (event_bus.py, notification_service.py).                                *)
THEOREM TypeCorrect == Spec => []TypeOK
<1>1. IInv => TypeOK
    <2>. SUFFICES ASSUME IInv PROVE TypeOK
        OBVIOUS
    <2>1. job.event = Nothing <=> job.left = <<>>
        BY DEF IInv, Flow, QueuesOK, NoJob
    <2>2. job.attempt \in 1..Attempts
        BY DEF IInv, Flow, QueuesOK, Jobs
    <2>. QED
        BY <2>1, <2>2 DEF TypeOK, IInv, Flow, QueuesOK, ControlOK, Events
<1>. QED
    BY <1>1, Invariance, PTL

(* No chat gets the message of a trade twice unless an attempt was         *)
(* repeated after the message had arrived, or Redis was away when the      *)
(* trade was claimed (notification_service.py).                            *)
THEOREM NoRepeatWithoutCause == Spec => []RepeatHasCause
<1>1. IInv => RepeatHasCause
    <2>. SUFFICES ASSUME IInv, NEW c \in Recipients, NEW t \in Tickets, got[c][t] = 2
                  PROVE  t \in resent
        BY DEF RepeatHasCause
    <2>. QED
        BY DEF IInv, Flow, Single, OneCopy
<1>. QED
    BY <1>1, Invariance, PTL

(* No chat misses the message of an announced trade unless a full queue, a *)
(* failed handler, the last attempt, the setting or the end of the process *)
(* dropped it.                                                             *)
THEOREM NoSilenceWithoutCause == Spec => []SilenceHasCause
<1>1. IInv => SilenceHasCause
    <2>. SUFFICES ASSUME IInv, NEW c \in Recipients, NEW t \in Tickets, announced[t] > 0, got[c][t] = 0
                  PROVE  InTransit(t) \/ t \in dropped
        BY DEF SilenceHasCause
    <2>1. Settled(c, t) \/ t \in ToSet(bus) \/ event = t
        BY DEF IInv, Flow, NotForgotten
    <2>2. got[c][t] \in 0..2
        BY DEF IInv, Flow, HistoryOK
    <2>. QED
        BY <2>1, <2>2 DEF Settled, Waits, InTransit
<1>. QED
    BY <1>1, Invariance, PTL

(* When no message about the link is on its way and the last one was not   *)
(* dropped, every chat was last told what last happened to the link: both  *)
(* queues and the retries keep the order.                                  *)
THEOREM LatestIsTold == Spec => []TellsTheLatest
<1>1. IInv => TellsTheLatest
    <2>. SUFFICES ASSUME IInv, edge # "nothing", edge \notin dropped,
                         ~InTransit("lost"), ~InTransit("restored"), NEW c \in Recipients
                  PROVE  told[c] = edge
        BY DEF TellsTheLatest
    <2>1. edge \in Edges /\ ~InTransit(edge) /\ (Last1 \/ Last2 \/ Last3 \/ Last4)
        BY DEF IInv, Flow, HistoryOK, InOrder, Edges
    <2>2. \A q : Newest(q, edge) => edge \in ToSet(q)
        BY DEF Newest, ToSet
    <2>3. Last4
        BY <2>1, <2>2 DEF InTransit, Last1, Last2, Last3
    <2>. QED
        BY <2>1, <2>3 DEF InTransit, Last4
<1>. QED
    BY <1>1, Invariance, PTL

(* A trade is published at most once in a life of the panel: known tickets *)
(* are never forgotten (heartbeat.py:60-64).                               *)
THEOREM OnceALife == Spec => AnnouncedOnce
<1>1. IInv /\ [Next]_vars =>
          [\A t \in Tickets :
              announced[t] = life =>
                  ~(Len(bus') > Len(bus) /\ t \in ToSet(SubSeq(bus', Len(bus) + 1, Len(bus'))))]_vars
    <2>. SUFFICES ASSUME IInv, Next, NEW t \in Tickets, announced[t] = life, Len(bus') > Len(bus)
                  PROVE  t \notin ToSet(SubSeq(bus', Len(bus) + 1, Len(bus')))
        OBVIOUS
    <2>1. QueuesOK /\ bus \in Seq(Events) /\ Len(bus) \in Nat
        BY DEF IInv, Flow, QueuesOK
    <2>2. CheckState \/ Poll
        <3>1. bus' # bus /\ bus' # <<>>
            BY <2>1
        <3>2. ~TakeEvent
            BY <2>1, Taken DEF TakeEvent
        <3>. QED
            BY <3>1, <3>2 DEF Next, World, RedisChanges, LinkChanges, Toggle, RobotOpens, Monitor,
                PositionsFail, Bus, Handle, HandlerFails, Service, TakeJob, Sent, SendFails, Process, Stop,
                Ends, Restarts
    <2>3. panel = "up" /\ t \in monitor.known
        BY <2>2 DEF CheckState, Poll, CheckPositions, IInv, Flow, StillKnown
    <2>4. PICK events \in Seq(Events) :
              Publish(events) /\ ToSet(events) \subseteq (snapshot \ monitor.known) \cup Edges
        BY <2>2, MonitorPublishes
    <2>5. /\ bus' \in Seq(Events) /\ Len(bus') \in Nat
          /\ \A i \in 1..Len(bus') : i > Len(bus) => bus'[i] \in ToSet(events)
        BY <2>1, <2>4, Published
    <2>6. \A i \in Len(bus) + 1 .. Len(bus') : bus'[i] \in Events \ {t}
        BY <2>1, <2>3, <2>4, <2>5, SeparateEvents
    <2>. DEFINE new == SubSeq(bus', Len(bus) + 1, Len(bus'))
    <2>7. new \in Seq(Events \ {t})
        BY <2>1, <2>5, <2>6, SubSeqProperties
    <2>. HIDE DEF new
    <2>8. ToSet(new) \subseteq Events \ {t}
        BY <2>7, Elements
    <2>. QED
        BY <2>8 DEF new
<1>. QED
    BY <1>1, Invariance, PTL DEF Spec, AnnouncedOnce
=============================================================================

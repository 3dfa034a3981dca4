------------------------- MODULE TradeLedgerProofs --------------------------
(***************************************************************************)
(* Why a stop never moves back and never leaves its place too early, and   *)
(* why only closed positions are recorded as closed, for any number of     *)
(* positions, any prices and any failures.  A start may bring back any     *)
(* part of what was saved, so all that the engine relies on must hold of   *)
(* the copy in Redis as well.  (The copy in the file is overwritten before *)
(* it is read, and only its type matters.)  The engine works with a stop   *)
(* that it read some steps ago; nobody else moves stops in between.        *)
(***************************************************************************)
EXTENDS TradeLedger, TLAPS

Memory == [rows |-> rows, base |-> base]

(* Rows that say closed are right.  *)
RowsRight(copy, closed) == \A r \in copy.rows : r.closed => r.t \in closed

(* A baseline agrees with the row of the order. *)
RowsAgree(copy) ==
    \A r \in copy.rows : r.sl /\ copy.base[r.t] # NoBase => copy.base[r.t].risk = Risk

(* A baseline below the original risk, or one that lets the stop move, is  *)
(* of a position that has seen its first risk unit.                        *)
BasesSafe(copy, top) ==
    \A t \in Tickets : copy.base[t] # NoBase =>
        /\ copy.base[t].risk >= Risk \/ top[t] >= Risk
        /\ copy.base[t].armed => top[t] >= Risk

Good(copy, closed, top) ==
    RowsRight(copy, closed) /\ RowsAgree(copy) /\ BasesSafe(copy, top)

(* Stops are read in one stage of a tick and moved in the next. *)
Stages ==
    /\ DOMAIN seen # {} => pc = "quote"
    /\ DOMAIN asked # {} => pc = "modify"

(* What was read is still so, and what was asked for is not a step back. *)
StopsRead == \A t \in DOMAIN seen : t \in Known /\ seen[t] = pos[t].sl

StopsAsked ==
    \A t \in DOMAIN asked :
        t \in Known /\ asked[t] >= pos[t].sl /\ reached[t] >= Risk

IInv ==
    /\ TypeOK
    /\ Stages /\ StopsRead /\ StopsAsked
    /\ OneRiskFirst
    /\ Good(Memory, Closed, reached)
    /\ Good(redis, Closed, reached)

-----------------------------------------------------------------------------
(* The operators of the trailing stop.                                     *)

Real == [risk : Nat \ {0}, armed : BOOLEAN, high : Nat]

(* A baseline is a real one or the mark for none. *)
LEMMA NoBaseIsNone == Bases = Real \cup {NoBase} /\ NoBase \notin Real
<1>1. NoBase \notin [risk : Nat, armed : BOOLEAN, high : Nat]
    BY LedgerAssumption
<1>2. Real \subseteq [risk : Nat, armed : BOOLEAN, high : Nat]
    BY DEF Real
<1>. QED
    BY <1>1, <1>2 DEF Bases, Real

(* A new baseline has the risk it is made of and is not armed. *)
LEMMA BaselineIsReal ==
    ASSUME NEW risk \in Nat \ {0}
    PROVE  /\ Baseline(risk) \in Real
           /\ Baseline(risk).risk = risk /\ ~Baseline(risk).armed
    BY DEF Baseline, Real

(* A restored baseline is unarmed; it has the original risk while the row  *)
(* of the order is there or the stop has not moved.                        *)
LEMMA RestoredIsBase ==
    ASSUME NEW t \in Tickets, NEW sl \in Int
    PROVE  /\ Restored(t, sl) \in Real \cup {NoBase}
           /\ Restored(t, sl) # NoBase =>
                  /\ ~Restored(t, sl).armed
                  /\ HasEntryRow(t) => Restored(t, sl).risk = Risk
                  /\ sl = 0 - Risk => Restored(t, sl).risk = Risk
<1>1. Risk \in Nat \ {0}
    BY LedgerAssumption
<1>2. CASE HasEntryRow(t)
    BY <1>1, <1>2, BaselineIsReal DEF Restored
<1>3. CASE ~HasEntryRow(t) /\ sl # 0
    <2>1. Distance(sl) \in Nat \ {0} /\ (sl = 0 - Risk => Distance(sl) = Risk)
        BY <1>1, <1>3 DEF Distance
    <2>. QED
        BY <1>3, <2>1, BaselineIsReal DEF Restored
<1>4. CASE ~HasEntryRow(t) /\ sl = 0
    BY <1>4 DEF Restored
<1>. QED
    BY <1>2, <1>3, <1>4

(* Observing a price keeps the risk and arms only where one risk was       *)
(* reached.                                                                *)
LEMMA ObservedIsReal ==
    ASSUME NEW b \in Real, NEW price \in Nat
    PROVE  /\ Observed(b, price) \in Real
           /\ Observed(b, price).risk = b.risk
           /\ Observed(b, price).armed => b.armed \/ price >= b.risk
    BY DEF Observed, Armed, Real

(* A stop is proposed for an armed baseline only. *)
LEMMA CandidateIsStop ==
    ASSUME NEW b \in Real, NEW sl \in Int, NEW distance \in Nat \cup {NoStop}
    PROVE  /\ Candidate(b, sl, distance) \in Int \cup {NoStop}
           /\ Candidate(b, sl, distance) # NoStop => b.armed
    BY LedgerAssumption DEF Candidate, Real

(* A stop that is applied is one, and not behind the present one. *)
LEMMA AppliedIsForward ==
    ASSUME NEW sl \in Int, NEW stop \in Int \cup {NoStop}, ShouldApply(sl, stop)
    PROVE  stop \in Int /\ stop >= sl
<1>1. stop \in Int
    BY DEF ShouldApply
<1>2. MinStep \in Nat
    BY LedgerAssumption
<1>. QED
    BY <1>1, <1>2 DEF ShouldApply

-----------------------------------------------------------------------------
(* What the larger steps do, one position at a time.                       *)

(* An answer of the bridge that lists nothing. *)
LEMMA NothingListed == DOMAIN << >> = {}
    OBVIOUS

(* Baseline b is what the engine starts from when it looks at t. *)
Starts(b, t) ==
    \/ b = base[t]
    \/ base[t] = NoBase /\ b = Restored(t, seen[t])

(* What the engine decides at a quote, one position at a time: which       *)
(* baselines it keeps, makes or drops, and what it asks for.               *)
LEMMA Decided ==
    ASSUME TypeOK, NEW price \in Quotes, NEW distance \in Ranges,
           Decide(price, distance)
    PROVE  /\ base' \in [Tickets -> Bases]
           /\ \A t \in Tickets :
                  \/ base'[t] = base[t]
                  \/ /\ t \in DOMAIN seen
                     /\ \E b \in Real : Starts(b, t) /\ base'[t] = Observed(b, price[t])
           /\ DOMAIN asked' \subseteq DOMAIN seen
           /\ \A t \in DOMAIN asked' :
                  /\ asked'[t] \in Int /\ asked'[t] >= seen[t]
                  /\ base'[t] # NoBase /\ base'[t].armed
                  /\ \E b \in Real : Starts(b, t) /\ base'[t] = Observed(b, price[t])
           /\ DOMAIN asked' # {} => pc' = "modify"
           /\ pc' \in {AfterTrail, "modify"} /\ DOMAIN seen' = {}
           /\ reached' \in [Tickets -> Nat]
           /\ \A t \in Tickets : reached'[t] >= reached[t]
           /\ \A t \in DOMAIN seen : reached'[t] >= price[t]
<1>. DEFINE before == [t \in DOMAIN seen |->
                          IF base[t] = NoBase THEN Restored(t, seen[t]) ELSE base[t]]
            held == {t \in DOMAIN seen : before[t] # NoBase}
            after == [t \in held |-> Observed(before[t], price[t])]
            stop == [t \in held |-> Candidate(after[t], seen[t], distance[t])]
            moved == {t \in held : ShouldApply(seen[t], stop[t])}
<1>1. /\ base' = [t \in Tickets |-> IF t \in held THEN after[t] ELSE base[t]]
      /\ reached' = [t \in Tickets |-> IF t \in DOMAIN seen /\ price[t] > reached[t]
                                       THEN price[t] ELSE reached[t]]
      /\ asked' = [t \in moved |-> stop[t]]
      /\ pc' = IF moved = {} THEN AfterTrail ELSE "modify"
      /\ seen' = << >>
    BY DEF Decide
<1>2. /\ DOMAIN seen \subseteq Tickets
      /\ \A t \in DOMAIN seen :
             seen[t] \in Int /\ price[t] \in Nat /\ distance[t] \in Nat \cup {NoStop}
    BY LedgerAssumption DEF TypeOK, Quotes, Ranges
<1>3. reached \in [Tickets -> Nat] /\ base \in [Tickets -> Bases]
    BY DEF TypeOK
<1>4. \A t \in held : before[t] \in Real /\ Starts(before[t], t)
    BY <1>2, <1>3, RestoredIsBase, NoBaseIsNone DEF Starts
<1>5. \A t \in held : after[t] \in Real /\ after[t] = Observed(before[t], price[t])
    BY <1>2, <1>4, ObservedIsReal
<1>6. \A t \in held : stop[t] \in Int \cup {NoStop} /\ (stop[t] # NoStop => after[t].armed)
    BY <1>2, <1>5, CandidateIsStop
<1>7. \A t \in moved : stop[t] \in Int /\ stop[t] >= seen[t] /\ after[t].armed
    <2>. SUFFICES ASSUME NEW t \in moved
                  PROVE  stop[t] \in Int /\ stop[t] >= seen[t] /\ after[t].armed
        OBVIOUS
    <2>1. t \in held /\ ShouldApply(seen[t], stop[t]) /\ seen[t] \in Int
        BY <1>2
    <2>2. stop[t] \in Int /\ stop[t] >= seen[t]
        BY <1>6, <2>1, AppliedIsForward
    <2>. QED
        BY <1>6, <2>1, <2>2, LedgerAssumption
<1>8. moved \subseteq held /\ held \subseteq DOMAIN seen
    OBVIOUS
<1>. HIDE DEF before, held, after, stop, moved
<1>9. base' \in [Tickets -> Bases]
    BY <1>1, <1>3, <1>5, NoBaseIsNone
<1>10. \A t \in held : base'[t] = after[t]
    BY <1>1, <1>2, <1>8
<1>11. \A t \in Tickets :
           \/ base'[t] = base[t]
           \/ /\ t \in DOMAIN seen
              /\ \E b \in Real : Starts(b, t) /\ base'[t] = Observed(b, price[t])
    BY <1>1, <1>4, <1>5, <1>8, <1>10
<1>12. DOMAIN asked' = moved /\ \A t \in moved : asked'[t] = stop[t]
    BY <1>1
<1>13. \A t \in moved : /\ asked'[t] \in Int /\ asked'[t] >= seen[t]
                        /\ base'[t] # NoBase /\ base'[t].armed
                        /\ \E b \in Real : Starts(b, t) /\ base'[t] = Observed(b, price[t])
    BY <1>4, <1>5, <1>7, <1>8, <1>10, <1>12, NoBaseIsNone
<1>14. /\ reached' \in [Tickets -> Nat]
       /\ \A t \in Tickets : reached'[t] >= reached[t]
       /\ \A t \in DOMAIN seen : reached'[t] >= price[t]
    BY <1>1, <1>2, <1>3
<1>. QED
    BY <1>1, <1>8, <1>9, <1>11, <1>12, <1>13, <1>14, NothingListed

(* A record that is written has one of its own, or none. *)
LEMMA SavedCopy ==
    ASSUME Save
    PROVE  file' = Memory' /\ redis' \in {redis, Memory'}
    BY DEF Save, Memory

(* A history that is cut to its length gains the new row at most. *)
LEMMA Logged ==
    ASSUME NEW r, Log(r)
    PROVE  rows' \subseteq rows \cup {r}
    BY DEF Log

(* An answer ends one request. *)
LEMMA AnsweredOne ==
    ASSUME TypeOK, Stages, NEW t \in DOMAIN asked, Answered(t)
    PROVE  /\ DOMAIN asked' = DOMAIN asked \ {t}
           /\ \A u \in DOMAIN asked' : asked'[u] = asked[u]
           /\ pc' \in {AfterTrail, "modify"}
           /\ DOMAIN seen' = {} /\ (DOMAIN asked' # {} => pc' = "modify")
<1>1. DOMAIN seen = {} /\ seen' = seen
    BY DEF Stages, Answered
<1>. QED
    BY <1>1 DEF Answered

(* Reconciling marks rows of closed positions. *)
LEMMA Reconciled ==
    ASSUME TypeOK, NEW shown \in Snapshots, NEW told \in SUBSET Candidates(shown),
           Reconcile(shown, told)
    PROVE  \A r \in rows' : r \in rows \/
               \E x \in rows : x.t \in Closed /\ r = [x EXCEPT !.closed = TRUE]
<1>1. PICK row \in [told -> rows] :
          /\ \A t \in told : row[t] \in Pending(t)
          /\ rows' = (rows \ {row[t] : t \in told})
                        \cup {[row[t] EXCEPT !.closed = TRUE] : t \in told}
    BY DEF Reconcile, WithClose
<1>2. told \subseteq Tickets
    BY DEF Candidates
<1>3. \A t \in told : t \in Closed /\ row[t] \in rows /\ row[t].t = t
    BY <1>1, <1>2 DEF Reconcile, HasCloseHistory, Closed, Pending
<1>. QED
    BY <1>1, <1>3

(* The sync adds rows without a stop, and keeps the stop of the others. *)
LEMMA Synced ==
    ASSUME TypeOK, NEW listed \in SUBSET Known, NEW told \in SUBSET Closed,
           Sync(listed, told)
    PROVE  \A r \in rows' :
               \/ r \in rows
               \/ \E x \in rows : r = Row(x.t, x.sl, TRUE, x.closed \/ x.t \in told)
               \/ \E t \in Tickets : r = Row(t, FALSE, TRUE, t \in told)
<1>. DEFINE known == {t \in listed : \E r \in rows : r.t = t}
            fresh == {Row(t, FALSE, TRUE, t \in told) : t \in listed \ known}
<1>1. PICK last \in [known -> rows] :
          /\ \A t \in known : last[t].t = t
          /\ LET updated == {Row(t, last[t].sl, TRUE, last[t].closed \/ t \in told) :
                                t \in known}
                 merged == (rows \ {last[t] : t \in known}) \cup updated \cup fresh
             IN  rows' \in {merged} \cup
                     (IF world.full THEN {merged \ {x} : x \in merged} ELSE {})
    BY DEF Sync, Record
<1>2. rows' \subseteq rows \cup fresh
          \cup {Row(t, last[t].sl, TRUE, last[t].closed \/ t \in told) : t \in known}
    BY <1>1
<1>3. \A t \in known : last[t] \in rows /\ last[t].t = t
    BY <1>1
<1>4. listed \subseteq Tickets
    BY DEF Known
<1>5. \A t \in known : Row(t, last[t].sl, TRUE, last[t].closed \/ t \in told)
          = Row(last[t].t, last[t].sl, TRUE, last[t].closed \/ last[t].t \in told)
    BY <1>3
<1>. SUFFICES ASSUME NEW r \in rows', r \notin rows
              PROVE  \/ \E x \in rows : r = Row(x.t, x.sl, TRUE, x.closed \/ x.t \in told)
                     \/ \E t \in Tickets : r = Row(t, FALSE, TRUE, t \in told)
    OBVIOUS
<1>6. CASE r \in fresh
    BY <1>4, <1>6
<1>7. CASE \E t \in known : r = Row(t, last[t].sl, TRUE, last[t].closed \/ t \in told)
    <2>1. PICK t \in known : r = Row(t, last[t].sl, TRUE, last[t].closed \/ t \in told)
        BY <1>7
    <2>2. last[t] \in rows
          /\ r = Row(last[t].t, last[t].sl, TRUE, last[t].closed \/ last[t].t \in told)
        BY <1>3, <1>5, <2>1
    <2>. QED
        BY <2>2
<1>. QED
    BY <1>2, <1>6, <1>7

-----------------------------------------------------------------------------
(* Types.                                                                  *)

MemoryOK == rows \subseteq Rows /\ base \in [Tickets -> Bases]
StoresOK == file \in Copies /\ redis \in Copies

(* The state that a start writes first. *)
LEMMA EmptyIsCopy == Empty \in Copies /\ Empty.rows = {} /\ Empty.base \in [Tickets -> Bases]
    BY DEF Empty, Copies, Bases

(* A row has the fields it is built of. *)
LEMMA RowIsRow ==
    ASSUME NEW t \in Tickets, NEW sl \in BOOLEAN, NEW entry \in BOOLEAN,
           NEW closed \in BOOLEAN
    PROVE  /\ Row(t, sl, entry, closed) \in Rows
           /\ Row(t, sl, entry, closed).t = t
           /\ Row(t, sl, entry, closed).sl = sl
           /\ Row(t, sl, entry, closed).closed = closed
    BY DEF Row, Rows

(* A save writes what memory has. *)
LEMMA SaveTyped ==
    ASSUME TypeOK, MemoryOK', Save
    PROVE  StoresOK'
<1>1. Memory' \in Copies
    BY DEF Memory, MemoryOK, Copies
<1>. QED
    BY <1>1, SavedCopy DEF StoresOK, TypeOK

(* The variables that are not stored. *)
ControlOK ==
    /\ world \in Worlds
    /\ pos \in [Tickets -> [at : {"none", "open", "closed"}, sl : Int]]
    /\ reached \in [Tickets -> Nat]
    /\ pc \in {"off", "sync", "running", "commands", "trail", "quote", "modify",
               "reconcile", "bars"}
    /\ starting \in BOOLEAN
    /\ DOMAIN seen \subseteq Tickets /\ \A t \in DOMAIN seen : seen[t] \in Int
    /\ DOMAIN asked \subseteq Tickets /\ \A t \in DOMAIN asked : asked[t] \in Int

(* Types, split into stages, memory and stores. *)
LEMMA TypeParts == TypeOK <=> ControlOK /\ MemoryOK /\ StoresOK
    BY DEF TypeOK, ControlOK, MemoryOK, StoresOK

(* Where a stage goes next. *)
LEMMA StageTyped ==
    AfterTrail \in {"running", "reconcile"} /\ AfterSync \in {"trail", "bars"}
    BY DEF AfterTrail, AfterSync

(* Every step keeps the types of stages, positions and requests. *)
LEMMA ControlTyped ==
    ASSUME TypeOK, Stages, Next
    PROVE  ControlOK'
<1>. USE DEF ControlOK, TypeOK
<1>1. CASE Start \/ BeginLoop \/ SkipTrail \/ SkipSync \/ Proceed \/ NoEntry \/ Idle
    BY <1>1, StageTyped DEF Start, BeginLoop, SkipTrail, SkipSync, Proceed, NoEntry,
        EndTick, Idle, engineVars
<1>2. CASE NoQuote
    BY <1>2, StageTyped, NothingListed DEF NoQuote
<1>3. ASSUME NEW shown \in Snapshots, ReadPositions(shown)
      PROVE  ControlOK'
    <2>1. shown \subseteq Tickets
        BY <1>3 DEF Snapshots, Known, Open
    <2>. QED
        BY <1>3, <2>1, StageTyped DEF ReadPositions
<1>4. ASSUME NEW price \in Quotes, NEW distance \in Ranges, Decide(price, distance)
      PROVE  ControlOK'
    <2>1. UNCHANGED <<world, pos, starting>>
        BY <1>4 DEF Decide
    <2>. QED
        BY <1>4, <2>1, Decided, StageTyped
<1>5. ASSUME NEW t \in Tickets, Modified(t) \/ NotModified(t)
      PROVE  ControlOK'
    <2>1. t \in DOMAIN asked /\ Answered(t)
        BY <1>5 DEF Modified, NotModified
    <2>2. pos' = pos \/ pos' = [pos EXCEPT ![t].sl = asked[t]]
        BY <1>5 DEF Modified, NotModified
    <2>3. pos' \in [Tickets -> [at : {"none", "open", "closed"}, sl : Int]]
        BY <2>1, <2>2
    <2>4. UNCHANGED <<world, reached, starting, seen>>
        BY <2>1 DEF Answered
    <2>. QED
        BY <2>1, <2>3, <2>4, AnsweredOne, StageTyped
<1>6. ASSUME NEW shown \in Snapshots, NEW told \in SUBSET Candidates(shown),
             Reconcile(shown, told)
      PROVE  ControlOK'
    BY <1>6 DEF Reconcile
<1>7. ASSUME NEW listed, NEW told, Sync(listed, told)
      PROVE  ControlOK'
    BY <1>7, StageTyped DEF Sync
<1>8. ASSUME NEW t \in Tickets, Enter(t)
      PROVE  ControlOK'
    <2>1. pos' \in [Tickets -> [at : {"none", "open", "closed"}, sl : Int]]
        BY <1>8, LedgerAssumption DEF Enter
    <2>. QED
        BY <1>8, <2>1 DEF Enter, EndTick
<1>9. ASSUME NEW t \in Tickets, CloseByCommand(t) \/ Close(t)
      PROVE  ControlOK'
    <2>1. pos' = [pos EXCEPT ![t].at = "closed"]
        BY <1>9 DEF CloseByCommand, Close
    <2>2. pos' \in [Tickets -> [at : {"none", "open", "closed"}, sl : Int]]
        BY <2>1
    <2>3. UNCHANGED <<world, reached, pc, starting, seen, asked>>
        BY <1>9 DEF CloseByCommand, Close, engineVars
    <2>. QED
        BY <2>2, <2>3
<1>10. CASE Stop
    BY <1>10, NothingListed DEF Stop
<1>. QED
    BY <1>1, <1>2, <1>3, <1>4, <1>5, <1>6, <1>7, <1>8, <1>9, <1>10 DEF Next, Engine

-----------------------------------------------------------------------------
(* Stops.                                                                  *)

(* Positions open once and close once, and quotes are not forgotten. *)
Forward ==
    /\ Known \subseteq Known' /\ Closed \subseteq Closed'
    /\ \A t \in Tickets : reached'[t] >= reached[t]

StopsOK == Stages /\ StopsRead /\ StopsAsked /\ OneRiskFirst

(* A stage that neither reads nor moves stops. *)
LEMMA OtherStage ==
    ASSUME TypeOK, StopsOK, UNCHANGED <<pos, reached, seen, asked>>,
           pc' = pc \/ pc \notin {"quote", "modify"}
    PROVE  StopsOK' /\ Forward
<1>1. Known' = Known /\ Closed' = Closed
    BY DEF Known, Closed
<1>2. Forward
    BY <1>1 DEF Forward, TypeOK
<1>. QED
    BY <1>1, <1>2 DEF StopsOK, Stages, StopsRead, StopsAsked, OneRiskFirst

(* Every step keeps what was read and asked of the stops true, and moves   *)
(* only forward.                                                           *)
LEMMA StopsStep ==
    ASSUME TypeOK, StopsOK, BasesSafe(Memory, reached), Next
    PROVE  StopsOK' /\ Forward
<1>. USE DEF Forward
<1>1. CASE Start \/ BeginLoop \/ SkipTrail \/ SkipSync \/ Proceed \/ NoEntry \/ Idle
    <2>1. UNCHANGED <<pos, reached, seen, asked>>
          /\ (pc' = pc \/ pc \notin {"quote", "modify"})
        BY <1>1 DEF Start, BeginLoop, SkipTrail, SkipSync, Proceed, NoEntry,
            EndTick, Idle, engineVars
    <2>. QED
        BY <2>1, OtherStage
<1>2. ASSUME NEW shown, NEW told, Reconcile(shown, told) \/ Sync(shown, told)
      PROVE  StopsOK' /\ Forward
    <2>1. UNCHANGED <<pos, reached, seen, asked>> /\ pc \notin {"quote", "modify"}
        BY <1>2 DEF Reconcile, Sync
    <2>. QED
        BY <2>1, OtherStage
<1>3. CASE NoQuote \/ Stop
    <2>1. /\ pos' = pos /\ reached' = reached /\ DOMAIN seen' = {}
          /\ DOMAIN asked' = {}
        BY <1>3, NothingListed DEF NoQuote, Stop, StopsOK, Stages
    <2>. QED
        BY <2>1 DEF StopsOK, Stages, StopsRead, StopsAsked, OneRiskFirst, Known,
            Closed, TypeOK
<1>4. ASSUME NEW shown \in Snapshots, ReadPositions(shown)
      PROVE  StopsOK' /\ Forward
    <2>1. shown \subseteq Known
        BY DEF Snapshots, Known, Open
    <2>2. DOMAIN asked = {}
        BY <1>4 DEF ReadPositions, StopsOK, Stages
    <2>. QED
        BY <1>4, <2>1, <2>2 DEF ReadPositions, StopsOK, Stages, StopsRead, StopsAsked,
            OneRiskFirst, Known, Closed, TypeOK
<1>5. ASSUME NEW price \in Quotes, NEW distance \in Ranges, Decide(price, distance)
      PROVE  StopsOK' /\ Forward
    <2>1. pos' = pos /\ Known' = Known /\ Closed' = Closed
        BY <1>5 DEF Decide, Known, Closed
    <2>2. /\ DOMAIN asked' \subseteq DOMAIN seen /\ DOMAIN seen' = {}
          /\ DOMAIN asked' # {} => pc' = "modify"
          /\ \A t \in Tickets : reached[t] \in Nat /\ reached'[t] \in Nat
                                /\ reached'[t] >= reached[t]
          /\ \A t \in DOMAIN seen : t \in Tickets /\ price[t] \in Nat
                                    /\ reached'[t] >= price[t]
        BY <1>5, Decided, LedgerAssumption DEF TypeOK, Quotes
    <2>3. ASSUME NEW t \in DOMAIN asked'
          PROVE  t \in Known /\ asked'[t] >= pos[t].sl /\ reached'[t] >= Risk
        <3>1. t \in Tickets /\ t \in Known /\ seen[t] = pos[t].sl /\ seen[t] \in Int
            BY <2>2 DEF StopsOK, StopsRead, TypeOK
        <3>2. asked'[t] >= seen[t] /\ base'[t].armed
            BY <1>5, Decided
        <3>3. PICK b \in Real : Starts(b, t) /\ base'[t] = Observed(b, price[t])
            BY <1>5, Decided
        <3>4. b.armed \/ price[t] >= b.risk
            BY <2>2, <3>2, <3>3, ObservedIsReal
        <3>5. b.risk \in Nat /\ Risk \in Nat
            BY LedgerAssumption DEF Real
        <3>6. CASE b = base[t]
            <4>1. /\ b.risk >= Risk \/ reached[t] >= Risk
                  /\ b.armed => reached[t] >= Risk
                BY <3>1, <3>6, NoBaseIsNone DEF BasesSafe, Memory
            <4>. QED
                BY <2>2, <3>1, <3>2, <3>4, <3>5, <4>1
        <3>7. CASE b = Restored(t, seen[t])
            <4>1. ~b.armed /\ (seen[t] = 0 - Risk => b.risk = Risk)
                BY <3>1, <3>7, RestoredIsBase, NoBaseIsNone
            <4>2. seen[t] # 0 - Risk => reached[t] >= Risk
                BY <3>1 DEF StopsOK, OneRiskFirst
            <4>. QED
                BY <2>2, <3>1, <3>2, <3>4, <3>5, <4>1, <4>2
        <3>. QED
            BY <3>3, <3>6, <3>7 DEF Starts
    <2>4. OneRiskFirst'
        BY <2>1, <2>2, LedgerAssumption DEF StopsOK, OneRiskFirst, Known
    <2>. QED
        BY <2>1, <2>2, <2>3, <2>4 DEF StopsOK, Stages, StopsRead, StopsAsked
<1>6. ASSUME NEW t \in Tickets, Modified(t) \/ NotModified(t)
      PROVE  StopsOK' /\ Forward
    <2>1. t \in DOMAIN asked /\ Answered(t) /\ reached' = reached
        BY <1>6 DEF Modified, NotModified, Answered
    <2>2. /\ DOMAIN asked' = DOMAIN asked \ {t}
          /\ \A u \in DOMAIN asked' : asked'[u] = asked[u]
          /\ DOMAIN seen' = {} /\ (DOMAIN asked' # {} => pc' = "modify")
        BY <2>1, AnsweredOne DEF StopsOK
    <2>3. t \in Known /\ asked[t] >= pos[t].sl /\ reached[t] >= Risk
        BY <2>1 DEF StopsOK, StopsAsked
    <2>4. pos' = pos \/ pos' = [pos EXCEPT ![t].sl = asked[t]]
        BY <1>6 DEF Modified, NotModified
    <2>5. Known' = Known /\ Closed' = Closed
        BY <2>4 DEF Known, Closed, TypeOK
    <2>6. \A u \in Tickets : u # t => pos'[u] = pos[u]
        BY <2>4 DEF TypeOK
    <2>7. OneRiskFirst'
        BY <2>1, <2>3, <2>5, <2>6 DEF StopsOK, OneRiskFirst, Known
    <2>8. StopsAsked'
        <3>1. \A u \in DOMAIN asked' : u \in DOMAIN asked /\ u \in Tickets /\ u # t
            BY <2>2 DEF TypeOK
        <3>. QED
            BY <2>1, <2>2, <2>5, <2>6, <3>1 DEF StopsOK, StopsAsked
    <2>9. Stages' /\ StopsRead'
        BY <2>2 DEF Stages, StopsRead
    <2>10. \A u \in Tickets : reached'[u] >= reached[u]
        BY <2>1 DEF TypeOK
    <2>. QED
        BY <2>5, <2>7, <2>8, <2>9, <2>10 DEF StopsOK
<1>7. ASSUME NEW t \in Tickets, Enter(t)
      PROVE  StopsOK' /\ Forward
    <2>1. /\ DOMAIN seen = {} /\ DOMAIN asked = {} /\ seen' = seen /\ asked' = asked
          /\ reached' = reached
        BY <1>7 DEF Enter, EndTick, StopsOK, Stages
    <2>2. /\ pos[t].at = "none" /\ pos'[t] = [at |-> "open", sl |-> 0 - Risk]
          /\ \A u \in Tickets : u # t => pos'[u] = pos[u]
        BY <1>7 DEF Enter, TypeOK
    <2>3. Known' = Known \cup {t} /\ Closed' = Closed /\ t \notin Known
        BY <2>2 DEF Known, Closed
    <2>4. OneRiskFirst'
        <3>. SUFFICES ASSUME NEW u \in Known', pos'[u].sl # 0 - Risk
                      PROVE  reached'[u] >= Risk
            BY DEF OneRiskFirst
        <3>1. u # t
            BY <2>2
        <3>2. u \in Known /\ pos'[u] = pos[u]
            BY <2>2, <2>3, <3>1 DEF Known
        <3>. QED
            BY <2>1, <3>2 DEF StopsOK, OneRiskFirst
    <2>5. Stages' /\ StopsRead' /\ StopsAsked'
        BY <2>1 DEF Stages, StopsRead, StopsAsked
    <2>6. \A u \in Tickets : reached'[u] >= reached[u]
        BY <2>1 DEF TypeOK
    <2>. QED
        BY <2>3, <2>4, <2>5, <2>6 DEF StopsOK
<1>8. ASSUME NEW t \in Tickets, CloseByCommand(t) \/ Close(t)
      PROVE  StopsOK' /\ Forward
    <2>1. UNCHANGED <<pc, seen, asked, reached>>
        BY <1>8 DEF CloseByCommand, Close, engineVars
    <2>2. pos[t].at = "open" /\ pos' = [pos EXCEPT ![t].at = "closed"]
        BY <1>8 DEF CloseByCommand, Close, Open
    <2>3. \A u \in Tickets : pos'[u].sl = pos[u].sl
        BY <2>2 DEF TypeOK
    <2>4. Known' = Known /\ Closed \subseteq Closed'
        BY <2>2 DEF Known, Closed, TypeOK
    <2>5. Known \subseteq Tickets
        BY DEF Known
    <2>. QED
        BY <2>1, <2>3, <2>4, <2>5 DEF StopsOK, Stages, StopsRead, StopsAsked,
            OneRiskFirst, TypeOK
<1>. QED
    BY <1>1, <1>2, <1>3, <1>4, <1>5, <1>6, <1>7, <1>8 DEF Next, Engine

-----------------------------------------------------------------------------
(* Rows and baselines.                                                     *)

(* What holds of a copy goes on to hold. *)
LEMMA GoodLater ==
    ASSUME NEW copy \in Copies, TypeOK, ControlOK', Forward, Good(copy, Closed, reached)
    PROVE  Good(copy, Closed', reached')
<1>1. RowsRight(copy, Closed')
    BY DEF Good, RowsRight, Forward
<1>2. BasesSafe(copy, reached')
    <2>1. \A t \in Tickets : reached[t] \in Nat /\ reached'[t] \in Nat
        BY DEF TypeOK, ControlOK
    <2>. QED
        BY <2>1, LedgerAssumption DEF Good, BasesSafe, Forward
<1>. QED
    BY <1>1, <1>2 DEF Good

(* A copy without rows and baselines claims nothing. *)
LEMMA EmptyIsGood ==
    ASSUME NEW copy, NEW closed, NEW top, copy.rows = {}, copy.base = Empty.base
    PROVE  Good(copy, closed, top)
    BY DEF Good, RowsRight, RowsAgree, BasesSafe, Empty

(* Steps that take rows and baselines away, mark rows of closed positions, *)
(* or add rows without a stop.                                             *)
RowsAsBefore ==
    /\ base' \in [Tickets -> Bases]
    /\ \A t \in Tickets : base'[t] \in {base[t], NoBase}
    /\ \A r \in rows' :
           /\ r \in Rows
           /\ r.closed => r.t \in Closed'
           /\ r.sl => \E x \in rows : x.t = r.t /\ x.sl

(* Such steps keep what memory claims right. *)
LEMMA RowsStayGood ==
    ASSUME TypeOK, ControlOK', Forward, Good(Memory, Closed, reached), RowsAsBefore
    PROVE  MemoryOK' /\ Good(Memory', Closed', reached')
<1>1. MemoryOK'
    BY DEF MemoryOK, RowsAsBefore
<1>2. Memory \in Copies
    BY DEF Memory, Copies, TypeOK
<1>3. BasesSafe(Memory, reached')
    BY <1>2, GoodLater DEF Good
<1>4. BasesSafe(Memory', reached')
    BY <1>3 DEF BasesSafe, Memory, RowsAsBefore
<1>5. RowsRight(Memory', Closed')
    BY DEF RowsRight, Memory, RowsAsBefore
<1>6. RowsAgree(Memory')
    <2>1. \A r \in rows : r.sl /\ base[r.t] # NoBase => base[r.t].risk = Risk
        BY DEF Good, RowsAgree, Memory
    <2>2. \A r \in rows' : r.t \in Tickets
        BY DEF RowsAsBefore, Rows
    <2>3. \A r \in rows' : r.sl /\ base'[r.t] # NoBase => base'[r.t].risk = Risk
        BY <2>1, <2>2 DEF RowsAsBefore
    <2>. QED
        BY <2>3 DEF RowsAgree, Memory
<1>. QED
    BY <1>1, <1>4, <1>5, <1>6 DEF Good

(* An audit row, or none. *)
LEMMA AuditAsBefore ==
    ASSUME TypeOK, Forward, Good(Memory, Closed, reached), base' = base,
           NEW t \in Tickets, Log(AuditRow(t)) \/ rows' = rows
    PROVE  RowsAsBefore
<1>1. AuditRow(t) \in Rows /\ ~AuditRow(t).sl /\ ~AuditRow(t).closed
    BY RowIsRow DEF AuditRow
<1>2. rows' \subseteq rows \cup {AuditRow(t)}
    BY Logged
<1>3. \A r \in rows : r \in Rows /\ (r.closed => r.t \in Closed')
    BY DEF TypeOK, Good, RowsRight, Memory, Forward
<1>4. base' \in [Tickets -> Bases]
    BY DEF TypeOK
<1>. QED
    BY <1>1, <1>2, <1>3, <1>4 DEF RowsAsBefore

(* A step that leaves the rows alone and only drops baselines is one of    *)
(* them.                                                                   *)
LEMMA SameAsBefore ==
    ASSUME TypeOK, Forward, Good(Memory, Closed, reached), rows' = rows,
           base' \in [Tickets -> Bases],
           \A t \in Tickets : base'[t] \in {base[t], NoBase}
    PROVE  RowsAsBefore
<1>1. \A r \in rows : r \in Rows /\ (r.closed => r.t \in Closed')
    BY DEF TypeOK, Good, RowsRight, Memory, Forward
<1>. QED
    BY <1>1 DEF RowsAsBefore

MemoryGood == MemoryOK /\ Good(Memory, Closed, reached)

(* A start keeps it: what it reads back was right. *)
LEMMA StartsGood ==
    ASSUME IInv, ControlOK', Forward, Start
    PROVE  MemoryGood' /\ redis' \in Copies /\ Good(redis', Closed', reached')
<1>1. redis' \in {Empty, redis} /\ file' = Empty
    BY DEF Start
<1>2. redis' \in Copies
    BY <1>1, EmptyIsCopy DEF IInv, TypeOK
<1>3. Good(redis', Closed', reached')
    <2>1. redis \in Copies /\ Good(redis, Closed', reached')
        BY GoodLater DEF IInv, TypeOK
    <2>. QED
        BY <1>1, <2>1, EmptyIsCopy, EmptyIsGood
<1>4. rows' \subseteq redis'.rows /\ base' \in {redis'.base, Empty.base}
    BY <1>1 DEF Start, OneEach
<1>5. MemoryOK'
    BY <1>2, <1>4, EmptyIsCopy DEF MemoryOK, Copies
<1>6. RowsRight(Memory', Closed')
    BY <1>3, <1>4 DEF Good, RowsRight, Memory
<1>7. RowsAgree(Memory') /\ BasesSafe(Memory', reached')
    <2>1. CASE base' = redis'.base
        BY <1>3, <1>4, <2>1 DEF Good, RowsAgree, BasesSafe, Memory
    <2>2. CASE base' = Empty.base
        <3>1. \A t \in Tickets : base'[t] = NoBase
            BY <2>2 DEF Empty
        <3>2. \A r \in rows' : r.t \in Tickets
            BY <1>5 DEF MemoryOK, Rows
        <3>. QED
            BY <3>1, <3>2 DEF RowsAgree, BasesSafe, Memory
    <2>. QED
        BY <1>4, <2>1, <2>2
<1>. QED
    BY <1>2, <1>3, <1>5, <1>6, <1>7 DEF MemoryGood, Good

(* Baselines made or armed at a quote are right. *)
LEMMA DecidesGood ==
    ASSUME IInv, ControlOK', Forward,
           NEW price \in Quotes, NEW distance \in Ranges, Decide(price, distance)
    PROVE  MemoryGood'
<1>. USE DEF IInv
<1>1. base' \in [Tickets -> Bases] /\ rows' = rows
    BY Decided DEF Decide
<1>2. Good(Memory, Closed', reached')
    <2>1. Memory \in Copies
        BY DEF Memory, Copies, TypeOK
    <2>. QED
        BY <2>1, GoodLater
<1>3. ASSUME NEW t \in Tickets, base'[t] # NoBase
      PROVE  /\ base'[t].risk >= Risk \/ reached'[t] >= Risk
             /\ base'[t].armed => reached'[t] >= Risk
             /\ HasEntryRow(t) => base'[t].risk = Risk
    <2>0. HasEntryRow(t) /\ base[t] # NoBase => base[t].risk = Risk
        BY DEF HasEntryRow, Good, RowsAgree, Memory
    <2>1. CASE base'[t] = base[t]
        BY <1>2, <1>3, <2>0, <2>1 DEF Good, BasesSafe, Memory
    <2>2. CASE base'[t] # base[t]
        <3>1. t \in DOMAIN seen
            BY <2>2, Decided
        <3>2. PICK b \in Real : Starts(b, t) /\ base'[t] = Observed(b, price[t])
            BY <2>2, Decided
        <3>3. /\ seen[t] \in Int /\ price[t] \in Nat /\ reached'[t] >= price[t]
              /\ reached'[t] \in Nat /\ reached[t] \in Nat /\ reached'[t] >= reached[t]
            BY <3>1, Decided, LedgerAssumption DEF TypeOK, Quotes
        <3>4. base'[t].risk = b.risk /\ (base'[t].armed => b.armed \/ price[t] >= b.risk)
            <4>1. price[t] \in Nat
                BY <3>3
            <4>2. /\ Observed(b, price[t]).risk = b.risk
                  /\ Observed(b, price[t]).armed => b.armed \/ price[t] >= b.risk
                BY <4>1, ObservedIsReal
            <4>. QED
                BY <3>2, <4>2
        <3>5. b.risk \in Nat /\ Risk \in Nat
            BY LedgerAssumption DEF Real
        <3>6. CASE b = base[t]
            <4>1. /\ b.risk >= Risk \/ reached'[t] >= Risk
                  /\ b.armed => reached'[t] >= Risk
                BY <1>2, <3>6, NoBaseIsNone DEF Good, BasesSafe, Memory
            <4>2. HasEntryRow(t) => b.risk = Risk
                BY <2>0, <3>6, NoBaseIsNone
            <4>. QED
                BY <3>3, <3>4, <3>5, <4>1, <4>2
        <3>7. CASE b = Restored(t, seen[t])
            <4>1. /\ ~b.armed
                  /\ seen[t] = 0 - Risk => b.risk = Risk
                  /\ HasEntryRow(t) => b.risk = Risk
                BY <3>3, <3>7, RestoredIsBase, NoBaseIsNone
            <4>2. seen[t] # 0 - Risk => reached[t] >= Risk
                BY <3>1 DEF StopsRead, OneRiskFirst
            <4>. QED
                BY <3>3, <3>4, <3>5, <4>1, <4>2
        <3>. QED
            BY <3>2, <3>6, <3>7 DEF Starts
    <2>. QED
        BY <2>1, <2>2
<1>4. RowsRight(Memory', Closed')
    BY <1>1, <1>2 DEF Good, RowsRight, Memory
<1>5. RowsAgree(Memory')
    <2>1. \A r \in rows : r.t \in Tickets /\ (r.sl => HasEntryRow(r.t))
        BY DEF TypeOK, Rows, HasEntryRow
    <2>. QED
        BY <1>1, <1>3, <2>1 DEF RowsAgree, Memory
<1>6. BasesSafe(Memory', reached')
    BY <1>3 DEF BasesSafe, Memory
<1>. QED
    BY <1>1, <1>4, <1>5, <1>6 DEF MemoryGood, MemoryOK, TypeOK, Good

(* The row and the baseline of an entry are right. *)
LEMMA EntersGood ==
    ASSUME IInv, ControlOK', Forward, NEW t \in Tickets, Enter(t)
    PROVE  MemoryGood'
<1>. USE DEF IInv
<1>1. CASE rows' = rows /\ base' = base
    <2>1. RowsAsBefore
        BY <1>1, SameAsBefore DEF TypeOK
    <2>. QED
        BY <2>1, RowsStayGood DEF MemoryGood
<1>2. CASE Log(EntryRow(t)) /\ base' = [base EXCEPT ![t] = Baseline(Risk)]
    <2>1. EntryRow(t) \in Rows /\ EntryRow(t).t = t /\ ~EntryRow(t).closed
        BY RowIsRow DEF EntryRow
    <2>2. rows' \subseteq rows \cup {EntryRow(t)}
        BY <1>2, Logged
    <2>3. /\ Baseline(Risk) \in Bases /\ Baseline(Risk).risk = Risk
          /\ ~Baseline(Risk).armed /\ Risk \in Nat
        BY BaselineIsReal, NoBaseIsNone, LedgerAssumption
    <2>4. base'[t] = Baseline(Risk) /\ \A u \in Tickets : u # t => base'[u] = base[u]
        BY <1>2 DEF TypeOK
    <2>5. Good(Memory, Closed', reached')
        <3>1. Memory \in Copies
            BY DEF Memory, Copies, TypeOK
        <3>. QED
            BY <3>1, GoodLater
    <2>6. MemoryOK'
        BY <1>2, <2>1, <2>2, <2>3 DEF MemoryOK, TypeOK
    <2>7. RowsRight(Memory', Closed')
        BY <2>1, <2>2, <2>5 DEF Good, RowsRight, Memory
    <2>8. RowsAgree(Memory')
        <3>1. \A r \in rows : r.t \in Tickets /\ (r.sl /\ base[r.t] # NoBase => base[r.t].risk = Risk)
            BY DEF TypeOK, Rows, Good, RowsAgree, Memory
        <3>. QED
            BY <2>1, <2>2, <2>3, <2>4, <3>1 DEF RowsAgree, Memory
    <2>9. BasesSafe(Memory', reached')
        <3>1. BasesSafe(Memory, reached')
            BY <2>5 DEF Good
        <3>. QED
            BY <2>3, <2>4, <3>1 DEF BasesSafe, Memory
    <2>. QED
        BY <2>6, <2>7, <2>8, <2>9 DEF MemoryGood, Good
<1>. QED
    BY <1>1, <1>2 DEF Enter, memory

(* Every step keeps memory right. *)
LEMMA MemoryStep ==
    ASSUME IInv, ControlOK', Forward, Next
    PROVE  MemoryGood'
<1>. USE DEF IInv
<1>1. ASSUME RowsAsBefore
      PROVE  MemoryGood'
    BY <1>1, RowsStayGood DEF MemoryGood
<1>2. CASE UNCHANGED memory
    <2>1. RowsAsBefore
        BY <1>2, SameAsBefore DEF memory, TypeOK
    <2>. QED
        BY <1>1, <2>1
<1>3. CASE BeginLoop \/ SkipTrail \/ NoQuote \/ SkipSync \/ Proceed \/ NoEntry \/ Idle
    BY <1>2, <1>3 DEF BeginLoop, SkipTrail, NoQuote, SkipSync, Proceed, NoEntry, Idle
<1>4. ASSUME NEW t \in Tickets, Modified(t) \/ NotModified(t) \/ CloseByCommand(t) \/ Close(t)
      PROVE  MemoryGood'
    <2>1. base' = base /\ (Log(AuditRow(t)) \/ rows' = rows)
        BY <1>4 DEF Modified, NotModified, Answered, CloseByCommand, Close, memory
    <2>2. RowsAsBefore
        BY <2>1, AuditAsBefore
    <2>. QED
        BY <1>1, <2>2
<1>5. ASSUME NEW shown \in Snapshots, ReadPositions(shown)
      PROVE  MemoryGood'
    <2>1. /\ rows' = rows /\ base' \in [Tickets -> Bases]
          /\ \A t \in Tickets : base'[t] \in {base[t], NoBase}
        BY <1>5, NoBaseIsNone DEF ReadPositions, TypeOK
    <2>2. RowsAsBefore
        BY <2>1, SameAsBefore
    <2>. QED
        BY <1>1, <2>2
<1>6. ASSUME NEW shown \in Snapshots, NEW told \in SUBSET Candidates(shown),
             Reconcile(shown, told)
      PROVE  MemoryGood'
    <2>1. \A r \in rows' : r \in rows \/
              \E x \in rows : x.t \in Closed /\ r = [x EXCEPT !.closed = TRUE]
        BY <1>6, Reconciled
    <2>2. \A r \in rows' : /\ r \in Rows
                           /\ r.closed => r.t \in Closed'
                           /\ r.sl => \E x \in rows : x.t = r.t /\ x.sl
        <3>. SUFFICES ASSUME NEW r \in rows'
                      PROVE  /\ r \in Rows
                             /\ r.closed => r.t \in Closed'
                             /\ r.sl => \E x \in rows : x.t = r.t /\ x.sl
            OBVIOUS
        <3>1. CASE r \in rows
            BY <3>1 DEF TypeOK, Good, RowsRight, Memory, Forward
        <3>2. ASSUME NEW x \in rows, x.t \in Closed, r = [x EXCEPT !.closed = TRUE]
              PROVE  /\ r \in Rows /\ r.t \in Closed'
                     /\ r.t = x.t /\ r.sl = x.sl
            BY <3>2 DEF TypeOK, Rows, Forward
        <3>. QED
            BY <2>1, <3>1, <3>2
    <2>3. base' = base /\ base \in [Tickets -> Bases]
        BY <1>6 DEF Reconcile, TypeOK
    <2>4. RowsAsBefore
        BY <2>2, <2>3 DEF RowsAsBefore
    <2>. QED
        BY <1>1, <2>4
<1>7. ASSUME NEW listed \in SUBSET Known, NEW told \in SUBSET Closed, Sync(listed, told)
      PROVE  MemoryGood'
    <2>1. \A r \in rows' :
              \/ r \in rows
              \/ \E x \in rows : r = Row(x.t, x.sl, TRUE, x.closed \/ x.t \in told)
              \/ \E t \in Tickets : r = Row(t, FALSE, TRUE, t \in told)
        BY <1>7, Synced
    <2>2. \A r \in rows' : /\ r \in Rows
                           /\ r.closed => r.t \in Closed'
                           /\ r.sl => \E x \in rows : x.t = r.t /\ x.sl
        <3>. SUFFICES ASSUME NEW r \in rows'
                      PROVE  /\ r \in Rows
                             /\ r.closed => r.t \in Closed'
                             /\ r.sl => \E x \in rows : x.t = r.t /\ x.sl
            OBVIOUS
        <3>0. \A x \in rows : x \in Rows /\ (x.closed => x.t \in Closed')
            BY DEF TypeOK, Good, RowsRight, Memory, Forward
        <3>1. CASE r \in rows
            BY <3>0, <3>1
        <3>2. ASSUME NEW x \in rows, r = Row(x.t, x.sl, TRUE, x.closed \/ x.t \in told)
              PROVE  /\ r \in Rows /\ (r.closed => r.t \in Closed')
                     /\ r.t = x.t /\ r.sl = x.sl
            <4>1. x.t \in Tickets /\ x.sl \in BOOLEAN /\ x.closed \in BOOLEAN
                BY <3>0 DEF Rows
            <4>2. (x.closed \/ x.t \in told) \in BOOLEAN
                OBVIOUS
            <4>3. /\ r \in Rows /\ r.t = x.t /\ r.sl = x.sl
                  /\ r.closed = (x.closed \/ x.t \in told)
                BY <3>2, <4>1, <4>2, RowIsRow
            <4>. QED
                BY <3>0, <4>3 DEF Forward
        <3>3. ASSUME NEW t \in Tickets, r = Row(t, FALSE, TRUE, t \in told)
              PROVE  r \in Rows /\ (r.closed => r.t \in Closed') /\ ~r.sl
            <4>1. (t \in told) \in BOOLEAN
                OBVIOUS
            <4>2. /\ r \in Rows /\ r.t = t /\ r.sl = FALSE
                  /\ r.closed = (t \in told)
                BY <3>3, <4>1, RowIsRow
            <4>. QED
                BY <4>2 DEF Forward
        <3>. QED
            BY <2>1, <3>0, <3>1, <3>2, <3>3
    <2>3. base' = base /\ base \in [Tickets -> Bases]
        BY <1>7 DEF Sync, TypeOK
    <2>4. RowsAsBefore
        BY <2>2, <2>3 DEF RowsAsBefore
    <2>. QED
        BY <1>1, <2>4
<1>8. CASE Stop
    <2>1. /\ rows' = {} /\ base' = Empty.base /\ base' \in [Tickets -> Bases]
          /\ \A t \in Tickets : base'[t] = NoBase
        BY <1>8, EmptyIsCopy DEF Stop, Empty
    <2>2. RowsAsBefore
        BY <2>1 DEF RowsAsBefore
    <2>. QED
        BY <1>1, <2>2
<1>9. \A listed, told : (\/ listed \in (IF world.lag THEN SUBSET Known ELSE {Known})
                            /\ told \in (IF world.lag THEN SUBSET (listed \cap Closed)
                                                      ELSE {Closed}))
                        => listed \in SUBSET Known /\ told \in SUBSET Closed
    OBVIOUS
<1>. QED
    BY <1>3, <1>4, <1>5, <1>6, <1>7, <1>8, <1>9, StartsGood, DecidesGood, EntersGood
        DEF Next, Engine

(* What is in the stores was in memory, or is empty. *)
LEMMA StoresStep ==
    ASSUME IInv, ControlOK', Forward, MemoryGood', Next
    PROVE  StoresOK' /\ Good(redis, Closed, reached)'
<1>. USE DEF IInv
<1>1. Memory \in Copies /\ Memory' \in Copies
    BY DEF Memory, Copies, TypeOK, MemoryGood, MemoryOK
<1>2. Good(Memory, Closed', reached') /\ Good(redis, Closed', reached')
    BY <1>1, GoodLater DEF TypeOK
<1>3. Good(Memory', Closed', reached')
    BY DEF MemoryGood
<1>4. ASSUME file' \in {file, Memory, Memory'}, redis' \in {redis, Memory, Memory'}
      PROVE  StoresOK' /\ Good(redis, Closed, reached)'
    BY <1>1, <1>2, <1>3, <1>4 DEF StoresOK, TypeOK
<1>5. CASE Start
    BY <1>5, StartsGood, EmptyIsCopy DEF StoresOK, Start
<1>6. CASE Save
    BY <1>4, <1>6, SavedCopy
<1>7. CASE UNCHANGED stores
    BY <1>4, <1>7 DEF stores
<1>8. CASE Stop
    <2>1. \/ UNCHANGED stores
          \/ file' = Memory /\ redis' \in {redis, Memory}
        BY <1>8 DEF Stop, Memory
    <2>. QED
        BY <1>4, <1>7, <2>1
<1>9. CASE BeginLoop \/ NoEntry \/ Idle \/ SkipTrail \/ NoQuote \/ SkipSync \/ Proceed
    BY <1>6, <1>7, <1>9 DEF BeginLoop, NoEntry, Idle, SkipTrail, NoQuote, SkipSync, Proceed
<1>10. ASSUME NEW shown, NEW told, ReadPositions(shown) \/ Reconcile(shown, told)
                                   \/ Sync(shown, told) \/ Decide(shown, told)
       PROVE  Save \/ UNCHANGED stores
    BY <1>10 DEF ReadPositions, Reconcile, Sync, Decide
<1>11. ASSUME NEW t \in Tickets, Enter(t) \/ CloseByCommand(t) \/ Close(t)
                                 \/ Modified(t) \/ NotModified(t)
       PROVE  Save \/ UNCHANGED stores
    BY <1>11 DEF Enter, CloseByCommand, Close, Modified, NotModified, Answered
<1>. QED
    BY <1>5, <1>6, <1>7, <1>8, <1>9, <1>10, <1>11 DEF Next, Engine

-----------------------------------------------------------------------------
(* The invariant.                                                          *)

(* The invariant holds at first. *)
LEMMA InitGood ==
    ASSUME Init
    PROVE  IInv
<1>1. ControlOK
    <2>1. DOMAIN seen = {} /\ DOMAIN asked = {}
        BY NothingListed DEF Init
    <2>2. /\ pos \in [Tickets -> [at : {"none", "open", "closed"}, sl : Int]]
          /\ reached \in [Tickets -> Nat]
        BY DEF Init
    <2>. QED
        BY <2>1, <2>2 DEF Init, ControlOK
<1>2. /\ MemoryOK /\ StoresOK /\ rows = {} /\ base = Empty.base
      /\ redis = Empty
    BY EmptyIsCopy DEF Init, MemoryOK, StoresOK
<1>3. StopsOK
    BY NothingListed DEF Init, StopsOK, Stages, StopsRead, StopsAsked, OneRiskFirst, Known
<1>4. Good(Memory, Closed, reached) /\ Good(redis, Closed, reached)
    BY <1>2, EmptyIsGood, EmptyIsCopy DEF Memory
<1>. QED
    BY <1>1, <1>2, <1>3, <1>4, TypeParts DEF IInv, StopsOK

(* Every step keeps the invariant. *)
LEMMA StepGood ==
    ASSUME IInv, [Next]_vars
    PROVE  IInv'
<1>1. CASE Next
    <2>1. ControlOK'
        BY <1>1, ControlTyped DEF IInv
    <2>2. StopsOK' /\ Forward
        BY <1>1, StopsStep DEF IInv, StopsOK, Good
    <2>3. MemoryGood'
        BY <1>1, <2>1, <2>2, MemoryStep
    <2>4. StoresOK' /\ Good(redis, Closed, reached)'
        BY <1>1, <2>1, <2>2, <2>3, StoresStep
    <2>5. TypeOK'
        <3>1. ControlOK' /\ MemoryOK' /\ StoresOK'
            BY <2>1, <2>3, <2>4 DEF MemoryGood
        <3>. QED
            BY <3>1 DEF TypeOK, ControlOK, MemoryOK, StoresOK
    <2>. QED
        BY <2>2, <2>3, <2>4, <2>5 DEF IInv, StopsOK, MemoryGood
<1>2. CASE UNCHANGED vars
    BY <1>2 DEF vars, engineVars, memory, stores, IInv, TypeOK, Stages, StopsRead,
        StopsAsked, OneRiskFirst, Good, RowsRight, RowsAgree, BasesSafe, Memory,
        Known, Closed
<1>. QED
    BY <1>1, <1>2

(* Types, and what the copies, the stops that were read and the stops that *)
(* were asked for have to do with the positions.                           *)
THEOREM Invariance == Spec => []IInv
<1>1. Init => IInv
    BY InitGood
<1>2. IInv /\ [Next]_vars => IInv'
    BY StepGood
<1>. QED
    BY <1>1, <1>2, PTL DEF Spec

(* Every variable has its type, for any positions, prices and failures. *)
THEOREM TypeCorrect == Spec => []TypeOK
<1>1. IInv => TypeOK
    BY DEF IInv
<1>. QED
    BY <1>1, Invariance, PTL

(* A stop leaves its place only after the engine saw a quote at one        *)
(* original risk from the entry (compute_adaptive_trail), although a       *)
(* restart forgets what the original risk was.                             *)
THEOREM OneRiskAlwaysFirst == Spec => []OneRiskFirst
<1>1. IInv => OneRiskFirst
    BY DEF IInv
<1>. QED
    BY <1>1, Invariance, PTL

(* A row says closed only of a position that is (_reconcile_closed_trades, *)
(* _sync_broker_trade_history), in memory and after any restart.           *)
THEOREM OnlyClosedAreRecorded == Spec => []ClosedIfRecorded
<1>1. IInv => ClosedIfRecorded
    BY DEF IInv, Good, RowsRight, Memory, ClosedIfRecorded
<1>. QED
    BY <1>1, Invariance, PTL

(* A baseline of a position whose order has its row in the history is the  *)
(* one of the order (_restore_trail_baseline).                             *)
THEOREM EntryRowAlwaysFixesRisk == Spec => []EntryRowFixesRisk
<1>1. IInv => EntryRowFixesRisk
    BY DEF IInv, Good, RowsAgree, Memory, EntryRowFixesRisk
<1>. QED
    BY <1>1, Invariance, PTL

(* No step moves the stop of an open position back. *)
LEMMA StopForward ==
    ASSUME IInv, [Next]_vars
    PROVE  \A t \in Open : pos'[t].sl >= pos[t].sl
<1>. SUFFICES ASSUME NEW t \in Open
              PROVE  pos'[t].sl >= pos[t].sl
    OBVIOUS
<1>1. t \in Tickets /\ pos[t].at = "open" /\ pos[t].sl \in Int
    BY DEF Open, IInv, TypeOK
<1>2. CASE pos' = pos
    BY <1>1, <1>2
<1>3. ASSUME NEW u \in Tickets, Modified(u)
      PROVE  pos'[t].sl >= pos[t].sl
    <2>1. u \in DOMAIN asked /\ pos' = [pos EXCEPT ![u].sl = asked[u]]
        BY <1>3 DEF Modified
    <2>2. asked[u] >= pos[u].sl
        BY <2>1 DEF IInv, StopsAsked
    <2>. QED
        BY <1>1, <2>1, <2>2 DEF IInv, TypeOK
<1>4. ASSUME NEW u \in Tickets, CloseByCommand(u) \/ Close(u)
      PROVE  pos'[t].sl >= pos[t].sl
    <2>1. pos' = [pos EXCEPT ![u].at = "closed"]
        BY <1>4 DEF CloseByCommand, Close
    <2>. QED
        BY <1>1, <2>1 DEF IInv, TypeOK
<1>5. ASSUME NEW u \in Tickets, Enter(u)
      PROVE  pos'[t].sl >= pos[t].sl
    <2>1. t # u /\ pos'[t] = pos[t]
        BY <1>1, <1>5 DEF Enter, IInv, TypeOK
    <2>. QED
        BY <1>1, <2>1
<1>6. CASE UNCHANGED vars
    BY <1>2, <1>6 DEF vars
<1>7. CASE Start \/ BeginLoop \/ SkipTrail \/ NoQuote \/ SkipSync \/ Proceed \/ NoEntry
           \/ Idle \/ Stop
    BY <1>2, <1>7 DEF Start, BeginLoop, SkipTrail, NoQuote, SkipSync, Proceed, NoEntry,
        Idle, Stop
<1>8. ASSUME NEW x, NEW y, ReadPositions(x) \/ Decide(x, y) \/ Reconcile(x, y)
                           \/ Sync(x, y) \/ NotModified(x)
      PROVE  pos' = pos
    BY <1>8 DEF ReadPositions, Decide, Reconcile, Sync, NotModified
<1>. QED
    BY <1>2, <1>3, <1>4, <1>5, <1>6, <1>7, <1>8 DEF Next, Engine

(* The stop of an open position never moves back (_manage_trailing_stop),  *)
(* whatever was forgotten, lost or reported late.                          *)
THEOREM StopsNeverBack == Spec => StopNeverBack
<1>1. IInv /\ [Next]_vars => [\A t \in Open : pos'[t].sl >= pos[t].sl]_vars
    BY StopForward
<1>. QED
    BY <1>1, Invariance, PTL DEF Spec, StopNeverBack
=============================================================================

------------------------- MODULE RiskControlProofs -------------------------
(***************************************************************************)
(* Proofs about RiskControl, for every choice of accounts, limits,         *)
(* requests and clock.  A handler's effect is a composition of guardian    *)
(* methods on s = [mem, disk, redis, behind], so each method is            *)
(* characterised once -- it keeps the state well formed, and it either     *)
(* leaves it alone or saves what it leaves in memory -- and the actions are *)
(* then proved from those, without looking into a method again.            *)
(***************************************************************************)
EXTENDS RiskControl, TLAPS

(* A manual baseline in force belongs to the day of the window it excuses  *)
(* a loss of; one that is not in force is blank.                           *)
BaselineOK(m) ==
    IF m.baseline.active
    THEN /\ m.baseline.day = m.lastDay
         /\ m.baseline.realized = m.baseline.balance - m.dayOpen
    ELSE m.baseline = NoBaseline

GoodMemories == {m \in Memories : BaselineOK(m)}
GoodCopies == [present : {TRUE}, mem : GoodMemories, at : Nat] \cup {NoCopy}
GoodStates == [mem : GoodMemories, disk : GoodCopies, redis : GoodCopies,
               behind : SUBSET Places]

(* What a method does to the copies: nothing happened at all, or a place   *)
(* that takes a write holds what is now in memory, and is not behind.      *)
Took(copy, old, m, taken) ==
    IF taken THEN copy.present /\ copy.mem = m ELSE copy = old

SavedOrSame(s, t, up) ==
    \/ t = s
    \/ /\ t.behind = Places \ up
       /\ Took(t.disk, s.disk, t.mem, "disk" \in up)
       /\ Took(t.redis, s.redis, t.mem, "redis" \in up)

Kept(s, t, up) == t \in GoodStates /\ SavedOrSame(s, t, up)

(* What a save leaves (t) of what it found (s). *)
Saved(s, t, up) ==
    /\ t \in GoodStates
    /\ t.mem = s.mem
    /\ t.behind = Places \ up
    /\ Took(t.disk, s.disk, s.mem, "disk" \in up)
    /\ Took(t.redis, s.redis, s.mem, "redis" \in up)

(* The fields a method that only moves the mark or the baseline leaves.    *)
SameHaltAndDay(s, t) ==
    /\ t.mem.initialized = s.mem.initialized
    /\ t.mem.lastDay = s.mem.lastDay
    /\ t.mem.halt = s.mem.halt

(* The one halt that passes by itself: of daily loss, seen on a later day. *)
Expired(m, d) == m.halt = "daily" /\ d > m.lastDay

(* What each method leaves (t) of what it found (s) on day d. *)
Initialized(s, t, d, up) ==
    /\ Kept(s, t, up)
    /\ t.mem.initialized
    /\ t.mem.lastDay = d
    /\ t.mem.halt = s.mem.halt

RolledOver(s, t, d, up) ==
    /\ Kept(s, t, up)
    /\ t.mem.initialized = s.mem.initialized
    /\ t.mem.halt = s.mem.halt \/ Expired(s.mem, d)

MarksMoved(s, t, up) == Kept(s, t, up) /\ SameHaltAndDay(s, t)

Triggered(s, t, up) ==
    /\ Kept(s, t, up)
    /\ t.mem.initialized = s.mem.initialized
    /\ s.mem.halt # "none" => t.mem.halt = s.mem.halt

Checked(s, t, d, up) ==
    /\ Kept(s, t, up)
    /\ t.mem.initialized = s.mem.initialized
    /\ s.mem.halt # "none" /\ t.mem.halt = "none" => Expired(s.mem, d)

NotReset(s, t, d, up) ==
    /\ Kept(s, t, up)
    /\ t.mem.initialized = s.mem.initialized
    /\ t.mem.halt = s.mem.halt \/ Expired(s.mem, d)

-----------------------------------------------------------------------------
(* Saving keeps the memory, and is the one way the copies change.          *)
LEMMA SaveFacts ==
    ASSUME NEW s \in GoodStates, NEW n \in Nat, NEW up
    PROVE  Saved(s, Save(s, n, up), up)
<1>. DEFINE copy == [present |-> TRUE, mem |-> s.mem, at |-> n]
            d == IF "disk" \in up THEN copy ELSE s.disk
            r == IF "redis" \in up THEN copy ELSE s.redis
            b == Places \ up
            t == [s EXCEPT !.disk = d, !.redis = r, !.behind = b]
<1>1. Save(s, n, up) = t
    BY DEF Save
<1>2. s.mem \in GoodMemories /\ s.disk \in GoodCopies /\ s.redis \in GoodCopies
    BY DEF GoodStates
<1>3. copy \in GoodCopies
    BY <1>2 DEF GoodCopies
<1>4. copy.present /\ copy.mem = s.mem
    OBVIOUS
<1>. HIDE DEF copy
<1>5. d \in GoodCopies /\ r \in GoodCopies /\ b \in SUBSET Places
    BY <1>2, <1>3
<1>6. Took(d, s.disk, s.mem, "disk" \in up) /\ Took(r, s.redis, s.mem, "redis" \in up)
    BY <1>4 DEF Took
<1>7. b = Places \ up
    OBVIOUS
<1>. HIDE DEF d, r, b
<1>8. /\ t \in GoodStates
      /\ t.mem = s.mem /\ t.disk = d /\ t.redis = r /\ t.behind = b
    BY <1>2, <1>5 DEF GoodStates
<1>. QED
    BY <1>1, <1>6, <1>7, <1>8 DEF Saved

(* A changed memory, saved: the shape of every mutation of the guardian.   *)
LEMMA SaveChanged ==
    ASSUME NEW s \in GoodStates, NEW m \in GoodMemories,
           NEW n \in Nat, NEW up
    PROVE  LET t == Save([s EXCEPT !.mem = m], n, up)
           IN  /\ t.mem = m
               /\ Kept(s, t, up)
<1>. DEFINE c == [s EXCEPT !.mem = m]
            t == Save(c, n, up)
<1>1. /\ c \in GoodStates /\ c.mem = m
      /\ c.disk = s.disk /\ c.redis = s.redis
    BY DEF GoodStates
<1>. HIDE DEF c
<1>2. Saved(c, t, up)
    BY <1>1, SaveFacts
<1>. HIDE DEF t
<1>3. SavedOrSame(s, t, up)
    BY <1>1, <1>2 DEF SavedOrSame, Saved
<1>. QED
    BY <1>1, <1>2, <1>3 DEF t, c, Kept, Saved

(* The blank baseline is one, and not in force. *)
LEMMA BlankBaseline ==
    /\ NoBaseline \in Baselines
    /\ NoBaseline.active = FALSE
    BY DEF NoBaseline, Baselines

(* initialize leaves fresh windows and saves them; a halt stays.           *)
LEMMA InitializeFacts ==
    ASSUME NEW s \in GoodStates, NEW b \in Nat, NEW e \in Nat,
           NEW d \in Nat, NEW n \in Nat, NEW up
    PROVE  Initialized(s, Initialize(s, b, e, d, n, up), d, up)
<1>. DEFINE pos == b > 0
            m == [s.mem EXCEPT !.peak = e, !.session = pos, !.dayOpen = b,
                               !.lastDay = d, !.baseline = NoBaseline,
                               !.initialized = TRUE]
            c == [s EXCEPT !.mem.peak = e, !.mem.session = pos,
                           !.mem.dayOpen = b, !.mem.lastDay = d,
                           !.mem.baseline = NoBaseline,
                           !.mem.initialized = TRUE]
<1>1. pos \in BOOLEAN
    OBVIOUS
<1>2. Initialize(s, b, e, d, n, up) = Save(c, n, up)
    BY DEF Initialize
<1>. HIDE DEF pos
<1>3. m \in GoodMemories
    BY <1>1, BlankBaseline DEF GoodStates, GoodMemories, Memories, BaselineOK
<1>4. c = [s EXCEPT !.mem = m]
    BY DEF GoodStates, GoodMemories, Memories
<1>5. m.halt = s.mem.halt /\ m.lastDay = d /\ m.initialized
    BY DEF GoodStates, GoodMemories, Memories
<1>. HIDE DEF m, c
<1>. QED
    BY <1>2, <1>3, <1>4, <1>5, SaveChanged DEF Initialized

(* Two methods in a row still leave memory and copies together.            *)
LEMMA SavedTransitive ==
    ASSUME NEW s, NEW t, NEW u, NEW up,
           Kept(s, t, up), Kept(t, u, up)
    PROVE  Kept(s, u, up)
    BY DEF SavedOrSame, Took, Kept

(* Doing nothing leaves memory and copies together. *)
LEMMA KeptSame ==
    ASSUME NEW s \in GoodStates, NEW up
    PROVE  Kept(s, s, up)
    BY DEF Kept, SavedOrSame

(* _maybe_day_reset: only a daily-loss halt is lifted, only on a later     *)
(* day.                                                                    *)
LEMMA DayResetFacts ==
    ASSUME NEW s \in GoodStates, NEW b \in Nat,
           NEW d \in Nat, NEW n \in Nat, NEW up
    PROVE  RolledOver(s, DayReset(s, b, d, n, up), d, up)
<1>1. CASE ~(d > s.mem.lastDay)
    BY <1>1, KeptSame DEF DayReset, RolledOver
<1>2. CASE d > s.mem.lastDay
  <2>. DEFINE h == IF s.mem.halt = "daily" THEN "none" ELSE s.mem.halt
              m == [s.mem EXCEPT !.baseline = NoBaseline, !.dayOpen = b,
                                 !.lastDay = d, !.halt = h]
  <2>1. m \in GoodMemories
      BY BlankBaseline DEF GoodStates, GoodMemories, Memories, BaselineOK
  <2>2. [s EXCEPT !.mem.baseline = NoBaseline, !.mem.dayOpen = b,
                  !.mem.lastDay = d,
                  !.mem.halt = IF @ = "daily" THEN "none" ELSE @]
          = [s EXCEPT !.mem = m]
      BY DEF GoodStates, GoodMemories, Memories
  <2>3. /\ m.initialized = s.mem.initialized
        /\ m.halt = s.mem.halt \/ s.mem.halt = "daily"
      BY DEF GoodStates, GoodMemories, Memories
  <2>. HIDE DEF m
  <2>. QED
      BY <1>2, <2>1, <2>2, <2>3, SaveChanged
         DEF DayReset, RolledOver, Expired
<1>. QED
    BY <1>1, <1>2

(* Raising the mark touches neither the halt nor the day. *)
LEMMA RaisePeakFacts ==
    ASSUME NEW s \in GoodStates, NEW e \in Nat, NEW n \in Nat,
           NEW up
    PROVE  MarksMoved(s, RaisePeak(s, e, n, up), up)
<1>1. CASE ~(e > s.mem.peak)
    BY <1>1, KeptSame DEF RaisePeak, MarksMoved, SameHaltAndDay
<1>2. CASE e > s.mem.peak
  <2>. DEFINE m == [s.mem EXCEPT !.peak = e]
  <2>1. m \in GoodMemories
      BY DEF GoodStates, GoodMemories, Memories, BaselineOK
  <2>2. [s EXCEPT !.mem.peak = e] = [s EXCEPT !.mem = m]
      BY DEF GoodStates, GoodMemories, Memories
  <2>3. /\ m.initialized = s.mem.initialized /\ m.lastDay = s.mem.lastDay
        /\ m.halt = s.mem.halt
      BY DEF GoodStates, GoodMemories, Memories
  <2>. HIDE DEF m
  <2>. QED
      BY <1>2, <2>1, <2>2, <2>3, SaveChanged
         DEF RaisePeak, MarksMoved, SameHaltAndDay
<1>. QED
    BY <1>1, <1>2

(* Dropping a baseline touches neither the halt nor the day. *)
LEMMA ExpireBaselineFacts ==
    ASSUME NEW s \in GoodStates, NEW d \in Nat, NEW n \in Nat,
           NEW up
    PROVE  MarksMoved(s, ExpireBaseline(s, d, n, up), up)
<1>. DEFINE old == s.mem.baseline.active /\ s.mem.baseline.day # d
<1>1. CASE ~old
    BY <1>1, KeptSame DEF ExpireBaseline, MarksMoved, SameHaltAndDay
<1>2. CASE old
  <2>. DEFINE m == [s.mem EXCEPT !.baseline = NoBaseline]
  <2>1. m \in GoodMemories
      BY BlankBaseline DEF GoodStates, GoodMemories, Memories, BaselineOK
  <2>2. [s EXCEPT !.mem.baseline = NoBaseline] = [s EXCEPT !.mem = m]
      BY DEF GoodStates, GoodMemories, Memories
  <2>3. /\ m.initialized = s.mem.initialized /\ m.lastDay = s.mem.lastDay
        /\ m.halt = s.mem.halt
      BY DEF GoodStates, GoodMemories, Memories
  <2>. HIDE DEF m
  <2>. QED
      BY <1>2, <2>1, <2>2, <2>3, SaveChanged
         DEF ExpireBaseline, MarksMoved, SameHaltAndDay
<1>. QED
    BY <1>1, <1>2

(* _trigger only ever adds a halt. *)
LEMMA TriggerFacts ==
    ASSUME NEW s \in GoodStates, NEW b \in Nat, NEW e \in Nat, NEW n \in Nat,
           NEW up
    PROVE  Triggered(s, Trigger(s, b, e, n, up), up)
<1>. DEFINE m(h) == [s.mem EXCEPT !.halt = h]
            set(h) == Save([s EXCEPT !.mem.halt = h], n, up)
<1>1. ASSUME NEW h \in {"daily", "drawdown"}, s.mem.halt = "none"
      PROVE  Triggered(s, set(h), up)
  <2>1. m(h) \in GoodMemories
      BY DEF GoodStates, GoodMemories, Memories, BaselineOK
  <2>2. [s EXCEPT !.mem.halt = h] = [s EXCEPT !.mem = m(h)]
      BY DEF GoodStates, GoodMemories, Memories
  <2>3. m(h).initialized = s.mem.initialized
      BY DEF GoodStates, GoodMemories, Memories
  <2>. HIDE DEF m
  <2>. QED
      BY <1>1, <2>1, <2>2, <2>3, SaveChanged DEF Triggered
<1>2. \/ Trigger(s, b, e, n, up) = s
      \/ /\ s.mem.halt = "none"
         /\ Trigger(s, b, e, n, up) \in {set("daily"), set("drawdown")}
    BY DEF Trigger
<1>3. Triggered(s, s, up)
    BY KeptSame DEF Triggered
<1>. HIDE DEF set
<1>. QED
    BY <1>1, <1>2, <1>3

(* check: what it may do to a halt, and that it leaves nothing unsaved.    *)
LEMMA CheckFacts ==
    ASSUME NEW s \in GoodStates, NEW b \in Nat, NEW e \in Nat,
           NEW d \in Nat, NEW n \in Nat, NEW up
    PROVE  Checked(s, Check(s, b, e, d, n, up), d, up)
<1>1. CASE ~s.mem.initialized
    BY <1>1, KeptSame DEF Check, Checked
<1>2. CASE s.mem.initialized
  <2>. DEFINE s1 == DayReset(s, b, d, n, up)
              s2 == RaisePeak(s1, e, n, up)
              s3 == ExpireBaseline(s2, d, n, up)
              t  == Trigger(s3, b, e, n, up)
  <2>1. Check(s, b, e, d, n, up) = t
      BY <1>2 DEF Check
  <2>2. RolledOver(s, s1, d, up)
      BY DayResetFacts
  <2>3. s1 \in GoodStates
      BY <2>2 DEF RolledOver, Kept
  <2>. HIDE DEF s1
  <2>4. MarksMoved(s1, s2, up)
      BY <2>3, RaisePeakFacts
  <2>5. s2 \in GoodStates
      BY <2>4 DEF MarksMoved, Kept
  <2>. HIDE DEF s2
  <2>6. MarksMoved(s2, s3, up)
      BY <2>5, ExpireBaselineFacts
  <2>7. s3 \in GoodStates
      BY <2>6 DEF MarksMoved, Kept
  <2>. HIDE DEF s3
  <2>8. Triggered(s3, t, up)
      BY <2>7, TriggerFacts
  <2>. HIDE DEF t
  <2>9. Kept(s, t, up)
      BY <2>2, <2>4, <2>6, <2>8, SavedTransitive
         DEF RolledOver, MarksMoved, Triggered
  <2>10. t.mem.initialized = s.mem.initialized
      BY <2>2, <2>4, <2>6, <2>8
         DEF RolledOver, MarksMoved, Triggered, SameHaltAndDay
  <2>11. s.mem.halt # "none" /\ t.mem.halt = "none" => Expired(s.mem, d)
      BY <2>2, <2>4, <2>6, <2>8
         DEF RolledOver, MarksMoved, Triggered, SameHaltAndDay
  <2>. QED
      BY <2>1, <2>9, <2>10, <2>11 DEF Checked
<1>. QED
    BY <1>1, <1>2

(* reset_halt: a reset that returns False lifts at most a daily-loss halt  *)
(* of an earlier day.                                                      *)
LEMMA ResetHaltFacts ==
    ASSUME NEW s \in GoodStates, NEW b \in Nat, NEW e \in Nat,
           NEW r \in Requests \cup {NoRequest},
           NEW d \in Nat, NEW n \in Nat, NEW up
    PROVE  LET t == ResetHalt(s, b, e, r, d, n, up)
           IN  /\ Kept(s, t, up)
               /\ ~ResetReturns(s.mem, b, e, r, d) => NotReset(s, t, d, up)
<1>. DEFINE q == DayReset(s, b, d, n, up)
            t == ResetHalt(s, b, e, r, d, n, up)
<1>1. RolledOver(s, q, d, up)
    BY DayResetFacts
<1>2. CASE ~ResetConsidered(s.mem, b, e, r)
  <2>1. t = s
      BY <1>2 DEF ResetHalt
  <2>. QED
      BY <2>1, KeptSame DEF NotReset
<1>3. CASE ResetConsidered(s.mem, b, e, r) /\ q.mem.halt = "none"
  <2>1. t = q
      BY <1>3 DEF ResetHalt
  <2>. QED
      BY <1>1, <2>1 DEF RolledOver, NotReset
<1>4. CASE ResetConsidered(s.mem, b, e, r) /\ q.mem.halt # "none"
  <2>. DEFINE base == [active |-> TRUE, day |-> d,
                       realized |-> b - q.mem.dayOpen, balance |-> b,
                       request |-> r]
              m == [q.mem EXCEPT !.baseline = base, !.peak = e,
                                 !.lastDay = d, !.halt = "none"]
  <2>1. t = Save([q EXCEPT !.mem.baseline = base, !.mem.peak = e,
                           !.mem.lastDay = d, !.mem.halt = "none"], n, up)
      BY <1>4 DEF ResetHalt
  <2>2. q \in GoodStates
      BY <1>1 DEF RolledOver, Kept
  <2>3. base \in Baselines
      BY <2>2 DEF Baselines, GoodStates, GoodMemories, Memories
  <2>4. m \in GoodMemories
      BY <2>2, <2>3 DEF GoodStates, GoodMemories, Memories, BaselineOK
  <2>5. [q EXCEPT !.mem.baseline = base, !.mem.peak = e,
                  !.mem.lastDay = d, !.mem.halt = "none"]
          = [q EXCEPT !.mem = m]
      BY <2>2 DEF GoodStates, GoodMemories, Memories
  <2>6. m.initialized = q.mem.initialized
      BY <2>2 DEF GoodStates, GoodMemories, Memories
  <2>7. ~ResetReturns(s.mem, b, e, r, d) => Expired(s.mem, d)
      BY <1>4 DEF ResetReturns, Expired
  <2>. HIDE DEF q, t, m, base
  <2>8. t.mem = m /\ Kept(q, t, up)
      BY <2>1, <2>2, <2>4, <2>5, SaveChanged
  <2>9. Kept(s, t, up)
      BY <1>1, <2>8, SavedTransitive DEF RolledOver
  <2>10. t.mem.initialized = s.mem.initialized
      BY <1>1, <2>6, <2>8 DEF RolledOver
  <2>. QED
      BY <2>7, <2>9, <2>10 DEF t, NotReset
<1>. QED
    BY <1>2, <1>3, <1>4

(* restore_state takes a consistent copy over as it is, but for the        *)
(* identity and the limits.                                                *)
LEMMA RestoredFacts ==
    ASSUME NEW m \in GoodMemories, NEW id \in Logins \cup {NoLogin},
           NEW l \in Limits
    PROVE  /\ Restored(m, id, l) \in GoodMemories
           /\ SameRisk(Restored(m, id, l), m)
<1>1. (IF m.baseline.active /\ m.baseline.day = m.lastDay
       THEN m.baseline ELSE NoBaseline) = m.baseline
    BY DEF GoodMemories, Memories, BaselineOK
<1>. DEFINE r == [m EXCEPT !.login = id,
                           !.limits = IF EnvLimits THEN l ELSE m.limits,
                           !.baseline = m.baseline]
<1>2. Restored(m, id, l) = r
    BY <1>1 DEF Restored, GoodMemories, Memories
<1>3. r \in GoodMemories
    BY DEF GoodMemories, Memories, BaselineOK
<1>4. SameRisk(r, m)
    BY DEF SameRisk, GoodMemories, Memories
<1>. QED
    BY <1>2, <1>3, <1>4

-----------------------------------------------------------------------------
(* The inductive invariant.                                                *)
Scalars ==
    /\ now \in Nat
    /\ working \in SUBSET Places
    /\ engine \in {"up", "stopped", "down"}
    /\ paused \in BOOLEAN /\ lateBars \in BOOLEAN
    /\ receipt \in [request : Requests \cup {NoRequest},
                    status : {"none", "applied", "ignored", "failed"}]
    /\ config \in Limits
    /\ login \in Logins

(* The part of the invariant that speaks of the guardian and its copies.   *)
GuardianTyped == State \in GoodStates

Stored == GuardianTyped /\ Durable

IInv == Scalars /\ Stored

(* What is consistent is typed. *)
LEMMA IInvTypeOK == IInv => TypeOK
<1>1. GoodMemories \subseteq Memories
    BY DEF GoodMemories
<1>2. GoodCopies \subseteq Copies
    BY <1>1 DEF GoodCopies, Copies
<1>. QED
    BY <1>1, <1>2 DEF IInv, Stored, Scalars, GuardianTyped, State, GoodStates, TypeOK

(* A copy that is there holds a consistent memory. *)
LEMMA CopyMemory ==
    ASSUME NEW c \in GoodCopies, c.present
    PROVE  c.mem \in GoodMemories
<1>1. NoCopy.present = FALSE
    BY DEF NoCopy
<1>2. c \in [present : {TRUE}, mem : GoodMemories, at : Nat]
    BY <1>1 DEF GoodCopies
<1>. QED
    BY <1>2

(* Every memory that could be taken over is consistent. *)
LEMMA IInvBaseline == IInv => BaselineConsistent
<1>. SUFFICES ASSUME IInv, NEW m \in RiskStates
              PROVE  m \in GoodMemories
    BY DEF BaselineConsistent, GoodMemories, BaselineOK
<1>1. /\ mem \in GoodMemories
      /\ disk.present => disk.mem \in GoodMemories
      /\ redis.present => redis.mem \in GoodMemories
  <2>1. mem \in GoodMemories /\ disk \in GoodCopies /\ redis \in GoodCopies
      BY DEF IInv, Stored, GuardianTyped, State, GoodStates
  <2>. QED
      BY <2>1, CopyMemory
<1>. QED
    BY <1>1 DEF RiskStates

(* Days are counted from zero. *)
LEMMA TodayNat == now \in Nat => Today \in Nat
    BY ClockAssumption DEF Today

(* A new guardian is consistent and not initialized. *)
LEMMA NewGood ==
    ASSUME NEW l \in Limits, NEW id \in Logins \cup {NoLogin}
    PROVE  /\ [New(l) EXCEPT !.login = id] \in GoodMemories
           /\ ~[New(l) EXCEPT !.login = id].initialized
    BY BlankBaseline DEF New, GoodMemories, Memories, BaselineOK

(* The identity a start uses is an account or unknown. *)
LEMMA IdentityType ==
    ASSUME login \in Logins, NEW known
    PROVE  Identity(known) \in Logins \cup {NoLogin}
    BY DEF Identity

-----------------------------------------------------------------------------
(* What a save leaves is durable. *)
LEMMA SavedDurable ==
    ASSUME NEW s, NEW t, SavedOrSame(s, t, working), t # s, Becomes(t)
    PROVE  Durable'
<1>1. /\ mem' = t.mem /\ disk' = t.disk /\ redis' = t.redis
      /\ behind' = Places \ working
    BY DEF Becomes, SavedOrSame
<1>2. /\ "disk" \in working => disk'.present /\ disk'.mem = mem'
      /\ "redis" \in working => redis'.present /\ redis'.mem = mem'
    BY <1>1 DEF SavedOrSame, Took
<1>. QED
    BY <1>1, <1>2 DEF Durable, Copy, SameRisk, Places

(* A handler that leaves what a composition of methods leaves keeps the    *)
(* invariant: either nothing happened, or what it left was saved.          *)
LEMMA BecomesStored ==
    ASSUME Stored, NEW t, Kept(State, t, working), Becomes(t)
    PROVE  Stored'
<1>1. /\ mem' = t.mem /\ disk' = t.disk /\ redis' = t.redis /\ behind' = t.behind
    BY DEF Becomes
<1>2. GuardianTyped'
    BY <1>1 DEF Kept, GuardianTyped, State, GoodStates
<1>3. CASE t = State
  <2>1. mem' = mem /\ disk' = disk /\ redis' = redis /\ behind' = behind
      BY <1>1, <1>3 DEF State
  <2>. QED
      BY <2>1, <1>2 DEF Stored, Durable, Copy, SameRisk
<1>4. CASE t # State
    BY <1>2, <1>4, SavedDurable DEF Stored, Kept
<1>. QED
    BY <1>3, <1>4

(* A start from fresh baselines always saves. *)
LEMMA BecomesSaved ==
    ASSUME NEW s, NEW t, Kept(s, t, working), t # s, Becomes(t)
    PROVE  Stored'
<1>1. /\ mem' = t.mem /\ disk' = t.disk /\ redis' = t.redis /\ behind' = t.behind
    BY DEF Becomes
<1>2. GuardianTyped'
    BY <1>1 DEF Kept, GuardianTyped, State, GoodStates
<1>. QED
    BY <1>2, SavedDurable DEF Stored, Kept

(* Steps that touch neither the guardian nor its copies. *)
LEMMA StoredUnchanged ==
    ASSUME Stored, UNCHANGED stores
    PROVE  Stored'
    BY DEF Stored, stores, GuardianTyped, State, Durable, Copy, SameRisk

(* An account answers with whole figures. *)
LEMMA AccountFields ==
    ASSUME NEW a \in Accounts
    PROVE  a.balance \in Nat /\ a.equity \in Nat
    BY AccountsAssumption
-----------------------------------------------------------------------------
(* Every handler keeps the invariant.                                      *)

(* The guardian's methods as the handlers call them: with an account's     *)
(* figures, today and now.                                                 *)
LEMMA CallArguments ==
    ASSUME Scalars, NEW a \in Accounts
    PROVE  /\ a.balance \in Nat /\ a.equity \in Nat
           /\ Today \in Nat /\ now \in Nat
    BY AccountFields, TodayNat DEF Scalars

(* What initialize and check leave, for the figures of an account. *)
LEMMA CallFacts ==
    ASSUME Scalars, NEW s \in GoodStates, NEW a \in Accounts
    PROVE  /\ Initialized(s, GuardianInitialize(s, a), Today, working)
           /\ Checked(s, GuardianCheck(s, a), Today, working)
<1>1. /\ a.balance \in Nat /\ a.equity \in Nat
      /\ Today \in Nat /\ now \in Nat
    BY CallArguments
<1>2. Initialized(s, Initialize(s, a.balance, a.equity, Today, now, working),
                  Today, working)
    BY <1>1, InitializeFacts
<1>3. Checked(s, Check(s, a.balance, a.equity, Today, now, working),
              Today, working)
    BY <1>1, CheckFacts
<1>. QED
    BY <1>2, <1>3 DEF GuardianInitialize, GuardianCheck

(* What reset_halt leaves, for the figures of an account. *)
LEMMA ResetCallFacts ==
    ASSUME Scalars, NEW s \in GoodStates, NEW a \in Accounts,
           NEW r \in Requests \cup {NoRequest}
    PROVE  /\ Kept(s, GuardianReset(s, a, r), working)
           /\ ~ResetReturns(s.mem, a.balance, a.equity, r, Today)
                => NotReset(s, GuardianReset(s, a, r), Today, working)
<1>1. /\ a.balance \in Nat /\ a.equity \in Nat
      /\ Today \in Nat /\ now \in Nat
    BY CallArguments
<1>. DEFINE t == ResetHalt(s, a.balance, a.equity, r, Today, now, working)
<1>2. /\ Kept(s, t, working)
      /\ ~ResetReturns(s.mem, a.balance, a.equity, r, Today)
           => NotReset(s, t, Today, working)
    BY <1>1, ResetHaltFacts
<1>. QED
    BY <1>2 DEF GuardianReset

(* Memory and copies are consistent. *)
LEMMA StateGood == Stored => State \in GoodStates
    BY DEF Stored, GuardianTyped

(* A start from a copy takes over what the last engine saved. *)
LEMMA StartRestoredKeeps ==
    ASSUME Scalars, Stored, NEW known, StartRestored(known)
    PROVE  Stored' /\ mem' \in GoodMemories
<1>. DEFINE c == SavedCopy
<1>1. c.present /\ c \in {redis, disk}
    BY DEF StartRestored, Restorable, SavedCopy
<1>2. redis \in GoodCopies /\ disk \in GoodCopies
    BY DEF Stored, GuardianTyped, State, GoodStates
<1>3. c.mem \in GoodMemories
    BY <1>1, <1>2, CopyMemory
<1>4. mem' = Restored(c.mem, Identity(known), config)
    BY DEF StartRestored
<1>5. Identity(known) \in Logins \cup {NoLogin} /\ config \in Limits
    BY IdentityType DEF Scalars
<1>6. mem' \in GoodMemories /\ SameRisk(mem', c.mem)
    BY <1>3, <1>4, <1>5, RestoredFacts
<1>7. /\ disk' = disk /\ redis' = redis
      /\ behind' = {place \in Places : Copy(place) # c}
    BY DEF StartRestored
<1>8. GuardianTyped'
    BY <1>6, <1>7 DEF Stored, GuardianTyped, State, GoodStates
<1>9. ASSUME NEW place \in Places \ behind'
      PROVE  Copy(place)'.present /\ SameRisk(mem', Copy(place)'.mem)
  <2>1. Copy(place) = c /\ Copy(place)' = Copy(place)
      BY <1>7, <1>9 DEF Copy
  <2>. QED
      BY <1>1, <1>6, <2>1
<1>10. Durable'
    BY <1>9 DEF Durable
<1>. QED
    BY <1>6, <1>8, <1>10 DEF Stored

(* A start from the live account saves its baselines. *)
LEMMA StartFreshKeeps ==
    ASSUME Scalars, Stored, NEW known, NEW a \in Accounts,
           StartFresh(known, a)
    PROVE  Stored'
<1>. DEFINE m == [New(config) EXCEPT !.login = Identity(known)]
            s == [State EXCEPT !.mem = m]
            t == GuardianInitialize(s, a)
<1>1. m \in GoodMemories /\ ~m.initialized
    BY NewGood, IdentityType DEF Scalars
<1>2. Becomes(t)
    BY DEF StartFresh
<1>. HIDE DEF m
<1>3. s \in GoodStates /\ s.mem = m
    BY <1>1 DEF Stored, GuardianTyped, GoodStates
<1>. HIDE DEF s
<1>4. Initialized(s, t, Today, working)
    BY <1>3, CallFacts
<1>. HIDE DEF t
<1>5. Kept(s, t, working) /\ t # s
    BY <1>1, <1>3, <1>4 DEF Initialized
<1>. QED
    BY <1>2, <1>5, BecomesSaved DEF Scalars

(* A start without account data touches no copy. *)
LEMMA StartBlindKeeps ==
    ASSUME Scalars, Stored, NEW known, StartBlind(known)
    PROVE  Stored'
<1>1. mem' \in GoodMemories /\ ~mem'.initialized
    BY NewGood, IdentityType DEF StartBlind, Scalars
<1>2. disk' = disk /\ redis' = redis /\ behind' = behind
    BY DEF StartBlind
<1>3. GuardianTyped' /\ Durable'
    BY <1>1, <1>2 DEF Stored, GuardianTyped, State, GoodStates, Durable
<1>. QED
    BY <1>3 DEF Stored

(* What a bar leaves; the second part is what HaltIsSticky needs of it.    *)
LEMMA BarFacts ==
    ASSUME Scalars, Stored, NEW a \in Accounts, Bar(a)
    PROVE  /\ Stored'
           /\ mem.halt # "none" /\ mem'.halt = "none" => Expired(mem, Today)
<1>. DEFINE i == GuardianInitialize(State, a)
            b == IF mem.initialized THEN State ELSE i
            t == GuardianCheck(b, a)
<1>1. State \in GoodStates /\ State.mem = mem /\ Today \in Nat
    BY StateGood, CallArguments DEF State
<1>2. Becomes(t) /\ mem' = t.mem
    BY DEF Bar, AfterBar, Becomes
<1>3. Initialized(State, i, Today, working)
    BY <1>1, CallFacts
<1>. HIDE DEF i
<1>4. /\ b \in GoodStates /\ Kept(State, b, working)
      /\ b.mem.halt = mem.halt
      /\ b.mem.lastDay \in {mem.lastDay, Today}
    BY <1>1, <1>3, KeptSame DEF Initialized, Kept
<1>. HIDE DEF b
<1>5. Checked(b, t, Today, working)
    BY <1>4, CallFacts
<1>. HIDE DEF t
<1>6. Stored'
    BY <1>1, <1>2, <1>4, <1>5, SavedTransitive, BecomesStored DEF Checked
<1>7. b.mem.halt # "none" /\ t.mem.halt = "none" => Expired(b.mem, Today)
    BY <1>5 DEF Checked
<1>8. Expired(b.mem, Today) => Expired(mem, Today)
    BY <1>1, <1>4 DEF Expired
<1>. QED
    BY <1>2, <1>4, <1>6, <1>7, <1>8

(* A reset without a halt keeps the invariant and the absence of a halt. *)
LEMMA ResetWhileRunningFacts ==
    ASSUME Scalars, Stored, NEW r \in Requests \cup {NoRequest},
           ResetWhileRunning(r)
    PROVE  Stored' /\ mem'.halt = mem.halt
<1>. DEFINE t == ExpireBaseline(State, Today, now, working)
<1>1. /\ Today \in Nat /\ now \in Nat
      /\ State \in GoodStates /\ State.mem = mem
    BY TodayNat, StateGood DEF Scalars, State
<1>2. MarksMoved(State, t, working)
    BY <1>1, ExpireBaselineFacts
<1>3. Becomes(t) /\ mem' = t.mem
    BY DEF ResetWhileRunning, NewRequest, Becomes
<1>. HIDE DEF t
<1>. QED
    BY <1>1, <1>2, <1>3, BecomesStored DEF MarksMoved, SameHaltAndDay

(* A reset that is applied, and the check after it, are saved. *)
LEMMA ResetAppliedKeeps ==
    ASSUME Scalars, Stored, NEW r \in Requests \cup {NoRequest},
           NEW a \in Accounts, ResetApplied(r, a)
    PROVE  Stored'
<1>. DEFINE q == GuardianReset(State, a, r)
            t == GuardianCheck(q, a)
<1>1. State \in GoodStates
    BY StateGood DEF Scalars
<1>2. Kept(State, q, working)
    BY <1>1, ResetCallFacts
<1>3. Becomes(t)
    BY DEF ResetApplied, NewRequest
<1>4. q \in GoodStates
    BY <1>2 DEF Kept
<1>. HIDE DEF q
<1>5. Checked(q, t, Today, working)
    BY <1>4, CallFacts
<1>. HIDE DEF t
<1>6. Kept(State, t, working)
    BY <1>1, <1>2, <1>5, SavedTransitive DEF Checked
<1>. QED
    BY <1>1, <1>3, <1>6, BecomesStored

(* A refused reset lifts at most what a new day would have lifted.         *)
LEMMA ResetRefusedFacts ==
    ASSUME Scalars, Stored, NEW r \in Requests \cup {NoRequest},
           NEW a \in Accounts, ResetRefused(r, a)
    PROVE  Stored' /\ (mem'.halt = mem.halt \/ Expired(mem, Today))
<1>. DEFINE t == GuardianReset(State, a, r)
<1>1. State \in GoodStates /\ State.mem = mem
    BY StateGood DEF Scalars, State
<1>2. /\ Becomes(t) /\ mem' = t.mem
      /\ ~ResetReturns(State.mem, a.balance, a.equity, r, Today)
    BY <1>1 DEF ResetRefused, NewRequest, Becomes
<1>3. NotReset(State, t, Today, working)
    BY <1>1, <1>2, ResetCallFacts
<1>. HIDE DEF t
<1>. QED
    BY <1>1, <1>2, <1>3, BecomesStored DEF NotReset

(* Without account figures reset_halt does nothing, so a forced resume     *)
(* leaves the halt where it is, rebased or not.                            *)
LEMMA ForceResumeFacts ==
    ASSUME Scalars, Stored, NEW rebase \in BOOLEAN, NEW a \in Accounts,
           ForceResume(rebase, a)
    PROVE  Stored' /\ mem'.halt = mem.halt
<1>. DEFINE i == GuardianInitialize(State, a)
            t == IF rebase /\ a.balance > 0 THEN i ELSE State
<1>1. State \in GoodStates /\ State.mem = mem
    BY StateGood DEF Scalars, State
<1>2. ResetHalt(t, 0, 0, NoRequest, Today, now, working) = t
    BY DEF ResetHalt, ResetConsidered
<1>3. Becomes(t) /\ mem' = t.mem
    BY <1>2 DEF ForceResume, Becomes
<1>4. Initialized(State, i, Today, working)
    BY <1>1, CallFacts
<1>. HIDE DEF i
<1>5. Kept(State, t, working) /\ t.mem.halt = mem.halt
    BY <1>1, <1>4, KeptSame DEF Initialized
<1>. HIDE DEF t
<1>. QED
    BY <1>1, <1>3, <1>5, BecomesStored

(* New thresholds change nothing else in memory. *)
LEMMA UpdateRiskFacts ==
    ASSUME Stored, NEW l \in Limits, UpdateRisk(l)
    PROVE  Stored' /\ mem'.halt = mem.halt
<1>1. /\ mem \in GoodMemories /\ disk \in GoodCopies /\ redis \in GoodCopies
      /\ mem' = [mem EXCEPT !.limits = l]
      /\ disk' = disk /\ redis' = redis /\ behind' = behind
    BY DEF UpdateRisk, Stored, GuardianTyped, State, GoodStates
<1>2. mem' \in GoodMemories
    BY <1>1 DEF GoodMemories, Memories, BaselineOK
<1>3. SameRisk(mem', mem) /\ mem'.initialized = mem.initialized
    BY <1>1 DEF SameRisk, GoodMemories, Memories
<1>4. GuardianTyped'
    BY <1>1, <1>2 DEF Stored, GuardianTyped, State, GoodStates
<1>5. Durable'
    BY <1>1, <1>3 DEF Stored, Durable, Copy, SameRisk
<1>. QED
    BY <1>3, <1>4, <1>5 DEF Stored, SameRisk
-----------------------------------------------------------------------------
(* The invariant, and what follows from it.                                *)

(* The answer of the guardian is yes or no. *)
LEMMA HaltedType ==
    ASSUME NEW m
    PROVE  Halted(m) \in BOOLEAN
    BY DEF Halted

(* The invariant holds before the first start. *)
LEMMA InitIInv == Init => IInv
<1>. SUFFICES ASSUME Init PROVE IInv
    OBVIOUS
<1>1. mem \in GoodMemories
    BY BlankBaseline, LimitsAssumption
       DEF Init, New, GoodMemories, Memories, BaselineOK
<1>2. NoCopy \in GoodCopies
    BY DEF GoodCopies
<1>3. GuardianTyped /\ Durable
    BY <1>1, <1>2 DEF Init, New, GuardianTyped, State, GoodStates, Durable
<1>4. Scalars
    BY LoginsAssumption, LimitsAssumption DEF Init, Scalars, NoReceipt
<1>. QED
    BY <1>3, <1>4 DEF IInv, Stored

(* Clock, flags and receipts stay typed. *)
LEMMA ScalarsKept == Scalars /\ [Next]_vars => Scalars'
<1>. SUFFICES ASSUME Scalars, [Next]_vars PROVE Scalars'
    OBVIOUS
<1>. DEFINE Flags == /\ engine' \in {"up", "stopped", "down"}
                     /\ paused' \in BOOLEAN /\ lateBars' \in BOOLEAN
                     /\ receipt' \in [request : Requests \cup {NoRequest},
                                      status : {"none", "applied", "ignored", "failed"}]
                     /\ config' \in Limits
<1>0. ASSUME UNCHANGED world, Flags
      PROVE  Scalars'
    BY <1>0 DEF Scalars, world
<1>. USE DEF Scalars
<1>1. CASE Start
  <2>1. PICK known \in Summary :
            \/ StartRestored(known)
            \/ \E a \in Accounts : StartFresh(known, a)
            \/ StartBlind(known)
      BY <1>1 DEF Start
  <2>2. paused' \in BOOLEAN
      BY <2>1 DEF StartRestored, StartFresh, StartBlind
  <2>3. /\ engine' = "up" /\ lateBars' = FALSE /\ receipt' = NoReceipt
        /\ UNCHANGED world /\ config' = config
      BY <2>1 DEF StartRestored, StartFresh, StartBlind
  <2>. QED
      BY <1>0, <2>2, <2>3 DEF NoReceipt
<1>2. CASE SomeBar
  <2>1. PICK a \in Accounts : Bar(a)
      BY <1>2 DEF SomeBar
  <2>2. /\ paused' = (paused \/ Halted(AfterBar(a).mem)) /\ lateBars' = paused'
        /\ UNCHANGED world /\ UNCHANGED <<engine, receipt, config>>
      BY <2>1 DEF Bar
  <2>3. paused' \in BOOLEAN
      BY <2>2, HaltedType
  <2>. QED
      BY <1>0, <2>2, <2>3
<1>3. CASE PauseCommand \/ ResumeCommand
    BY <1>3, <1>0 DEF PauseCommand, ResumeCommand
<1>4. CASE Reset
  <2>1. PICK r \in Requests \cup {NoRequest} :
            \/ ResetWhileRunning(r)
            \/ ResetWithoutAccount(r)
            \/ \E a \in Accounts : ResetApplied(r, a) \/ ResetRefused(r, a)
      BY <1>4 DEF Reset
  <2>2. /\ \E status \in {"applied", "ignored", "failed"} : Answer(r, status)
        /\ UNCHANGED world /\ engine' = engine /\ config' = config
      BY <2>1 DEF ResetWhileRunning, ResetWithoutAccount, ResetApplied, ResetRefused
  <2>3. \/ paused' = paused
        \/ \E m : paused' = Halted(m)
      BY <2>1, Zenon
         DEF ResetWhileRunning, ResetWithoutAccount, ResetApplied, ResetRefused
  <2>4. paused' \in BOOLEAN
      BY <2>3, HaltedType
  <2>5. /\ receipt' \in [request : Requests \cup {NoRequest},
                         status : {"none", "applied", "ignored", "failed"}]
        /\ lateBars' = FALSE
      BY <2>2 DEF Answer
  <2>. QED
      BY <1>0, <2>2, <2>4, <2>5
<1>5. CASE \E l \in Limits : UpdateRisk(l)
    BY <1>5, <1>0 DEF UpdateRisk
<1>6. CASE \E rebase \in BOOLEAN, a \in Accounts : ForceResume(rebase, a)
  <2>1. UNCHANGED world /\ paused' = FALSE
        /\ UNCHANGED <<engine, lateBars, receipt, config>>
      BY <1>6 DEF ForceResume
  <2>. QED
      BY <1>0, <2>1
<1>7. CASE EngineStops \/ ProcessDies
    BY <1>7, <1>0, LimitsAssumption DEF EngineStops, ProcessDies
<1>8. CASE Redeploy
    BY <1>8, LimitsAssumption DEF Redeploy
<1>9. CASE PlacesChange
    BY <1>9 DEF PlacesChange
<1>10. CASE Tick
  <2>1. /\ now' = now + 1 /\ lateBars' = FALSE
        /\ working' = working /\ login' = login /\ engine' = engine
        /\ paused' = paused /\ receipt' = receipt /\ config' = config
      BY <1>10 DEF Tick
  <2>2. now' \in Nat
      BY <2>1
  <2>. QED
      BY <2>1, <2>2
<1>11. CASE UNCHANGED vars
    BY <1>11 DEF vars
<1>. QED
    BY <1>1, <1>2, <1>3, <1>4, <1>5, <1>6, <1>7, <1>8, <1>9, <1>10, <1>11
       DEF Next

(* Every step keeps memory and copies together. *)
LEMMA StoredKept == Scalars /\ Stored /\ [Next]_vars => Stored'
<1>. SUFFICES ASSUME Scalars, Stored, [Next]_vars PROVE Stored'
    OBVIOUS
<1>1. CASE Start
    BY <1>1, StartRestoredKeeps, StartFreshKeeps, StartBlindKeeps DEF Start
<1>2. CASE SomeBar
    BY <1>2, BarFacts DEF SomeBar
<1>3. CASE PauseCommand \/ ResumeCommand
    BY <1>3, StoredUnchanged DEF PauseCommand, ResumeCommand
<1>4. CASE Reset
  <2>1. ASSUME NEW r \in Requests \cup {NoRequest}, ResetWithoutAccount(r)
        PROVE  Stored'
      BY <2>1, StoredUnchanged DEF ResetWithoutAccount
  <2>. QED
      BY <1>4, <2>1, ResetWhileRunningFacts, ResetAppliedKeeps,
         ResetRefusedFacts DEF Reset
<1>5. CASE \E l \in Limits : UpdateRisk(l)
    BY <1>5, UpdateRiskFacts
<1>6. CASE \E rebase \in BOOLEAN, a \in Accounts : ForceResume(rebase, a)
    BY <1>6, ForceResumeFacts
<1>7. CASE EngineStops \/ ProcessDies
    BY <1>7, StoredUnchanged DEF EngineStops, ProcessDies
<1>8. CASE Redeploy
  <2>1. /\ disk' = NoCopy /\ mem' = mem /\ redis' = redis
        /\ behind' = behind \cup {"disk"}
      BY <1>8 DEF Redeploy
  <2>2. NoCopy \in GoodCopies
      BY DEF GoodCopies
  <2>. QED
      BY <2>1, <2>2
         DEF Stored, GuardianTyped, State, GoodStates, Durable, Copy, SameRisk, Places
<1>9. CASE PlacesChange \/ Tick
    BY <1>9, StoredUnchanged DEF PlacesChange, Tick
<1>10. CASE UNCHANGED vars
    BY <1>10, StoredUnchanged DEF vars, stores
<1>. QED
    BY <1>1, <1>2, <1>3, <1>4, <1>5, <1>6, <1>7, <1>8, <1>9, <1>10 DEF Next

(* The invariant is inductive. *)
LEMMA NextIInv == IInv /\ [Next]_vars => IInv'
    BY ScalarsKept, StoredKept DEF IInv

(* The inductive invariant holds in every reachable state. *)
THEOREM Invariance == Spec => []IInv
    BY InitIInv, NextIInv, PTL DEF Spec

(* Type correctness: whatever account figures, limits, requests and        *)
(* restarts come, guardian and copies stay well formed.                    *)
THEOREM TypeCorrect == Spec => []TypeOK
    BY Invariance, IInvTypeOK, PTL

(* A manual reset excuses the loss of its own daily window, in memory and  *)
(* in every copy a start may read (_maybe_day_reset, reset_halt and        *)
(* initialize never leave a baseline behind that belongs to another day).  *)
THEOREM BaselineAlwaysConsistent == Spec => []BaselineConsistent
    BY Invariance, IInvBaseline, PTL

(* Nothing the guardian decides is left unsaved, over every composition of *)
(* its methods that live_loop.py and server.py make: Redis and the file    *)
(* each hold what is in memory unless their own last write failed, a start *)
(* took over another copy, or the file went with a redeploy.               *)
THEOREM AlwaysDurable == Spec => []Durable
<1>1. IInv => Durable
    BY DEF IInv, Stored
<1>. QED
    BY <1>1, Invariance, PTL

(* A halt leaves a running engine only by an applied reset or, for a       *)
(* daily-loss halt, on a later day.                                        *)
THEOREM HaltAlwaysSticky == Spec => HaltIsSticky
<1>. DEFINE lifted ==
               engine = "up" /\ engine' = "up" /\ mem.halt # "none" /\ mem'.halt = "none"
            excused ==
               \/ \E r \in Requests \cup {NoRequest}, a \in Accounts :
                     ResetApplied(r, a)
               \/ mem.halt = "daily" /\ Today > mem.lastDay
<1>. USE DEF Expired
<1>1. ASSUME IInv, Next, lifted PROVE excused
  <2>. USE <1>1
  <2>1. Scalars /\ Stored
      BY DEF IInv, Stored
  <2>2. CASE SomeBar
      BY <2>1, <2>2, BarFacts DEF SomeBar
  <2>3. CASE Reset
    <3>1. ASSUME NEW r \in Requests \cup {NoRequest}, ResetWithoutAccount(r)
          PROVE  mem' = mem
        BY <3>1 DEF ResetWithoutAccount, stores
    <3>. QED
        BY <2>1, <2>3, <3>1, ResetWhileRunningFacts, ResetRefusedFacts DEF Reset
  <2>4. CASE \E l \in Limits : UpdateRisk(l)
      BY <2>1, <2>4, UpdateRiskFacts
  <2>5. CASE \E rebase \in BOOLEAN, a \in Accounts : ForceResume(rebase, a)
      BY <2>1, <2>5, ForceResumeFacts
  <2>6. CASE Start
      BY <2>6 DEF Start, StartRestored, StartFresh, StartBlind
  <2>7. CASE \/ PauseCommand \/ ResumeCommand \/ EngineStops
             \/ ProcessDies \/ Redeploy \/ PlacesChange \/ Tick
      BY <2>7 DEF PauseCommand, ResumeCommand, EngineStops, ProcessDies,
                  Redeploy, PlacesChange, Tick, stores
  <2>. QED
      BY <2>2, <2>3, <2>4, <2>5, <2>6, <2>7 DEF Next
<1>2. IInv /\ [Next]_vars => [lifted => excused]_vars
    BY <1>1
<1>. HIDE DEF lifted, excused
<1>3. [][Next]_vars /\ []IInv => [][lifted => excused]_vars
    BY <1>2, PTL
<1>. QED
    BY <1>3, Invariance, PTL DEF Spec, HaltIsSticky, lifted, excused

-----------------------------------------------------------------------------
(* The high-water mark.                                                    *)

(* A new day moves the window and leaves the mark. *)
LEMMA DayResetPeak ==
    ASSUME NEW s \in GoodStates, NEW b \in Nat, NEW d \in Nat, NEW n \in Nat,
           NEW up
    PROVE  LET t == DayReset(s, b, d, n, up)
           IN  /\ t.mem.peak = s.mem.peak
               /\ t.mem.lastDay = IF d > s.mem.lastDay THEN d ELSE s.mem.lastDay
               /\ ~(d > s.mem.lastDay) => t = s
    BY DEF DayReset, Save, GoodStates, GoodMemories, Memories

(* Raising the mark raises it to the equity at least. *)
LEMMA RaisePeakPeak ==
    ASSUME NEW s \in GoodStates, NEW e \in Nat, NEW n \in Nat, NEW up
    PROVE  LET t == RaisePeak(s, e, n, up)
           IN  /\ t.mem.peak >= s.mem.peak /\ t.mem.peak >= e
               /\ t.mem.baseline = s.mem.baseline
    BY DEF RaisePeak, Save, GoodStates, GoodMemories, Memories

(* What baseline is left is one of today. *)
LEMMA ExpireBaselinePeak ==
    ASSUME NEW s \in GoodStates, NEW d \in Nat, NEW n \in Nat, NEW up
    PROVE  LET t == ExpireBaseline(s, d, n, up)
           IN  /\ t.mem.peak = s.mem.peak
               /\ t.mem.baseline.active => t.mem.baseline.day = d
               /\ ~(s.mem.baseline.active /\ s.mem.baseline.day # d) => t = s
    BY BlankBaseline DEF ExpireBaseline, Save, GoodStates, GoodMemories, Memories

(* What _trigger lets pass neither layer objects to. *)
LEMMA TriggerPeak ==
    ASSUME NEW s \in GoodStates, NEW b \in Nat, NEW e \in Nat, NEW n \in Nat,
           NEW up
    PROVE  LET t == Trigger(s, b, e, n, up)
           IN  /\ t.mem.peak = s.mem.peak /\ t.mem.lastDay = s.mem.lastDay
               /\ t.mem.baseline = s.mem.baseline
               /\ t.mem.halt = "none" =>
                      /\ t = s
                      /\ ~DailyLossReached(s.mem, b) /\ ~DrawdownReached(s.mem, e)
<1>. DEFINE set(h) == Save([s EXCEPT !.mem.halt = h], n, up)
<1>1. ASSUME NEW h \in {"daily", "drawdown"}
      PROVE  /\ set(h).mem.peak = s.mem.peak /\ set(h).mem.lastDay = s.mem.lastDay
             /\ set(h).mem.baseline = s.mem.baseline /\ set(h).mem.halt # "none"
    BY <1>1 DEF Save, GoodStates, GoodMemories, Memories
<1>2. \/ /\ Trigger(s, b, e, n, up) = s
         /\ \/ s.mem.halt # "none"
            \/ ~DailyLossReached(s.mem, b) /\ ~DrawdownReached(s.mem, e)
      \/ Trigger(s, b, e, n, up) \in {set("daily"), set("drawdown")}
    BY DEF Trigger
<1>. HIDE DEF set
<1>. QED
    BY <1>1, <1>2

(* check raises the mark at most, and what it lets pass is inside the      *)
(* limits of the day.                                                      *)
Passed(s, t, b, e, d) ==
    /\ t.mem.peak >= s.mem.peak
    /\ t.mem.lastDay = IF d > s.mem.lastDay THEN d ELSE s.mem.lastDay
    /\ t.mem.baseline.active => t.mem.baseline.day = d
    /\ s.mem.lastDay = d /\ s.mem.baseline.active /\ s.mem.baseline.day = d
           => t.mem.baseline = s.mem.baseline
    /\ t.mem.halt = "none" =>
           /\ t.mem \in GoodMemories /\ t.mem.peak >= e
           /\ ~DailyLossReached(t.mem, b) /\ ~DrawdownReached(t.mem, e)

(* The four parts of check, one after the other. *)
LEMMA CheckPasses ==
    ASSUME NEW s \in GoodStates, NEW b \in Nat, NEW e \in Nat,
           NEW d \in Nat, NEW n \in Nat, NEW up, s.mem.initialized
    PROVE  Passed(s, Check(s, b, e, d, n, up), b, e, d)
<1>. DEFINE s1 == DayReset(s, b, d, n, up)
            s2 == RaisePeak(s1, e, n, up)
            s3 == ExpireBaseline(s2, d, n, up)
            t  == Trigger(s3, b, e, n, up)
<1>1. Check(s, b, e, d, n, up) = t
    BY DEF Check
<1>2. /\ s1.mem.peak = s.mem.peak
      /\ s1.mem.lastDay = IF d > s.mem.lastDay THEN d ELSE s.mem.lastDay
      /\ ~(d > s.mem.lastDay) => s1 = s
      /\ s1 \in GoodStates
    <2>1. RolledOver(s, s1, d, up)
        BY DayResetFacts
    <2>2. s1 \in GoodStates
        BY <2>1 DEF RolledOver, Kept
    <2>. QED
        BY <2>2, DayResetPeak
<1>. HIDE DEF s1
<1>3. /\ s2.mem.peak >= s1.mem.peak /\ s2.mem.peak >= e
      /\ s2.mem.baseline = s1.mem.baseline
      /\ s2 \in GoodStates /\ s2.mem.lastDay = s1.mem.lastDay
    <2>1. s1 \in GoodStates
        BY <1>2
    <2>. HIDE DEF s2
    <2>2. MarksMoved(s1, s2, up)
        BY <2>1, RaisePeakFacts DEF s2
    <2>3. s2.mem.peak >= s1.mem.peak /\ s2.mem.peak >= e /\ s2.mem.baseline = s1.mem.baseline
        BY <2>1, RaisePeakPeak DEF s2
    <2>4. s2 \in GoodStates /\ s2.mem.lastDay = s1.mem.lastDay
        BY <2>2 DEF MarksMoved, Kept, SameHaltAndDay
    <2>. QED
        BY <2>3, <2>4
<1>. HIDE DEF s2
<1>4. /\ s3.mem.peak = s2.mem.peak
      /\ s3.mem.baseline.active => s3.mem.baseline.day = d
      /\ ~(s2.mem.baseline.active /\ s2.mem.baseline.day # d) => s3 = s2
      /\ s3 \in GoodStates /\ s3.mem.lastDay = s2.mem.lastDay
    <2>1. s2 \in GoodStates
        BY <1>3
    <2>. HIDE DEF s3
    <2>2. MarksMoved(s2, s3, up)
        BY <2>1, ExpireBaselineFacts DEF s3
    <2>3. /\ s3.mem.peak = s2.mem.peak
          /\ s3.mem.baseline.active => s3.mem.baseline.day = d
          /\ ~(s2.mem.baseline.active /\ s2.mem.baseline.day # d) => s3 = s2
        BY <2>1, ExpireBaselinePeak DEF s3
    <2>4. s3 \in GoodStates /\ s3.mem.lastDay = s2.mem.lastDay
        BY <2>2 DEF MarksMoved, Kept, SameHaltAndDay
    <2>. QED
        BY <2>3, <2>4
<1>. HIDE DEF s3
<1>5. /\ t.mem.peak = s3.mem.peak /\ t.mem.lastDay = s3.mem.lastDay
      /\ t.mem.baseline = s3.mem.baseline
      /\ t.mem.halt = "none" =>
             /\ t = s3
             /\ ~DailyLossReached(s3.mem, b) /\ ~DrawdownReached(s3.mem, e)
    BY <1>4, TriggerPeak
<1>. HIDE DEF t
<1>6. t.mem.peak >= s.mem.peak /\ t.mem.peak >= e
    BY <1>2, <1>3, <1>4, <1>5
<1>7. s.mem.lastDay = d /\ s.mem.baseline.active /\ s.mem.baseline.day = d
          => t.mem.baseline = s.mem.baseline
    <2>. SUFFICES ASSUME s.mem.lastDay = d, s.mem.baseline.active, s.mem.baseline.day = d
                  PROVE  t.mem.baseline = s.mem.baseline
        OBVIOUS
    <2>1. s1 = s
        BY <1>2
    <2>2. s2.mem.baseline = s.mem.baseline
        BY <1>3, <2>1
    <2>3. s3 = s2
        BY <1>4, <2>2
    <2>. QED
        BY <1>5, <2>2, <2>3
<1>8. s3.mem \in GoodMemories
    BY <1>4 DEF GoodStates
<1>. QED
    BY <1>1, <1>2, <1>3, <1>4, <1>5, <1>6, <1>7, <1>8 DEF Passed

(* A reset that returns False has at most opened the window of a new day.  *)
LEMMA RefusedReset ==
    ASSUME NEW s, NEW b, NEW e, NEW r, NEW d, NEW n, NEW up,
           ~ResetReturns(s.mem, b, e, r, d), s \in GoodStates,
           b \in Nat, d \in Nat, n \in Nat
    PROVE  ResetHalt(s, b, e, r, d, n, up) \in {s, DayReset(s, b, d, n, up)}
<1>. DEFINE q == DayReset(s, b, d, n, up)
<1>1. ResetConsidered(s.mem, b, e, r) => Expired(s.mem, d)
    BY DEF ResetReturns, Expired
<1>2. Expired(s.mem, d) => q.mem.halt = "none"
    BY DEF Expired, DayReset, Save, GoodStates, GoodMemories, Memories
<1>. QED
    BY <1>1, <1>2 DEF ResetHalt

(* A reset that returns True leaves the request's own baseline of today.   *)
ResetFor(t, r, d) ==
    /\ t.mem.lastDay = d /\ t.mem.initialized
    /\ t.mem.baseline.active /\ t.mem.baseline.day = d
    /\ t.mem.baseline.request = r

(* reset_halt, where it returns True. *)
LEMMA AppliedReset ==
    ASSUME NEW s \in GoodStates, NEW b \in Nat, NEW e \in Nat,
           NEW r \in Requests \cup {NoRequest},
           NEW d \in Nat, NEW n \in Nat, NEW up,
           ResetReturns(s.mem, b, e, r, d)
    PROVE  ResetFor(ResetHalt(s, b, e, r, d, n, up), r, d)
<1>. DEFINE q == DayReset(s, b, d, n, up)
            t == ResetHalt(s, b, e, r, d, n, up)
<1>1. ResetConsidered(s.mem, b, e, r) /\ s.mem.halt # "none" /\ s.mem.initialized
      /\ ~(d > s.mem.lastDay /\ s.mem.halt = "daily")
    BY DEF ResetReturns, ResetConsidered
<1>2. q.mem.halt = s.mem.halt /\ q.mem.initialized /\ q \in GoodStates
    <2>1. RolledOver(s, q, d, up)
        BY DayResetFacts
    <2>. HIDE DEF q, t
    <2>. QED
        BY <1>1, <2>1 DEF RolledOver, Expired, Kept
<1>3. t = Save([q EXCEPT !.mem.baseline = [active |-> TRUE, day |-> d,
                              realized |-> b - q.mem.dayOpen, balance |-> b, request |-> r],
                         !.mem.peak = e, !.mem.lastDay = d, !.mem.halt = "none"], n, up)
    BY <1>1, <1>2 DEF ResetHalt
<1>. HIDE DEF q, t
<1>4. /\ t.mem.lastDay = d /\ t.mem.initialized
      /\ t.mem.baseline.active /\ t.mem.baseline.day = d /\ t.mem.baseline.request = r
    <2>1. q.mem \in Memories
        BY <1>2 DEF GoodStates, GoodMemories
    <2>2. t.mem = [q.mem EXCEPT !.baseline = [active |-> TRUE, day |-> d,
                              realized |-> b - q.mem.dayOpen, balance |-> b, request |-> r],
                         !.peak = e, !.lastDay = d, !.halt = "none"]
        BY <1>2, <1>3 DEF Save, GoodStates
    <2>. QED
        BY <1>2, <2>1, <2>2 DEF Memories
<1>. QED
    BY <1>4 DEF t, ResetFor

(* A bar leaves the mark of an initialized guardian where it is or raises  *)
(* it, and a bar that leaves it unhalted has measured both losses.         *)
LEMMA BarPasses ==
    ASSUME Scalars, Stored, NEW a \in Accounts
    PROVE  /\ AfterBar(a).mem.lastDay = IF mem.initialized /\ ~(Today > mem.lastDay)
                                        THEN mem.lastDay ELSE Today
           /\ mem.initialized => AfterBar(a).mem.peak >= mem.peak
           /\ AfterBar(a).mem.baseline.active => AfterBar(a).mem.baseline.day = Today
           /\ AfterBar(a).mem.halt = "none" =>
                  /\ AfterBar(a).mem \in GoodMemories /\ AfterBar(a).mem.peak >= a.equity
                  /\ ~DailyLossReached(AfterBar(a).mem, a.balance)
                  /\ ~DrawdownReached(AfterBar(a).mem, a.equity)
<1>. DEFINE i == GuardianInitialize(State, a)
            b == IF mem.initialized THEN State ELSE i
            t == GuardianCheck(b, a)
<1>1. /\ a.balance \in Nat /\ a.equity \in Nat
      /\ Today \in Nat /\ now \in Nat
      /\ State \in GoodStates /\ State.mem = mem
    BY CallArguments, StateGood DEF State
<1>2. Initialized(State, i, Today, working)
    BY <1>1, CallFacts
<1>3. AfterBar(a) = t
    BY DEF AfterBar
<1>. HIDE DEF i
<1>4. b \in GoodStates /\ b.mem.initialized
      /\ (mem.initialized => b.mem = mem) /\ (~mem.initialized => b.mem.lastDay = Today)
    BY <1>1, <1>2 DEF Initialized, Kept
<1>. HIDE DEF b
<1>5. t = Check(b, a.balance, a.equity, Today, now, working)
    BY DEF GuardianCheck
<1>. HIDE DEF t
<1>6. Passed(b, Check(b, a.balance, a.equity, Today, now, working),
             a.balance, a.equity, Today)
    BY <1>1, <1>4, CheckPasses
<1>. QED
    BY <1>1, <1>3, <1>4, <1>5, <1>6 DEF Passed

(* A reset that is refused leaves the mark. *)
LEMMA RefusedKeepsPeak ==
    ASSUME Scalars, Stored, NEW r \in Requests \cup {NoRequest}, NEW a \in Accounts,
           ResetRefused(r, a)
    PROVE  mem'.peak = mem.peak /\ mem'.lastDay \in {mem.lastDay, Today}
<1>. DEFINE t == ResetHalt(State, a.balance, a.equity, r, Today, now, working)
            q == DayReset(State, a.balance, Today, now, working)
<1>1. /\ a.balance \in Nat /\ Today \in Nat /\ now \in Nat
      /\ State \in GoodStates /\ State.mem = mem
    BY CallArguments, StateGood DEF State
<1>2. mem' = t.mem /\ ~ResetReturns(State.mem, a.balance, a.equity, r, Today)
    BY <1>1 DEF ResetRefused, GuardianReset, Becomes
<1>3. t \in {State, q}
    BY <1>1, <1>2, RefusedReset
<1>4. q.mem.peak = mem.peak /\ q.mem.lastDay \in {mem.lastDay, Today}
    BY <1>1, DayResetPeak
<1>. HIDE DEF t, q
<1>. QED
    BY <1>1, <1>2, <1>3, <1>4

(* A reset without a halt answers with the baseline of today, if any. *)
LEMMA RunningResetFacts ==
    ASSUME Scalars, Stored, NEW r \in Requests \cup {NoRequest}, ResetWhileRunning(r)
    PROVE  /\ mem'.peak = mem.peak /\ mem'.lastDay = mem.lastDay
           /\ mem' \in GoodMemories
           /\ mem'.baseline.active => mem'.baseline.day = Today
           /\ receipt' = [request |-> r,
                          status |-> IF r # NoRequest /\ r = mem'.baseline.request
                                     THEN "applied" ELSE "ignored"]
<1>. DEFINE t == ExpireBaseline(State, Today, now, working)
<1>1. /\ Today \in Nat /\ now \in Nat
      /\ State \in GoodStates /\ State.mem = mem
    BY TodayNat, StateGood DEF Scalars, State
<1>2. MarksMoved(State, t, working)
    BY <1>1, ExpireBaselineFacts
<1>3. t.mem.peak = mem.peak /\ (t.mem.baseline.active => t.mem.baseline.day = Today)
    BY <1>1, ExpireBaselinePeak
<1>4. mem' = t.mem
      /\ receipt' = [request |-> r, status |-> IF r # NoRequest /\ r = t.mem.baseline.request
                                               THEN "applied" ELSE "ignored"]
    BY DEF ResetWhileRunning, Becomes, Answer
<1>. HIDE DEF t
<1>. QED
    BY <1>1, <1>2, <1>3, <1>4 DEF MarksMoved, Kept, SameHaltAndDay, GoodStates

(* The check that follows a reset leaves the baseline the reset made.      *)
LEMMA AppliedResetFacts ==
    ASSUME Scalars, Stored, NEW r \in Requests \cup {NoRequest}, NEW a \in Accounts,
           ResetApplied(r, a)
    PROVE  /\ mem'.baseline.active /\ mem'.baseline.day = Today
           /\ mem'.baseline.request = r /\ mem'.lastDay = Today
           /\ receipt' = [request |-> r, status |-> "applied"]
<1>. DEFINE q == GuardianReset(State, a, r)
            t == GuardianCheck(q, a)
<1>1. /\ a.balance \in Nat /\ a.equity \in Nat
      /\ Today \in Nat /\ now \in Nat
      /\ State \in GoodStates /\ State.mem = mem
    BY CallArguments, StateGood DEF State
<1>2. /\ mem' = t.mem /\ receipt' = [request |-> r, status |-> "applied"]
      /\ ResetReturns(State.mem, a.balance, a.equity, r, Today)
    BY <1>1 DEF ResetApplied, Becomes, Answer
<1>3. ResetFor(q, r, Today)
    <2>1. ResetFor(ResetHalt(State, a.balance, a.equity, r, Today, now, working), r, Today)
        BY <1>1, <1>2, AppliedReset
    <2>. QED
        BY <2>1 DEF GuardianReset
<1>4. q \in GoodStates
    BY <1>1, ResetCallFacts DEF Kept
<1>. HIDE DEF q
<1>5. t = Check(q, a.balance, a.equity, Today, now, working)
    BY DEF GuardianCheck
<1>. HIDE DEF t
<1>6. Passed(q, Check(q, a.balance, a.equity, Today, now, working),
             a.balance, a.equity, Today)
    BY <1>1, <1>3, <1>4, CheckPasses DEF ResetFor
<1>7. t.mem.baseline = q.mem.baseline /\ t.mem.lastDay = Today
    BY <1>1, <1>3, <1>5, <1>6 DEF Passed, ResetFor
<1>. QED
    BY <1>2, <1>3, <1>7 DEF ResetFor

(* A forced resume without a rebase leaves the guardian alone. *)
LEMMA ForceKeepsPeak ==
    ASSUME Scalars, Stored, NEW rebase \in BOOLEAN, NEW a \in Accounts,
           ForceResume(rebase, a)
    PROVE  /\ ~rebase => mem'.peak = mem.peak
           /\ mem'.lastDay \in {mem.lastDay, Today}
<1>. DEFINE i == GuardianInitialize(State, a)
            t == IF rebase /\ a.balance > 0 THEN i ELSE State
<1>1. State \in GoodStates /\ State.mem = mem
    BY StateGood DEF State
<1>2. ResetHalt(t, 0, 0, NoRequest, Today, now, working) = t
    BY DEF ResetHalt, ResetConsidered
<1>3. mem' = t.mem
    BY <1>2 DEF ForceResume, Becomes
<1>4. Initialized(State, i, Today, working)
    BY <1>1, CallFacts
<1>. HIDE DEF i
<1>. QED
    BY <1>1, <1>3, <1>4 DEF Initialized

-----------------------------------------------------------------------------
(* What the windows and the copies have in common with the clock, and      *)
(* with each other once the engine is gone.                                *)

(* No window, in memory or in a copy, was opened on a day to come. *)
OnTime ==
    /\ mem.lastDay <= Today
    /\ disk.present => disk.mem.lastDay <= Today
    /\ redis.present => redis.mem.lastDay <= Today

RiskInv == IInv /\ OnTime

(* Days pass with the clock. *)
LEMMA LaterDay ==
    ASSUME NEW i \in Nat, NEW j \in Nat, i <= j, NEW k \in Nat \ {0}
    PROVE  i \div k <= j \div k
    OBVIOUS

(* A method that opens no window but today's leaves every copy in time.    *)
LEMMA BecomesOnTime ==
    ASSUME OnTime, NEW s, NEW t, s.disk = disk, s.redis = redis,
           Kept(s, t, working), Becomes(t), t.mem.lastDay <= Today, now' = now
    PROVE  OnTime'
<1>1. mem' = t.mem /\ disk' = t.disk /\ redis' = t.redis /\ Today' = Today
    BY DEF Becomes, Today
<1>2. CASE t = s
    BY <1>1, <1>2 DEF OnTime
<1>3. CASE t # s
    BY <1>1, <1>3 DEF OnTime, Kept, SavedOrSame, Took
<1>. QED
    BY <1>2, <1>3

(* A start takes over a window of the past or opens one today. *)
LEMMA StartOnTime ==
    ASSUME Scalars, Stored, OnTime, Start
    PROVE  OnTime'
<1>. PICK known \in Summary :
         \/ StartRestored(known)
         \/ \E a \in Accounts : StartFresh(known, a)
         \/ StartBlind(known)
    BY DEF Start
<1>1. mem \in GoodMemories /\ disk \in GoodCopies /\ redis \in GoodCopies /\ Today \in Nat
    BY TodayNat DEF Scalars, Stored, GuardianTyped, State, GoodStates
<1>2. CASE StartRestored(known)
    <2>1. SavedCopy.present /\ SavedCopy \in {redis, disk}
        BY <1>2 DEF StartRestored, Restorable, SavedCopy
    <2>2. SavedCopy.mem \in GoodMemories /\ SavedCopy.mem.lastDay <= Today
        BY <1>1, <2>1, CopyMemory DEF OnTime
    <2>3. mem' = Restored(SavedCopy.mem, Identity(known), config)
          /\ disk' = disk /\ redis' = redis /\ now' = now
        BY <1>2 DEF StartRestored, world
    <2>4. Identity(known) \in Logins \cup {NoLogin} /\ config \in Limits
        BY IdentityType DEF Scalars
    <2>5. mem'.lastDay = SavedCopy.mem.lastDay
        BY <2>2, <2>3, <2>4, RestoredFacts DEF SameRisk
    <2>. QED
        BY <2>2, <2>3, <2>5 DEF OnTime, Today
<1>3. ASSUME NEW a \in Accounts, StartFresh(known, a) PROVE OnTime'
    <2>. DEFINE m == [New(config) EXCEPT !.login = Identity(known)]
                s == [State EXCEPT !.mem = m]
                t == GuardianInitialize(s, a)
    <2>1. m \in GoodMemories
        BY NewGood, IdentityType DEF Scalars
    <2>2. Becomes(t) /\ now' = now
        BY <1>3 DEF StartFresh, world
    <2>. HIDE DEF m
    <2>3. s \in GoodStates /\ s.disk = disk /\ s.redis = redis
        BY <2>1 DEF Stored, GuardianTyped, GoodStates, State
    <2>. HIDE DEF s
    <2>4. Initialized(s, t, Today, working)
        BY <2>3, CallFacts
    <2>. HIDE DEF t
    <2>. QED
        BY <1>1, <2>2, <2>3, <2>4, BecomesOnTime DEF Initialized
<1>4. CASE StartBlind(known)
    <2>1. /\ mem' = [New(config) EXCEPT !.login = Identity(known)]
          /\ disk' = disk /\ redis' = redis /\ now' = now
        BY <1>4 DEF StartBlind, world
    <2>2. mem'.lastDay = -1
        BY <2>1 DEF New
    <2>. QED
        BY <1>1, <2>1, <2>2 DEF OnTime, Today
<1>. QED
    BY <1>2, <1>3, <1>4

(* No step opens a window of a day to come. *)
LEMMA OnTimeInductive ==
    ASSUME Scalars, Stored, OnTime, [Next]_vars
    PROVE  OnTime'
<1>1. /\ mem \in GoodMemories /\ State \in GoodStates /\ State.disk = disk
      /\ State.redis = redis /\ State.mem = mem /\ Today \in Nat
    BY TodayNat DEF Scalars, Stored, GuardianTyped, State, GoodStates
<1>2. mem.lastDay <= Today /\ Today <= Today
    BY <1>1 DEF OnTime
<1>3. CASE Start
    BY <1>3, StartOnTime
<1>4. ASSUME NEW a \in Accounts, Bar(a) PROVE OnTime'
    <2>1. Becomes(AfterBar(a)) /\ now' = now
        BY <1>4 DEF Bar, world
    <2>2. AfterBar(a).mem.lastDay <= Today
        BY <1>2, BarPasses
    <2>. DEFINE i == GuardianInitialize(State, a)
                b == IF mem.initialized THEN State ELSE i
    <2>3. Kept(State, i, working)
        BY <1>1, CallFacts DEF Initialized
    <2>. HIDE DEF i
    <2>4. Kept(State, b, working) /\ b \in GoodStates
        BY <1>1, <2>3, KeptSame DEF Kept
    <2>5. AfterBar(a) = GuardianCheck(b, a)
        BY DEF AfterBar, i
    <2>. HIDE DEF b
    <2>6. Kept(b, AfterBar(a), working)
        BY <2>4, <2>5, CallFacts DEF Checked
    <2>7. Kept(State, AfterBar(a), working)
        BY <1>1, <2>4, <2>6, SavedTransitive
    <2>. QED
        BY <1>1, <2>1, <2>2, <2>7, BecomesOnTime
<1>5. ASSUME NEW r \in Requests \cup {NoRequest}, ResetWhileRunning(r) PROVE OnTime'
    <2>. DEFINE t == ExpireBaseline(State, Today, now, working)
    <2>1. Becomes(t) /\ now' = now /\ now \in Nat
        BY <1>5 DEF ResetWhileRunning, world, Scalars
    <2>2. MarksMoved(State, t, working)
        BY <1>1, <2>1, ExpireBaselineFacts
    <2>. HIDE DEF t
    <2>. QED
        BY <1>1, <1>2, <2>1, <2>2, BecomesOnTime DEF MarksMoved, SameHaltAndDay
<1>6. ASSUME NEW r \in Requests \cup {NoRequest}, NEW a \in Accounts, ResetApplied(r, a)
      PROVE  OnTime'
    <2>. DEFINE q == GuardianReset(State, a, r)
                t == GuardianCheck(q, a)
    <2>1. Becomes(t) /\ now' = now /\ mem' = t.mem
        BY <1>6 DEF ResetApplied, world, Becomes
    <2>2. Kept(State, q, working) /\ q \in GoodStates
        BY <1>1, ResetCallFacts DEF Kept
    <2>. HIDE DEF q
    <2>3. Kept(q, t, working)
        BY <2>2, CallFacts DEF Checked
    <2>. HIDE DEF t
    <2>4. Kept(State, t, working)
        BY <1>1, <2>2, <2>3, SavedTransitive
    <2>5. t.mem.lastDay = Today
        BY <1>6, <2>1, AppliedResetFacts
    <2>. QED
        BY <1>1, <1>2, <2>1, <2>4, <2>5, BecomesOnTime
<1>7. ASSUME NEW r \in Requests \cup {NoRequest}, NEW a \in Accounts, ResetRefused(r, a)
      PROVE  OnTime'
    <2>. DEFINE t == GuardianReset(State, a, r)
    <2>1. Becomes(t) /\ now' = now /\ mem' = t.mem
        BY <1>7 DEF ResetRefused, world, Becomes
    <2>2. Kept(State, t, working)
        BY <1>1, ResetCallFacts
    <2>. HIDE DEF t
    <2>3. t.mem.lastDay <= Today
        BY <1>2, <1>7, <2>1, RefusedKeepsPeak
    <2>. QED
        BY <1>1, <2>1, <2>2, <2>3, BecomesOnTime
<1>8. ASSUME NEW l \in Limits, UpdateRisk(l) PROVE OnTime'
    <2>1. /\ mem' = [mem EXCEPT !.limits = l] /\ disk' = disk /\ redis' = redis /\ now' = now
        BY <1>8 DEF UpdateRisk, world
    <2>2. mem'.lastDay = mem.lastDay
        BY <1>1, <2>1 DEF GoodMemories, Memories
    <2>. QED
        BY <2>1, <2>2 DEF OnTime, Today
<1>9. ASSUME NEW rebase \in BOOLEAN, NEW a \in Accounts, ForceResume(rebase, a)
      PROVE  OnTime'
    <2>. DEFINE i == GuardianInitialize(State, a)
                t == IF rebase /\ a.balance > 0 THEN i ELSE State
    <2>1. ResetHalt(t, 0, 0, NoRequest, Today, now, working) = t
        BY DEF ResetHalt, ResetConsidered
    <2>2. Becomes(t) /\ now' = now /\ mem' = t.mem
        BY <1>9, <2>1 DEF ForceResume, Becomes, world
    <2>3. Kept(State, i, working)
        BY <1>1, CallFacts DEF Initialized
    <2>. HIDE DEF i
    <2>4. Kept(State, t, working)
        BY <1>1, <2>3, KeptSame
    <2>. HIDE DEF t
    <2>5. t.mem.lastDay <= Today
        BY <1>2, <1>9, <2>2, ForceKeepsPeak
    <2>. QED
        BY <1>1, <2>2, <2>4, <2>5, BecomesOnTime
<1>10. CASE Tick
    <2>1. now \in Nat /\ now' = now + 1 /\ UNCHANGED stores
        BY <1>10 DEF Tick, Scalars
    <2>2. Today <= Today' /\ Today' \in Nat
        BY <2>1, LaterDay, ClockAssumption DEF Today
    <2>3. disk \in GoodCopies /\ redis \in GoodCopies
        BY DEF Stored, GuardianTyped, State, GoodStates
    <2>4. /\ mem.lastDay \in Int
          /\ disk.present => disk.mem.lastDay \in Int
          /\ redis.present => redis.mem.lastDay \in Int
        BY <1>1, <2>3, CopyMemory DEF GoodMemories, Memories
    <2>. QED
        BY <1>1, <2>1, <2>2, <2>4 DEF OnTime, stores
<1>11. ASSUME \/ PauseCommand \/ ResumeCommand \/ EngineStops \/ ProcessDies
              \/ PlacesChange \/ UNCHANGED vars
              \/ \E r \in Requests \cup {NoRequest} : ResetWithoutAccount(r)
       PROVE  OnTime'
    <2>1. UNCHANGED <<now, stores>>
        BY <1>11 DEF PauseCommand, ResumeCommand, EngineStops, ProcessDies, PlacesChange,
            ResetWithoutAccount, vars, stores, world
    <2>. QED
        BY <2>1 DEF OnTime, stores, Today
<1>12. CASE Redeploy
    BY <1>12 DEF Redeploy, OnTime, Today, NoCopy
<1>13. SomeBar \/ Reset => OnTime'
    BY <1>4, <1>5, <1>6, <1>7, <1>11 DEF SomeBar, Reset
<1>. QED
    BY <1>3, <1>8, <1>9, <1>10, <1>11, <1>12, <1>13 DEF Next

(* The invariant with what it says of clock and copies. *)
LEMMA RiskInvariance == Spec => []RiskInv
<1>1. Init => OnTime
    <2>. SUFFICES ASSUME Init PROVE OnTime
        OBVIOUS
    <2>1. Today \in Nat
        BY TodayNat DEF Init
    <2>. QED
        BY <2>1 DEF Init, OnTime, New, NoCopy
<1>2. IInv /\ OnTime /\ [Next]_vars => OnTime'
    BY OnTimeInductive DEF IInv
<1>. QED
    BY Invariance, <1>1, <1>2, PTL DEF Spec, RiskInv

(* What neither layer of _trigger objects to is inside both limits. *)
LEMMA InsideLimits ==
    ASSUME NEW m \in GoodMemories, NEW a \in Accounts, m.lastDay = Today, m.peak >= a.equity,
           ~DailyLossReached(m, a.balance), ~DrawdownReached(m, a.equity)
    PROVE  WithinLimits(m, a)
<1>1. a.balance \in Nat /\ a.equity \in Nat
    BY AccountFields
<1>2. /\ m.limits.daily \in Nat /\ m.limits.drawdown \in Nat
      /\ m.peak \in Nat /\ m.dayOpen \in Nat /\ m.baseline \in Baselines
      /\ m.baseline.balance \in Nat /\ m.baseline.realized \in Int
    BY LimitsAssumption DEF GoodMemories, Memories, Baselines
<1>3. m.peak > 0 => 100 * (m.peak - a.equity) < m.limits.drawdown * m.peak
    <2>. DEFINE allowed == m.limits.drawdown * m.peak
    <2>1. allowed \in Int
        BY <1>2
    <2>2. m.peak > 0 => ~(100 * (m.peak - a.equity) >= allowed)
        BY DEF DrawdownReached
    <2>. HIDE DEF allowed
    <2>3. m.peak > 0 => 100 * (m.peak - a.equity) < allowed
        BY <1>1, <1>2, <2>1, <2>2
    <2>. QED
        BY <2>3 DEF allowed
<1>. DEFINE from == IF m.baseline.active THEN m.baseline.balance ELSE m.dayOpen
            pnl  == a.balance - m.dayOpen - m.baseline.realized
            lost == m.limits.daily * from
<1>4. from \in Nat /\ lost \in Int /\ pnl \in Int
    BY <1>1, <1>2
<1>5. from > 0 => ~(100 * pnl <= -lost)
    BY DEF DailyLossReached
<1>6. pnl = a.balance - from
    <2>1. CASE m.baseline.active
        BY <1>1, <1>2, <2>1 DEF GoodMemories, BaselineOK
    <2>2. CASE ~m.baseline.active
        BY <1>1, <1>2, <2>2 DEF GoodMemories, BaselineOK, NoBaseline
    <2>. QED
        BY <2>1, <2>2
<1>7. m.baseline.active => m.baseline.day = Today
    BY DEF GoodMemories, BaselineOK
<1>. HIDE DEF pnl, lost
<1>8. from > 0 => 100 * (from - a.balance) < lost
    <2>. HIDE DEF from
    <2>. QED
        BY <1>1, <1>4, <1>5, <1>6
<1>. QED
    BY <1>3, <1>7, <1>8 DEF WithinLimits, lost

(* A bar after which the guardian lets the engine trade has measured the   *)
(* loss of today's window and the pullback from the mark, and found both   *)
(* inside the limits, whatever resets, restarts and rollovers came before. *)
THEOREM LimitsAlwaysEnforced == Spec => []LimitsEnforced
<1>1. ASSUME IInv, OnTime PROVE LimitsEnforced
    <2>. SUFFICES ASSUME NEW a \in Accounts, AfterBar(a).mem.halt = "none"
                  PROVE  WithinLimits(AfterBar(a).mem, a)
        BY DEF LimitsEnforced
    <2>1. Scalars /\ Stored
        BY <1>1 DEF IInv, Stored
    <2>2. mem.lastDay <= Today /\ mem.lastDay \in Int /\ Today \in Nat
        BY <1>1, <2>1, TodayNat
            DEF OnTime, Scalars, Stored, GuardianTyped, State, GoodStates, GoodMemories, Memories
    <2>3. AfterBar(a).mem.lastDay = Today
        BY <2>1, <2>2, BarPasses
    <2>. QED
        BY <2>1, <2>3, BarPasses, InsideLimits
<1>. QED
    BY RiskInvariance, <1>1, PTL DEF RiskInv

(* The mark falls only where the operator asked for a new reference.       *)
THEOREM PeakOnlyReset == Spec => PeakFallsOnlyOnReset
<1>. DEFINE fell ==
               engine = "up" /\ engine' = "up" /\ mem.initialized /\ mem'.peak < mem.peak
            asked ==
               \/ \E r \in Requests \cup {NoRequest}, a \in Accounts : ResetApplied(r, a)
               \/ \E a \in Accounts : ForceResume(TRUE, a)
<1>1. ASSUME IInv, Next, fell PROVE asked
  <2>. USE <1>1
  <2>1. Scalars /\ Stored /\ mem.peak \in Nat
      BY DEF IInv, Stored, GuardianTyped, State, GoodStates, GoodMemories, Memories
  <2>2. ~(mem'.peak >= mem.peak) /\ mem'.peak # mem.peak
    <3>1. Stored'
        BY <2>1, StoredKept
    <3>2. mem'.peak \in Nat
        BY <3>1 DEF Stored, GuardianTyped, State, GoodStates, GoodMemories, Memories
    <3>. QED
        BY <2>1, <3>2
  <2>3. CASE SomeBar
      BY <2>1, <2>2, <2>3, BarPasses DEF SomeBar, Bar, Becomes
  <2>4. CASE Reset
    <3>1. ASSUME NEW r \in Requests \cup {NoRequest}, ResetWithoutAccount(r)
          PROVE  mem' = mem
        BY <3>1 DEF ResetWithoutAccount, stores
    <3>. QED
        BY <2>1, <2>2, <2>4, <3>1, RunningResetFacts, RefusedKeepsPeak DEF Reset
  <2>5. CASE \E l \in Limits : UpdateRisk(l)
    <3>1. mem \in Memories
        BY <2>1 DEF Stored, GuardianTyped, State, GoodStates, GoodMemories
    <3>. QED
        BY <2>2, <2>5, <3>1 DEF UpdateRisk, Memories
  <2>6. ASSUME NEW rebase \in BOOLEAN, NEW a \in Accounts, ForceResume(rebase, a)
        PROVE  asked
    <3>1. rebase = TRUE
        BY <2>1, <2>2, <2>6, ForceKeepsPeak
    <3>. QED
        BY <2>6, <3>1
  <2>7. CASE Start
      BY <2>7 DEF Start, StartRestored, StartFresh, StartBlind
  <2>8. CASE \/ PauseCommand \/ ResumeCommand \/ EngineStops
             \/ ProcessDies \/ Redeploy \/ PlacesChange \/ Tick
    <3>1. mem' = mem
        BY <2>8 DEF PauseCommand, ResumeCommand, EngineStops, ProcessDies,
                    Redeploy, PlacesChange, Tick, stores
    <3>. QED
        BY <2>2, <3>1
  <2>. QED
      BY <2>3, <2>4, <2>5, <2>6, <2>7, <2>8 DEF Next
<1>2. IInv /\ [Next]_vars => [fell => asked]_vars
    BY <1>1
<1>. HIDE DEF fell, asked
<1>3. [][Next]_vars /\ []IInv => [][fell => asked]_vars
    BY <1>2, PTL
<1>. QED
    BY <1>3, Invariance, PTL DEF Spec, PeakFallsOnlyOnReset, fell, asked

(* A baseline that names a request is in force. *)
LEMMA NamedBaseline ==
    ASSUME NEW m \in GoodMemories, m.baseline.request # NoRequest
    PROVE  m.baseline.active
    BY DEF GoodMemories, BaselineOK, NoBaseline

(* What the operator is told was applied is in force. *)
THEOREM AppliedIsInForce == Spec => AppliedMeansInForce
<1>. DEFINE told == receipt' # receipt /\ receipt'.status = "applied"
            force ==
               /\ mem'.baseline.active
               /\ mem'.baseline.request = receipt'.request
               /\ mem'.baseline.day = Today
<1>1. ASSUME IInv, Next, told PROVE force
  <2>. USE <1>1
  <2>1. Scalars /\ Stored
      BY DEF IInv, Stored
  <2>2. ASSUME NEW r \in Requests \cup {NoRequest}, ResetWhileRunning(r) PROVE force
    <3>1. r # NoRequest /\ r = mem'.baseline.request /\ receipt'.request = r
        BY <2>1, <2>2, RunningResetFacts
    <3>. QED
        BY <2>1, <2>2, <3>1, RunningResetFacts, NamedBaseline
  <2>3. ASSUME NEW r \in Requests \cup {NoRequest}, NEW a \in Accounts, ResetApplied(r, a)
        PROVE  force
      BY <2>1, <2>3, AppliedResetFacts
  <2>4. ASSUME NEW r \in Requests \cup {NoRequest},
               ResetWithoutAccount(r) \/ \E a \in Accounts : ResetRefused(r, a)
        PROVE  receipt'.status = "failed"
      BY <2>4 DEF ResetWithoutAccount, ResetRefused, Answer
  <2>5. CASE Reset
      BY <2>2, <2>3, <2>4, <2>5 DEF Reset
  <2>6. CASE Start
    <3>1. receipt' = NoReceipt
        BY <2>6 DEF Start, StartRestored, StartFresh, StartBlind
    <3>. QED
        BY <3>1 DEF NoReceipt
  <2>7. CASE ~Start /\ ~Reset
    <3>1. UNCHANGED receipt
        BY <2>7 DEF Next, SomeBar, Bar, PauseCommand, ResumeCommand, UpdateRisk, ForceResume,
            EngineStops, ProcessDies, Redeploy, PlacesChange, Tick
    <3>. QED
        BY <3>1
  <2>. QED
      BY <2>5, <2>6, <2>7
<1>2. IInv /\ [Next]_vars => [told => force]_vars
    BY <1>1
<1>. HIDE DEF told, force
<1>3. [][Next]_vars /\ []IInv => [][told => force]_vars
    BY <1>2, PTL
<1>. QED
    BY <1>3, Invariance, PTL DEF Spec, AppliedMeansInForce, told, force

(* A restart is not a way out of a halt: a start that finds the last copy  *)
(* in the place it reads first, in time and for its account, continues     *)
(* with the risk state the engine before it had, and paused if that was    *)
(* halted.                                                                 *)
THEOREM RestartKeepsRisk == Spec => RestartKeepsRiskState
<1>. DEFINE first == IF "redis" \in working THEN "redis" ELSE "disk"
            found ==
               /\ engine # "up" /\ engine' = "up"
               /\ mem.initialized /\ mem.peak > 0 /\ mem.session /\ mem.dayOpen > 0
               /\ HasLast(first)
            kept == SameRisk(mem', mem) /\ paused' = (mem.halt # "none")
<1>1. ASSUME IInv, Next, found PROVE kept
  <2>. USE <1>1
  <2>1. Start
      BY DEF Next, SomeBar, Bar, PauseCommand, ResumeCommand, Reset, ResetWhileRunning,
          ResetWithoutAccount, ResetApplied, ResetRefused, NewRequest, UpdateRisk,
          ForceResume, EngineStops, ProcessDies, Redeploy, PlacesChange, Tick
  <2>2. PICK known \in Summary :
            \/ StartRestored(known)
            \/ \E a \in Accounts : StartFresh(known, a)
            \/ StartBlind(known)
      BY <2>1 DEF Start
  <2>. DEFINE c == Copy(first)
  <2>3. c.present /\ Age(c) <= FreshFor /\ c.mem.login \in {login, NoLogin}
      BY DEF HasLast, Usable
  <2>4. SameRisk(mem, c.mem)
      BY DEF IInv, Stored, Durable, HasLast, Places
  <2>5. c \in GoodCopies /\ c.mem \in GoodMemories
      BY <2>3, CopyMemory DEF Copy, IInv, Stored, GuardianTyped, State, GoodStates
  <2>6. Age(c) <= RedisTtl
    <3>1. NoCopy.present = FALSE
        BY DEF NoCopy
    <3>. HIDE DEF c
    <3>2. c \in [present : {TRUE}, mem : GoodMemories, at : Nat]
        BY <2>3, <2>5, <3>1 DEF GoodCopies
    <3>3. c.at \in Nat /\ now \in Nat
        BY <3>2 DEF IInv, Scalars
    <3>. QED
        BY <2>3, <3>3, ClockAssumption DEF Age
  <2>7. SavedCopy = c
      BY <2>3, <2>6 DEF SavedCopy, Copy
  <2>. HIDE DEF c
  <2>8. RestoreAccepts(c.mem, Identity(known))
      BY <2>3, <2>4 DEF RestoreAccepts, SameRisk, Identity
  <2>9. Restorable(known)
      BY <2>3, <2>7, <2>8 DEF Restorable
  <2>10. StartRestored(known)
      BY <2>2, <2>9 DEF StartFresh, StartBlind
  <2>11. /\ mem' = Restored(c.mem, Identity(known), config)
         /\ paused' = (c.mem.halt # "none")
      BY <2>7, <2>10 DEF StartRestored
  <2>12. Identity(known) \in Logins \cup {NoLogin} /\ config \in Limits
      BY IdentityType DEF IInv, Scalars
  <2>13. SameRisk(mem', c.mem)
      BY <2>5, <2>11, <2>12, RestoredFacts
  <2>. QED
      BY <2>4, <2>11, <2>13 DEF SameRisk
<1>2. IInv /\ [Next]_vars => [found => kept]_vars
  <2>1. ASSUME UNCHANGED vars PROVE ~found
      BY <2>1 DEF vars
  <2>. QED
      BY <1>1, <2>1
<1>. HIDE DEF found, kept
<1>3. [][Next]_vars /\ []IInv => [][found => kept]_vars
    BY <1>2, PTL
<1>. QED
    BY <1>3, Invariance, PTL DEF Spec, RestartKeepsRiskState, found, kept
=============================================================================

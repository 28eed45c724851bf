---------------------------- MODULE TimerProofs -----------------------------
(***************************************************************************)
(* The timers keep the promise of Deadlines for any number of timers, any  *)
(* range of the clock and any periods below half of it, with both kinds of *)
(* driver.                                                                 *)
(***************************************************************************)
EXTENDS TimerPack, WellFoundedInduction, TLAPS

Clock == 0..(Range32 - 1)

\* The time left of a timer, and the time since the stack saw the clock last.
Left(t) == TimeDiff(expire_at[t], clock)
Age == (clock - now) % Range32

\* The clock seen in a tick is no older than the tick, and no timer was started since.
SeenInv ==
    tick.fresh => Age <= tick.spent /\ \A t \in active : Left(t) + Age <= Half - 1

\* No timer is late by more than the rest of this tick and the time before it allow.
LateInv ==
    \A t \in active : Left(t) >= IF tick.on THEN 1 - MaxTick - tick.spent ELSE -MaxLate

\* While no timer event is there, the driver's timer comes at most a tick later than
\* any of ours, or will be armed at the end of this tick; the periodic one makes an
\* event of each step of the clock.
AlarmInv ==
    ~event => \A t \in active :
        IF driver.rearm
          THEN \/ tick.on /\ (timers_changed \/ tick.timer)
               \/ driver.alarm >= 1 /\ Left(t) >= driver.alarm - MaxTick
          ELSE Left(t) >= 1

TypeInv ==
    /\ TypeOK /\ driver.alarm # 0
    /\ ~tick.on => tick = Outside

Inv == TypeInv /\ SeenInv /\ LateInv /\ AlarmInv

-----------------------------------------------------------------------------
(* The clock *)

LEMMA Sizes ==
    /\ Half \in Nat \ {0} /\ Range32 = 2 * Half /\ Range32 \in Nat \ {0}
    /\ MaxTick \in Nat /\ 2 * MaxTick < Half /\ MaxLate = 2 * MaxTick
    /\ NTimers \in Nat \ {0} /\ Stale \in BOOLEAN
    /\ \A p \in Periods : p \in 1..(Half - 1)
  BY SizeAssumption, TickAssumption, PeriodAssumption DEF Range32, MaxLate

LEMMA ModWraps ==
    ASSUME NEW R \in Nat \ {0}, NEW a \in (1 - R)..(2 * R - 1)
    PROVE  a % R = IF a < 0 THEN a + R ELSE IF a < R THEN a ELSE a - R
<1>1. CASE a \in 0..(R - 1)
  BY <1>1
<1>2. CASE a \in (-R)..(-1)
  BY <1>2
<1>3. CASE a \in R..(2 * R - 1)
  BY <1>3
<1> QED
  BY <1>1, <1>2, <1>3

\* A difference of two times, and a sum that is less than twice the range.
LEMMA Wrapped ==
    ASSUME NEW a \in (1 - Range32)..(2 * Range32 - 1)
    PROVE  a % Range32 = IF a < 0 THEN a + Range32
                         ELSE IF a < Range32 THEN a ELSE a - Range32
  BY Sizes, ModWraps

LEMMA DifferenceWrapped ==
    ASSUME NEW c \in Clock, NEW n \in Clock
    PROVE  (c - n) % Range32 = IF c - n < 0 THEN c - n + Range32 ELSE c - n
<1>1. c - n \in (1 - Range32)..(2 * Range32 - 1) /\ c - n < Range32
  BY Sizes DEF Clock
<1> QED
  BY <1>1, Wrapped

LEMMA ModOfSum ==
    ASSUME NEW R \in Nat \ {0}, NEW c \in 0..(R - 1), NEW p \in 1..(R - 1)
    PROVE  (c + p) % R = IF c + p < R THEN c + p ELSE c + p - R
<1>1. CASE c + p < R
  BY <1>1
<1>2. CASE c + p >= R
  <2>1. c + p = 1 * R + (c + p - R) /\ c + p - R \in 0..(R - 1)
    BY <1>2
  <2> QED
    BY <1>2, <2>1
<1> QED
  BY <1>1, <1>2

LEMMA SumWrapped ==
    ASSUME NEW c \in Clock, NEW p \in 1..(Half - 1)
    PROVE  (c + p) % Range32 = IF c + p < Range32 THEN c + p ELSE c + p - Range32
<1>1. Range32 \in Nat \ {0} /\ c \in 0..(Range32 - 1) /\ p \in 1..(Range32 - 1)
  BY Sizes DEF Clock
<1> QED
  BY <1>1, ModOfSum

LEMMA TimeDiffValue ==
    ASSUME NEW e \in Clock, NEW c \in Clock
    PROVE  TimeDiff(e, c) = IF e - c >= Half THEN e - c - Range32
                            ELSE IF e - c < -Half THEN e - c + Range32
                            ELSE e - c
<1>1. (e - c) % Range32 = IF e - c < 0 THEN e - c + Range32 ELSE e - c
  BY DifferenceWrapped
<1> QED
  BY <1>1, Sizes DEF TimeDiff, Clock

LEMMA TimeDiffRange ==
    ASSUME NEW e \in Clock, NEW c \in Clock
    PROVE  TimeDiff(e, c) \in (-Half)..(Half - 1)
  BY TimeDiffValue, Sizes DEF Clock

LEMMA Ticks ==
    ASSUME NEW c \in Clock
    PROVE  (c + 1) % Range32 = IF c = Range32 - 1 THEN 0 ELSE c + 1
<1>1. Range32 \in Nat \ {0} /\ c \in 0..(Range32 - 1)
  BY Sizes DEF Clock
<1>2. c + 1 \in (1 - Range32)..(2 * Range32 - 1) /\ ~(c + 1 < 0)
  BY <1>1
<1>3. (c + 1) % Range32 = IF c + 1 < Range32 THEN c + 1 ELSE c + 1 - Range32
  BY <1>1, <1>2, Wrapped
<1> QED
  BY <1>1, <1>3

LEMMA OneStepLater ==
    ASSUME NEW e \in Clock, NEW c \in Clock, TimeDiff(e, c) > -Half
    PROVE  /\ (c + 1) % Range32 \in Clock
           /\ TimeDiff(e, (c + 1) % Range32) = TimeDiff(e, c) - 1
<1> DEFINE d == (c + 1) % Range32
<1>1. d = IF c = Range32 - 1 THEN 0 ELSE c + 1
  BY Ticks
<1>2. d \in Clock
  BY <1>1, Sizes DEF Clock
<1> HIDE DEF d
<1>3. TimeDiff(e, d) = IF e - d >= Half THEN e - d - Range32
                       ELSE IF e - d < -Half THEN e - d + Range32 ELSE e - d
  BY <1>2, TimeDiffValue
<1>4. TimeDiff(e, c) = IF e - c >= Half THEN e - c - Range32
                       ELSE IF e - c < -Half THEN e - c + Range32 ELSE e - c
  BY TimeDiffValue
<1> QED
  BY <1>1, <1>2, <1>3, <1>4, Sizes DEF Clock, d

LEMMA JustStarted ==
    ASSUME NEW c \in Clock, NEW p \in 1..(Half - 1)
    PROVE  /\ (c + p) % Range32 \in Clock
           /\ TimeDiff((c + p) % Range32, c) = p
<1> DEFINE e == (c + p) % Range32
<1>1. e = IF c + p < Range32 THEN c + p ELSE c + p - Range32
  BY SumWrapped
<1>2. e \in Clock
  BY <1>1, Sizes DEF Clock
<1> HIDE DEF e
<1>3. TimeDiff(e, c) = IF e - c >= Half THEN e - c - Range32
                       ELSE IF e - c < -Half THEN e - c + Range32 ELSE e - c
  BY <1>2, TimeDiffValue
<1> QED
  BY <1>1, <1>2, <1>3, Sizes DEF Clock, e

\* The age of what was seen grows with the clock.
LEMMA AgeGrows ==
    ASSUME NEW c \in Clock, NEW n \in Clock, (c - n) % Range32 < Half
    PROVE  (((c + 1) % Range32) - n) % Range32 = ((c - n) % Range32) + 1
<1> DEFINE d == (c + 1) % Range32
<1>1. d = IF c = Range32 - 1 THEN 0 ELSE c + 1
  BY Ticks
<1>2. d \in Clock
  BY <1>1, Sizes DEF Clock
<1> HIDE DEF d
<1>3. (c - n) % Range32 = IF c - n < 0 THEN c - n + Range32 ELSE c - n
  BY DifferenceWrapped
<1>4. (d - n) % Range32 = IF d - n < 0 THEN d - n + Range32 ELSE d - n
  BY <1>2, DifferenceWrapped
<1> QED
  BY <1>1, <1>2, <1>3, <1>4, Sizes DEF Clock, d

LEMMA AgeOfNow == ASSUME NEW c \in Clock PROVE (c - c) % Range32 = 0
  BY DifferenceWrapped, Sizes DEF Clock

\* The time left as seen from a moment that is some steps old.
LEMMA SeenEarlier ==
    ASSUME NEW e \in Clock, NEW c \in Clock, NEW n \in Clock,
           TimeDiff(e, c) + ((c - n) % Range32) <= Half - 1
    PROVE  TimeDiff(e, n) = TimeDiff(e, c) + ((c - n) % Range32)
<1>1. (c - n) % Range32 = IF c - n < 0 THEN c - n + Range32 ELSE c - n
  BY DifferenceWrapped
<1>2. TimeDiff(e, c) = IF e - c >= Half THEN e - c - Range32
                       ELSE IF e - c < -Half THEN e - c + Range32 ELSE e - c
  BY TimeDiffValue
<1>3. TimeDiff(e, n) = IF e - n >= Half THEN e - n - Range32
                       ELSE IF e - n < -Half THEN e - n + Range32 ELSE e - n
  BY TimeDiffValue
<1> QED
  BY <1>1, <1>2, <1>3, Sizes DEF Clock

-----------------------------------------------------------------------------
(* get_next_expiration *)

LEMMA LeastElement ==
    ASSUME NEW S \in SUBSET Nat, S # {}
    PROVE  \E m \in S : \A n \in S : m <= n
<1>1. PICK m \in S : \A n \in S : ~ (<<n, m>> \in OpToRel(<, Nat))
  BY NatLessThanWellFounded, WFMin
<1>2. \A n \in S : ~ (n < m)
  BY <1>1 DEF OpToRel
<1> QED
  BY <1>2

LEMMA NextExpirationFacts ==
    ASSUME TypeOK
    PROVE  LET next == NextExpiration(now)
           IN  /\ next \in NoExpire..(Half - 1)
               /\ next = NoExpire => active = {}
               /\ next > 0 => \A t \in active : next <= TimeDiff(expire_at[t], now)
<1> DEFINE diffs == {TimeDiff(expire_at[t], now) : t \in active}
<1>1. \A d \in diffs : d \in (-Half)..(Half - 1)
  BY TimeDiffRange DEF TypeOK, Clock
<1>2. CASE diffs = {}
  BY <1>2, Sizes DEF NextExpiration, NoExpire
<1>3. CASE diffs # {} /\ \E d \in diffs : d <= 0
  BY <1>3, Sizes DEF NextExpiration, NoExpire
<1>4. CASE diffs # {} /\ ~ \E d \in diffs : d <= 0
  <2>1. diffs \in SUBSET Nat
    BY <1>1, <1>4, Sizes
  <2>2. PICK m \in diffs : \A other \in diffs : m <= other
    BY <1>4, <2>1, LeastElement
  <2> DEFINE next == CHOOSE d \in diffs : \A other \in diffs : d <= other
  <2>3. next \in diffs /\ \A other \in diffs : next <= other
    BY <2>2
  <2>4. NextExpiration(now) = next
    BY <1>4 DEF NextExpiration
  <2> HIDE DEF next
  <2>5. next > 0 /\ next <= Half - 1 /\ next \in Int
    BY <2>3, <1>1, <1>4, Sizes
  <2>6. \A t \in active : next <= TimeDiff(expire_at[t], now)
    BY <2>3
  <2> QED
    BY <2>4, <2>5, <2>6, Sizes DEF NoExpire
<1> QED
  BY <1>2, <1>3, <1>4

-----------------------------------------------------------------------------
(* Steps *)

LEMMA LeftRange ==
    ASSUME TypeOK, NEW t \in active
    PROVE  t \in Timers /\ Left(t) \in (-Half)..(Half - 1)
  BY TimeDiffRange DEF TypeOK, Clock, Left

\* Handlers and the beginning of a tick leave the time of the timers alone that go on.
LEMMA Kept ==
    ASSUME TypeOK, NEW S \in SUBSET Timers, Deactivate(S), clock' = clock
    PROVE  /\ active' = active \ S
           /\ \A t \in active' : Left(t)' = Left(t)
           /\ expire_at' \in [Timers -> Clock]
  BY Sizes DEF TypeOK, Deactivate, Left, Clock

LEMMA Same ==
    ASSUME UNCHANGED <<clock, expire_at, active>>
    PROVE  \A t \in active' : t \in active /\ Left(t)' = Left(t)
  BY DEF Left

LEMMA AfterStart ==
    ASSUME TypeOK, NEW t \in Timers, NEW p \in Periods, Start(t, p)
    PROVE  /\ \A u \in active' : Left(u)' = IF u = t THEN p ELSE Left(u)
           /\ \A u \in active' : u = t \/ u \in active
           /\ Age' = 0
           /\ expire_at' \in [Timers -> Clock]
<1>1. (clock + p) % Range32 \in Clock /\ TimeDiff((clock + p) % Range32, clock) = p
  BY Sizes, JustStarted DEF TypeOK, Clock
<1>2. clock' = clock /\ now' = clock /\ active' = active \cup {t}
      /\ expire_at' = [expire_at EXCEPT ![t] = (clock + p) % Range32]
  BY DEF Start, Handler, SetTime
<1>3. \A u \in active' : Left(u)' = IF u = t THEN p ELSE Left(u)
  BY <1>1, <1>2 DEF Left, TypeOK
<1>4. Age' = 0
  BY <1>2, AgeOfNow DEF Age, TypeOK, Clock
<1>5. expire_at' \in [Timers -> Clock]
  BY <1>1, <1>2 DEF TypeOK, Clock
<1> QED
  BY <1>2, <1>3, <1>4, <1>5

LEMMA AfterElapse ==
    ASSUME TypeOK, LateInv, Elapse
    PROVE  /\ \A t \in active' : t \in active /\ Left(t)' = Left(t) - 1
           /\ clock' \in Clock
           /\ Age < Half => Age' = Age + 1
<1>1. clock' = (clock + 1) % Range32 /\ UNCHANGED <<now, expire_at, active>>
  BY DEF Elapse, timerVars
<1>2. ASSUME NEW t \in active PROVE Left(t) > -Half
  <2>1. tick.on => tick.spent \in 0..(MaxTick - 1)
    BY Sizes DEF Elapse, TypeOK
  <2>2. Left(t) >= -MaxLate
    BY <2>1, LeftRange, Sizes DEF LateInv
  <2> QED
    BY <2>2, LeftRange, Sizes
<1>3. ASSUME NEW t \in active PROVE TimeDiff(expire_at[t], clock') = Left(t) - 1
  BY <1>1, <1>2, OneStepLater DEF Left, TypeOK, Clock
<1>4. clock' \in Clock
  BY <1>1, Ticks, Sizes DEF TypeOK, Clock
<1>5. Age < Half => Age' = Age + 1
  BY <1>1, AgeGrows DEF Age, TypeOK, Clock
<1> QED
  BY <1>1, <1>3, <1>4, <1>5 DEF Left

-----------------------------------------------------------------------------
(* Type correctness *)

LEMMA OutsideType ==
    Outside \in [on : BOOLEAN, timer : BOOLEAN, spent : 0..MaxTick, fresh : BOOLEAN]
  BY Sizes DEF Outside

LEMMA TypeInit == ASSUME Init PROVE TypeInv
<1>1. tick = Outside /\ tick \in [on : BOOLEAN, timer : BOOLEAN, spent : 0..MaxTick,
                                 fresh : BOOLEAN]
  BY OutsideType DEF Init
<1>2. driver \in [rearm : BOOLEAN, alarm : NoExpire..(Half - 1)] /\ driver.alarm # 0
  BY Sizes DEF Init, NoExpire
<1>3. expire_at \in [Timers -> 0..(Range32 - 1)] /\ now \in 0..(Range32 - 1)
  BY Sizes DEF Init
<1>4. answer \in [timer : Timers, expired : BOOLEAN]
  BY DEF Init
<1> QED
  BY <1>1, <1>2, <1>3, <1>4 DEF Init, TypeInv, TypeOK

LEMMA AlarmTaken ==
    ASSUME TypeInv
    PROVE  /\ driver.rearm \in BOOLEAN
           /\ driver.alarm \in {NoExpire} \cup 1..(Half - 1)
           /\ tick.spent \in 0..MaxTick
           /\ \A t \in active : t \in Timers
  BY Sizes DEF TypeInv, TypeOK, NoExpire

LEMMA TypeStep == ASSUME TypeInv, [Next]_vars PROVE TypeInv'
<1> USE DEF TypeInv
<1>1. ASSUME NEW t \in Timers, IsExpired(t) PROVE TypeInv'
  <2> DEFINE S == {u \in {t} : Due(u, clock)}
  <2>1. S \in SUBSET Timers /\ Deactivate(S) /\ clock' = clock
    BY <1>1 DEF IsExpired, Handler, Retire
  <2>2. active' = active \ S /\ expire_at' \in [Timers -> Clock]
    BY <2>1, Kept
  <2>3. disabled' = disabled \ S /\ timers_changed' \in BOOLEAN
    BY <1>1 DEF IsExpired, Retire, TypeOK
  <2>4. now' = clock /\ tick' = [tick EXCEPT !.fresh = TRUE] /\ tick.on
        /\ UNCHANGED <<event, driver>>
    BY <1>1 DEF IsExpired, Handler, SetTime
  <2>5. answer' \in [timer : Timers, expired : BOOLEAN]
    BY <1>1 DEF IsExpired
  <2> HIDE DEF S
  <2> QED
    BY <2>1, <2>2, <2>3, <2>4, <2>5 DEF TypeOK, Clock
<1>2. ASSUME NEW t \in Timers, NEW p \in Periods, Start(t, p) PROVE TypeInv'
  <2>1. expire_at' \in [Timers -> Clock]
    BY <1>2, AfterStart
  <2> QED
    BY <1>2, <2>1 DEF Start, Handler, SetTime, TypeOK, Clock
<1>3. ASSUME NEW first \in Timers, NEW last \in first..NTimers, Stop(first, last)
      PROVE  TypeInv'
  <2> DEFINE S == first..last
  <2>1. S \in SUBSET Timers
    BY Sizes DEF Timers
  <2>2. Deactivate(S) /\ disabled' = disabled \cup S /\ timers_changed' = TRUE
        /\ UNCHANGED <<clock, now, tick, event, driver, answer>>
    BY <1>3 DEF Stop, Handler
  <2> HIDE DEF S
  <2>3. active' = active \ S /\ expire_at' \in [Timers -> Clock]
    BY <2>1, <2>2, Kept
  <2> QED
    BY <2>1, <2>2, <2>3 DEF TypeOK, Clock
<1>4. CASE TickTimer
  <2> DEFINE S == {t \in Timers : Due(t, clock)}
  <2>1. S \in SUBSET Timers /\ Deactivate(S) /\ clock' = clock
    BY <1>4 DEF TickTimer, Retire
  <2>2. active' = active \ S /\ expire_at' \in [Timers -> Clock]
    BY <2>1, Kept
  <2>3. disabled' = disabled \ S /\ timers_changed' \in BOOLEAN
    BY <1>4 DEF TickTimer, Retire, TypeOK
  <2>4. tick'.on /\ tick' \in [on : BOOLEAN, timer : BOOLEAN, spent : 0..MaxTick,
                               fresh : BOOLEAN]
    BY <1>4, Sizes DEF TickTimer
  <2>5. now' = clock /\ event' = FALSE /\ UNCHANGED <<driver, answer>>
    BY <1>4 DEF TickTimer
  <2> HIDE DEF S
  <2> QED
    BY <2>1, <2>2, <2>3, <2>4, <2>5 DEF TypeOK, Clock
<1>5. CASE TickWakeup
  <2>1. tick'.on /\ tick' \in [on : BOOLEAN, timer : BOOLEAN, spent : 0..MaxTick,
                               fresh : BOOLEAN]
    BY <1>5, OutsideType DEF TickWakeup, Outside
  <2> QED
    BY <1>5, <2>1 DEF TickWakeup, timerVars, TypeOK
<1>6. CASE TickEnd
  <2> DEFINE next == NextExpiration(now)
             rearm == driver.rearm /\ (timers_changed \/ tick.timer)
  <2>1. next \in NoExpire..(Half - 1)
    BY NextExpirationFacts
  <2>2. /\ timers_changed' = (timers_changed /\ ~driver.rearm)
        /\ event' = (event \/ (rearm /\ next = 0))
        /\ driver' = IF rearm /\ next > 0 THEN [driver EXCEPT !.alarm = next]
                     ELSE driver
    BY <1>6 DEF TickEnd
  <2>3. timers_changed' \in BOOLEAN /\ event' \in BOOLEAN
    BY <2>2 DEF TypeOK
  <2> HIDE DEF next, rearm
  <2>4. driver' \in [rearm : BOOLEAN, alarm : NoExpire..(Half - 1)]
        /\ driver'.alarm # 0
    BY <2>1, <2>2 DEF TypeOK
  <2>5. tick' = Outside /\ UNCHANGED <<clock, now, expire_at, active, disabled, answer>>
    BY <1>6 DEF TickEnd
  <2>6. tick' \in [on : BOOLEAN, timer : BOOLEAN, spent : 0..MaxTick, fresh : BOOLEAN]
    BY <2>5, Sizes DEF Outside
  <2> QED
    BY <2>3, <2>4, <2>5, <2>6 DEF TypeOK, Outside
<1>7. CASE Elapse
  <2>1. clock' \in Clock
    BY <1>7, Ticks, Sizes DEF Elapse, TypeOK, Clock
  <2>2. driver' \in [rearm : BOOLEAN, alarm : NoExpire..(Half - 1)]
        /\ driver'.alarm # 0
    BY <1>7, Sizes DEF Elapse, TypeOK, NoExpire
  <2>3. tick' \in [on : BOOLEAN, timer : BOOLEAN, spent : 0..MaxTick, fresh : BOOLEAN]
        /\ (~tick'.on => tick' = Outside)
    <3>1. CASE tick.on
      <4>1. tick' = [tick EXCEPT !.spent = @ + 1] /\ tick.spent + 1 \in 0..MaxTick
        BY <1>7, <3>1, Sizes DEF Elapse, TypeOK
      <4> QED
        BY <3>1, <4>1 DEF TypeOK
    <3>2. CASE ~tick.on
      BY <1>7, <3>2 DEF Elapse, TypeOK
    <3> QED
      BY <3>1, <3>2
  <2>4. event' \in BOOLEAN
    BY <1>7 DEF Elapse
  <2>5. UNCHANGED <<now, expire_at, active, disabled, timers_changed, answer>>
    BY <1>7 DEF Elapse, timerVars
  <2> QED
    BY <2>1, <2>2, <2>3, <2>4, <2>5 DEF TypeOK, Clock
<1>8. CASE UNCHANGED vars
  BY <1>8 DEF vars, timerVars, TypeOK
<1> QED
  BY <1>1, <1>2, <1>3, <1>4, <1>5, <1>6, <1>7, <1>8 DEF Next

\* Whatever the handlers do and however long a tick lasts, the timers stay what they are:
\* no timer is both running and stopped, and no time or alarm leaves its range.
THEOREM TypeCorrect == Spec => []TypeOK
<1>1. Init => TypeInv
  BY TypeInit
<1>2. TypeInv /\ [Next]_vars => TypeInv'
  BY TypeStep
<1>3. TypeInv => TypeOK
  BY DEF TypeInv
<1> QED
  BY <1>1, <1>2, <1>3, PTL DEF Spec

-----------------------------------------------------------------------------
(* No timer is late *)

LEMMA InvInit == ASSUME Init PROVE Inv
  BY TypeInit DEF Init, Inv, SeenInv, LateInv, AlarmInv, Outside

LEMMA InvStart ==
    ASSUME Inv, NEW t \in Timers, NEW p \in Periods, Start(t, p)
    PROVE  SeenInv' /\ LateInv' /\ AlarmInv'
<1>1. /\ \A u \in active' : Left(u)' = IF u = t THEN p ELSE Left(u)
      /\ \A u \in active' : u = t \/ u \in active
      /\ Age' = 0
  BY AfterStart DEF Inv, TypeInv
<1>2. /\ tick.on /\ tick'.on /\ tick'.spent = tick.spent /\ UNCHANGED <<event, driver>>
      /\ timers_changed' = TRUE
  BY DEF Start, Handler, SetTime, Inv, TypeInv, TypeOK
<1>3. p \in 1..(Half - 1) /\ MaxTick \in Nat /\ Half \in Nat /\ tick.spent \in 0..MaxTick
  BY Sizes, AlarmTaken DEF Inv
<1>4. \A u \in active : Left(u) \in (-Half)..(Half - 1)
  BY LeftRange DEF Inv, TypeInv
<1>5. SeenInv'
  BY <1>1, <1>2, <1>3, <1>4 DEF SeenInv
<1>6. LateInv'
  BY <1>1, <1>2, <1>3, <1>4 DEF Inv, LateInv
<1>7. AlarmInv'
  BY <1>1, <1>2, <1>3, <1>4 DEF Inv, AlarmInv
<1> QED
  BY <1>5, <1>6, <1>7

\* stop() and is_expired() leave the timers that go on alone.
LEMMA InvKept ==
    ASSUME Inv, NEW S \in SUBSET Timers, Deactivate(S), Handler,
           UNCHANGED <<now, tick>> \/ SetTime,
           timers_changed => timers_changed', timers_changed' \in BOOLEAN
    PROVE  SeenInv' /\ LateInv' /\ AlarmInv'
<1>1. active' = active \ S /\ \A u \in active' : u \in active /\ Left(u)' = Left(u)
  BY Kept DEF Handler, Inv, TypeInv
<1>2. /\ tick.on /\ tick'.on /\ tick'.spent = tick.spent /\ tick'.timer = tick.timer
      /\ UNCHANGED <<event, driver, clock>>
  BY DEF Handler, SetTime, Inv, TypeInv, TypeOK
<1>3. (tick'.fresh = tick.fresh /\ Age' = Age) \/ Age' = 0
  <2>1. CASE UNCHANGED <<now, tick>>
    BY <1>2, <2>1 DEF Age
  <2>2. CASE SetTime
    BY <1>2, <2>2, AgeOfNow DEF SetTime, Age, Inv, TypeInv, TypeOK, Clock
  <2> QED
    BY <2>1, <2>2
<1>4. Half \in Nat /\ tick.spent \in 0..MaxTick /\ MaxTick \in Nat
  BY Sizes, AlarmTaken DEF Inv
<1>5. \A u \in active : Left(u) \in (-Half)..(Half - 1)
  BY LeftRange DEF Inv, TypeInv
<1>6. SeenInv'
  <2>1. CASE tick'.fresh = tick.fresh /\ Age' = Age
    BY <1>1, <1>2, <2>1 DEF Inv, SeenInv
  <2>2. CASE Age' = 0
    BY <1>1, <1>2, <1>4, <1>5, <2>2 DEF SeenInv
  <2> QED
    BY <1>3, <2>1, <2>2
<1>7. LateInv'
  BY <1>1, <1>2 DEF Inv, LateInv
<1>8. AlarmInv'
  BY <1>1, <1>2 DEF Inv, AlarmInv
<1> QED
  BY <1>6, <1>7, <1>8

LEMMA InvTickTimer ==
    ASSUME Inv, TickTimer
    PROVE  SeenInv' /\ LateInv' /\ AlarmInv'
<1> DEFINE S == {t \in Timers : Due(t, clock)}
<1>1. S \in SUBSET Timers /\ Deactivate(S) /\ clock' = clock /\ now' = clock
  BY DEF TickTimer, Retire
<1>2. active' = active \ S /\ \A u \in active' : Left(u)' = Left(u)
  BY <1>1, Kept DEF Inv, TypeInv
<1>3. \A u \in active' : Left(u)' \in 1..(Half - 1)
  BY <1>2, LeftRange, Sizes DEF Due, Left, Inv, TypeInv
<1>4. Age' = 0
  BY <1>1, AgeOfNow DEF Age, Inv, TypeInv, TypeOK, Clock
<1>5. tick'.on /\ tick'.timer /\ tick'.spent = 0 /\ driver' = driver
  BY DEF TickTimer
<1> HIDE DEF S
<1>6. SeenInv'
  BY <1>3, <1>4, <1>5, Sizes DEF SeenInv
<1>7. LateInv'
  BY <1>3, <1>5, Sizes DEF LateInv
<1>8. AlarmInv'
  BY <1>3, <1>5, Sizes DEF AlarmInv
<1> QED
  BY <1>6, <1>7, <1>8

LEMMA InvTickWakeup ==
    ASSUME Inv, TickWakeup
    PROVE  SeenInv' /\ LateInv' /\ AlarmInv'
<1>1. \A u \in active' : u \in active /\ Left(u)' = Left(u)
  BY Same DEF TickWakeup, timerVars
<1>2. /\ ~event /\ ~tick.on /\ tick'.on /\ tick'.spent = 0 /\ ~tick'.fresh
      /\ UNCHANGED <<event, driver, timers_changed>>
  BY DEF TickWakeup, Outside, timerVars
<1>3. \A u \in active : Left(u) \in Int /\ IF driver.rearm
                         THEN driver.alarm >= 1 /\ Left(u) >= driver.alarm - MaxTick
                         ELSE Left(u) >= 1
  BY <1>2, LeftRange, Sizes DEF Inv, TypeInv, AlarmInv
<1>4. SeenInv'
  BY <1>2 DEF SeenInv
<1>5. LateInv'
  <2>1. \A u \in active : Left(u) >= 1 - MaxTick - 0
    BY <1>3, Sizes, AlarmTaken DEF Inv, NoExpire
  <2> QED
    BY <1>1, <1>2, <2>1 DEF LateInv
<1>6. AlarmInv'
  BY <1>1, <1>2, <1>3 DEF AlarmInv
<1> QED
  BY <1>4, <1>5, <1>6

\* The driver's timer is armed with the time left as the tick saw it last.
LEMMA InvTickEnd ==
    ASSUME Inv, TickEnd, ~Stale
    PROVE  SeenInv' /\ LateInv' /\ AlarmInv'
<1> DEFINE next == NextExpiration(now)
           rearm == driver.rearm /\ (timers_changed \/ tick.timer)
<1>1. \A u \in active' : u \in active /\ Left(u)' = Left(u)
  BY Same DEF TickEnd
<1>2. /\ tick.on /\ ~tick'.on /\ ~tick'.fresh
      /\ tick.fresh \/ ~driver.rearm
      /\ event' = (event \/ (rearm /\ next = 0))
      /\ driver' = IF rearm /\ next > 0 THEN [driver EXCEPT !.alarm = next] ELSE driver
  BY DEF TickEnd, Outside
<1>3. /\ next \in NoExpire..(Half - 1)
      /\ next = NoExpire => active = {}
      /\ next > 0 => \A t \in active : next <= TimeDiff(expire_at[t], now)
  BY NextExpirationFacts DEF Inv, TypeInv
<1> HIDE DEF next
<1>4. tick.spent \in 0..MaxTick /\ MaxTick \in Nat /\ MaxLate = 2 * MaxTick /\ Half \in Nat
      /\ driver.alarm \in Int
  BY AlarmTaken, Sizes DEF Inv, NoExpire
<1>5. \A u \in active : Left(u) \in (-Half)..(Half - 1)
  BY LeftRange DEF Inv, TypeInv
<1>6. SeenInv'
  BY <1>2 DEF SeenInv
<1>7. LateInv'
  BY <1>1, <1>2, <1>4, <1>5 DEF Inv, LateInv, MaxLate
<1>8. ASSUME ~event', NEW u \in active'
      PROVE  IF driver.rearm THEN driver'.alarm >= 1 /\ Left(u) >= driver'.alarm - MaxTick
             ELSE Left(u) >= 1
  <2>1. ~event /\ ~(rearm /\ next = 0)
    BY <1>2, <1>8
  <2>2. u \in active
    BY <1>1
  <2>3. CASE ~driver.rearm
    BY <2>1, <2>2, <2>3 DEF Inv, AlarmInv
  <2>4. CASE driver.rearm /\ ~rearm
    BY <1>2, <2>1, <2>2, <2>4 DEF Inv, AlarmInv
  <2>5. CASE rearm
    <3>1. next > 0 /\ next <= TimeDiff(expire_at[u], now)
      BY <1>3, <1>4, <2>1, <2>2, <2>5 DEF NoExpire
    <3>2. Age <= tick.spent /\ Left(u) + Age <= Half - 1
      BY <1>2, <2>2, <2>5 DEF Inv, SeenInv
    <3>3. expire_at[u] \in Clock /\ clock \in Clock /\ now \in Clock
      BY <2>2 DEF Inv, TypeInv, TypeOK, Clock
    <3>4. TimeDiff(expire_at[u], now) = Left(u) + Age
      BY <3>2, <3>3, SeenEarlier DEF Left, Age
    <3>5. driver'.alarm = next
      BY <1>2, <2>5, <3>1 DEF Inv, TypeInv, TypeOK
    <3>6. Age \in Int
      BY <3>3, DifferenceWrapped, Sizes DEF Age, Clock
    <3> QED
      BY <1>3, <1>4, <1>5, <2>2, <2>5, <3>1, <3>2, <3>4, <3>5, <3>6 DEF NoExpire
  <2> QED
    BY <2>3, <2>4, <2>5
<1>9. driver'.rearm = driver.rearm
  BY <1>2 DEF Inv, TypeInv, TypeOK
<1>10. AlarmInv'
  BY <1>1, <1>8, <1>9 DEF AlarmInv
<1> QED
  BY <1>6, <1>7, <1>10

LEMMA InvElapse ==
    ASSUME Inv, Elapse
    PROVE  SeenInv' /\ LateInv' /\ AlarmInv'
<1>1. /\ \A t \in active' : t \in active /\ Left(t)' = Left(t) - 1
      /\ Age < Half => Age' = Age + 1
  BY AfterElapse DEF Inv, TypeInv
<1>2. /\ IF tick.on THEN tick.spent < MaxTick ELSE ~event
      /\ tick'.on = tick.on /\ tick'.timer = tick.timer /\ tick'.fresh = tick.fresh
      /\ tick'.spent = IF tick.on THEN tick.spent + 1 ELSE tick.spent
  BY DEF Elapse, Inv, TypeInv, TypeOK
<1>3. /\ event' = (event \/ ~driver.rearm \/ driver.alarm = 1)
      /\ driver'.rearm = driver.rearm /\ timers_changed' = timers_changed
      /\ driver'.alarm = IF driver.alarm > 1 THEN driver.alarm - 1 ELSE NoExpire
  BY DEF Elapse, timerVars, Inv, TypeInv, TypeOK
<1>4. tick.spent \in 0..MaxTick /\ MaxTick \in Nat /\ MaxLate = 2 * MaxTick
      /\ Half \in Nat /\ 2 * MaxTick < Half /\ driver.alarm \in Int /\ tick.on \in BOOLEAN
  BY AlarmTaken, Sizes DEF Inv, NoExpire, TypeInv, TypeOK
<1>5. \A u \in active : Left(u) \in (-Half)..(Half - 1)
  BY LeftRange DEF Inv, TypeInv
<1>6. SeenInv'
  <2>1. tick.fresh => tick.on
    BY DEF Inv, TypeInv, Outside
  <2>2. Age \in Int
    BY DifferenceWrapped, Sizes DEF Age, Clock, Inv, TypeInv, TypeOK
  <2>3. tick.fresh => Age <= tick.spent /\ Age < Half
    BY <1>4, <2>2 DEF Inv, SeenInv
  <2> QED
    BY <1>1, <1>2, <1>4, <1>5, <2>1, <2>2, <2>3 DEF Inv, SeenInv
<1>7. LateInv'
  <2>1. CASE tick.on
    BY <1>1, <1>2, <1>4, <1>5, <2>1 DEF Inv, LateInv
  <2>2. CASE ~tick.on
    BY <1>1, <1>2, <1>4, <1>5, <2>2 DEF Inv, LateInv, AlarmInv, MaxLate
  <2> QED
    BY <2>1, <2>2
<1>8. ASSUME ~event', NEW t \in active'
      PROVE  IF driver'.rearm
               THEN \/ tick'.on /\ (timers_changed' \/ tick'.timer)
                    \/ driver'.alarm >= 1 /\ Left(t)' >= driver'.alarm - MaxTick
               ELSE Left(t)' >= 1
  <2>1. ~event /\ driver.rearm /\ driver.alarm # 1 /\ t \in active
    BY <1>1, <1>3, <1>8
  <2>2. CASE tick.on /\ (timers_changed \/ tick.timer)
    BY <1>2, <1>3, <2>1, <2>2
  <2>3. CASE driver.alarm >= 1 /\ Left(t) >= driver.alarm - MaxTick
    BY <1>1, <1>3, <1>4, <1>5, <2>1, <2>3
  <2> QED
    BY <2>1, <2>2, <2>3 DEF Inv, AlarmInv
<1>9. AlarmInv'
  BY <1>8 DEF AlarmInv
<1> QED
  BY <1>6, <1>7, <1>9

LEMMA InvStep == ASSUME Inv, [Next]_vars, ~Stale PROVE Inv'
<1>1. TypeInv'
  BY TypeStep DEF Inv
<1>2. ASSUME NEW t \in Timers, IsExpired(t) PROVE SeenInv' /\ LateInv' /\ AlarmInv'
  <2> DEFINE S == {u \in {t} : Due(u, clock)}
  <2>1. S \in SUBSET Timers /\ Deactivate(S) /\ Handler /\ SetTime
        /\ (timers_changed => timers_changed')
    BY <1>2 DEF IsExpired, Retire
  <2>2. timers_changed' \in BOOLEAN
    BY <1>1 DEF TypeInv, TypeOK
  <2> HIDE DEF S
  <2> QED
    BY <2>1, <2>2, InvKept
<1>3. ASSUME NEW t \in Timers, NEW p \in Periods, Start(t, p)
      PROVE  SeenInv' /\ LateInv' /\ AlarmInv'
  BY <1>3, InvStart
<1>4. ASSUME NEW first \in Timers, NEW last \in first..NTimers, Stop(first, last)
      PROVE  SeenInv' /\ LateInv' /\ AlarmInv'
  <2> DEFINE S == first..last
  <2>1. S \in SUBSET Timers
    BY Sizes DEF Timers
  <2>2. Deactivate(S) /\ Handler /\ UNCHANGED <<now, tick>> /\ timers_changed' = TRUE
    BY <1>4 DEF Stop
  <2> HIDE DEF S
  <2> QED
    BY <2>1, <2>2, InvKept
<1>5. CASE UNCHANGED vars
  <2>1. \A t \in active' : t \in active /\ Left(t)' = Left(t)
    BY <1>5, Same DEF vars, timerVars
  <2>2. Age' = Age
    BY <1>5 DEF vars, Age
  <2> QED
    <3>1. SeenInv'
      BY <1>5, <2>1, <2>2 DEF vars, timerVars, Inv, SeenInv
    <3>2. LateInv'
      BY <1>5, <2>1 DEF vars, timerVars, Inv, LateInv
    <3>3. AlarmInv'
      BY <1>5, <2>1 DEF vars, timerVars, Inv, AlarmInv
    <3> QED
      BY <1>1, <3>1, <3>2, <3>3 DEF Inv
<1> QED
  BY <1>1, <1>2, <1>3, <1>4, <1>5, InvTickTimer, InvTickWakeup, InvTickEnd, InvElapse
     DEF Next, Inv

\* A timer that is due is noticed within the time of two ticks, with both kinds of driver.
THEOREM TimersPunctual == ~Stale => (Spec => []Punctual)
<1> SUFFICES ASSUME ~Stale PROVE Spec => []Punctual
  OBVIOUS
<1>1. Init => Inv
  BY InvInit
<1>2. Inv /\ [Next]_vars => Inv'
  BY InvStep
<1>3. ASSUME Inv PROVE Punctual
  <2>1. tick.spent \in 0..MaxTick /\ MaxTick \in Nat /\ MaxLate = 2 * MaxTick
    BY <1>3, AlarmTaken, Sizes DEF Inv
  <2>2. \A t \in active : Left(t) \in Int /\ Left(t) >= -MaxLate
    BY <1>3, <2>1, LeftRange, Sizes DEF Inv, TypeInv, LateInv
  <2> QED
    BY <2>2 DEF Punctual, Left
<1> QED
  BY <1>1, <1>2, <1>3, PTL DEF Spec

-----------------------------------------------------------------------------
(* The refinement *)

ModeBar == [t \in Timers |-> IF t \in active THEN "running"
                             ELSE IF t \in disabled THEN "off" ELSE "over"]
LeftBar == [t \in Timers |-> IF t \in active THEN TimeDiff(expire_at[t], clock) ELSE 0]

LEMMA BarValues ==
    ASSUME NEW t \in Timers
    PROVE  /\ ModeBar[t] = IF t \in active THEN "running"
                           ELSE IF t \in disabled THEN "off" ELSE "over"
           /\ LeftBar[t] = IF t \in active THEN Left(t) ELSE 0
           /\ ModeBar[t] = "running" <=> t \in active
  BY DEF ModeBar, LeftBar, Left

\* Timers that stop being active, and nothing happens to the others.
LEMMA RetireBar ==
    ASSUME TypeOK, NEW S \in SUBSET Timers, Deactivate(S), clock' = clock,
           NEW how \in {"off", "over"},
           \A t \in Timers \ S : t \in disabled' <=> t \in disabled,
           \A t \in S : t \in disabled' <=> how = "off"
    PROVE  Abstract!Retire(S, how)
<1>1. active' = active \ S /\ \A t \in active' : Left(t)' = Left(t)
  BY Kept
<1>2. \A t \in Timers : ModeBar'[t] = IF t \in S THEN how ELSE ModeBar[t]
  BY <1>1 DEF ModeBar, Timers
<1>3. \A t \in Timers : LeftBar'[t] = IF t \in S THEN 0 ELSE LeftBar[t]
  BY <1>1 DEF LeftBar, Left, Timers
<1>4. ModeBar' = [t \in Timers |-> IF t \in S THEN how ELSE ModeBar[t]]
  BY <1>2 DEF ModeBar, Timers
<1>5. LeftBar' = [t \in Timers |-> IF t \in S THEN 0 ELSE LeftBar[t]]
  BY <1>3 DEF LeftBar, Timers
<1> QED
  BY <1>4, <1>5 DEF Abstract!Retire, ModeBar, LeftBar

LEMMA InitRefines == ASSUME Init PROVE Abstract!Init
  BY DEF Init, Abstract!Init

LEMMA StartRefines ==
    ASSUME Inv, NEW t \in Timers, NEW p \in Periods, Start(t, p)
    PROVE  Abstract!Start(t, p)
<1>1. /\ \A u \in active' : Left(u)' = IF u = t THEN p ELSE Left(u)
      /\ \A u \in active' : u = t \/ u \in active
  BY AfterStart DEF Inv, TypeInv
<1>2. active' = active \cup {t} /\ disabled' = disabled \ {t} /\ answer' = answer
  BY DEF Start
<1>3. ModeBar' = [ModeBar EXCEPT ![t] = "running"]
  BY <1>2 DEF ModeBar, Timers
<1>4. LeftBar' = [LeftBar EXCEPT ![t] = p]
  <2>1. \A u \in Timers : LeftBar'[u] = IF u = t THEN p ELSE LeftBar[u]
    BY <1>1, <1>2 DEF LeftBar, Left, Timers
  <2> QED
    BY <2>1 DEF LeftBar, Timers
<1> QED
  BY <1>2, <1>3, <1>4 DEF Abstract!Start, ModeBar, LeftBar

LEMMA StopRefines ==
    ASSUME Inv, NEW first \in Timers, NEW last \in first..NTimers, Stop(first, last)
    PROVE  \E S \in SUBSET Timers : Abstract!Stop(S)
<1> DEFINE S == first..last
<1>1. S \in SUBSET Timers
  BY Sizes DEF Timers
<1>2. Deactivate(S) /\ clock' = clock /\ disabled' = disabled \cup S /\ answer' = answer
  BY DEF Stop, Handler
<1> HIDE DEF S
<1>3. Abstract!Retire(S, "off")
  BY <1>1, <1>2, RetireBar DEF Inv, TypeInv
<1> QED
  BY <1>1, <1>2, <1>3 DEF Abstract!Stop

\* A timer is due when it is running and its time is up.
LEMMA DueIsRunOut ==
    ASSUME NEW t \in Timers PROVE Due(t, clock) <=> Abstract!RunOut(t)
  BY DEF Due, Abstract!RunOut

LEMMA NoticeRefines ==
    ASSUME Inv, TickTimer
    PROVE  \E S \in SUBSET Timers : Abstract!Notice(S)
<1> DEFINE S == {t \in Timers : Due(t, clock)}
<1>1. S \in SUBSET Timers
  OBVIOUS
<1>2. Deactivate(S) /\ clock' = clock /\ disabled' = disabled \ S /\ answer' = answer
  BY DEF TickTimer, Retire
<1>3. \A t \in S : Abstract!RunOut(t)
  BY DueIsRunOut
<1> HIDE DEF S
<1>4. Abstract!Retire(S, "over")
  BY <1>1, <1>2, RetireBar DEF Inv, TypeInv
<1> QED
  BY <1>1, <1>2, <1>3, <1>4 DEF Abstract!Notice

LEMMA AskRefines ==
    ASSUME Inv, NEW t \in Timers, IsExpired(t)
    PROVE  Abstract!Ask(t)
<1> DEFINE S == {u \in {t} : Due(u, clock)}
<1>1. S \in SUBSET Timers
  OBVIOUS
<1>2. Deactivate(S) /\ clock' = clock /\ disabled' = disabled \ S
  BY DEF IsExpired, Handler, Retire
<1>3. S = {t} \cap {u \in Timers : Abstract!RunOut(u)}
  BY DueIsRunOut
<1> HIDE DEF S
<1>4. Abstract!Retire(S, "over")
  BY <1>1, <1>2, RetireBar DEF Inv, TypeInv
<1>5. answer' = [timer |-> t, expired |-> Due(t, clock) \/ t \notin active \cup disabled]
  BY DEF IsExpired
<1>6. t \notin active \cup disabled <=> ModeBar[t] = "over"
  BY DEF ModeBar
<1>7. (Due(t, clock) \/ t \notin active \cup disabled)
        = (ModeBar[t] = "over" \/ Abstract!RunOut(t))
  BY <1>6, DueIsRunOut
<1> QED
  BY <1>3, <1>4, <1>5, <1>7 DEF Abstract!Ask, ModeBar

LEMMA ElapseRefines == ASSUME Inv, Elapse PROVE Abstract!Elapse
<1>1. \A t \in active' : Left(t)' = Left(t) - 1
  BY AfterElapse DEF Inv, TypeInv
<1>2. UNCHANGED <<active, disabled, answer>>
  BY DEF Elapse, timerVars
<1>3. ASSUME NEW t \in active PROVE Left(t) > -MaxLate
  <2>1. tick.spent \in 0..MaxTick /\ MaxTick \in Nat /\ MaxLate = 2 * MaxTick
        /\ driver.alarm \in Int /\ Left(t) \in Int
    BY AlarmTaken, Sizes, LeftRange DEF Inv, TypeInv, NoExpire
  <2>2. CASE tick.on
    BY <2>1, <2>2 DEF Elapse, Inv, LateInv
  <2>3. CASE ~tick.on
    BY <2>1, <2>3 DEF Elapse, Inv, AlarmInv
  <2> QED
    BY <2>2, <2>3
<1>4. \A t \in Timers : ModeBar[t] = "running" => LeftBar[t] > -MaxLate
  BY <1>3, BarValues
<1>5. ModeBar' = ModeBar
  BY <1>2 DEF ModeBar
<1>6. LeftBar' = [t \in Timers |-> IF ModeBar[t] = "running" THEN LeftBar[t] - 1 ELSE 0]
  <2>1. \A t \in Timers : LeftBar'[t] = IF t \in active THEN Left(t) - 1 ELSE 0
    BY <1>1, <1>2 DEF LeftBar, Left, Timers
  <2>2. \A t \in Timers :
           LeftBar'[t] = IF ModeBar[t] = "running" THEN LeftBar[t] - 1 ELSE 0
    BY <2>1, BarValues
  <2> QED
    BY <2>2 DEF LeftBar, Timers
<1> QED
  BY <1>2, <1>4, <1>5, <1>6 DEF Abstract!Elapse, ModeBar, LeftBar

LEMMA StutterRefines ==
    ASSUME UNCHANGED <<clock, expire_at, active, disabled, answer>>
    PROVE  UNCHANGED Abstract!vars
  BY DEF Abstract!vars

LEMMA StepRefines ==
    ASSUME Inv, [Next]_vars PROVE [Abstract!Next]_(Abstract!vars)
<1>1. ASSUME NEW t \in Timers, IsExpired(t) PROVE Abstract!Next
  BY <1>1, AskRefines DEF Abstract!Next
<1>2. ASSUME NEW t \in Timers, NEW p \in Periods, Start(t, p) PROVE Abstract!Next
  BY <1>2, StartRefines DEF Abstract!Next
<1>3. ASSUME NEW first \in Timers, NEW last \in first..NTimers, Stop(first, last)
      PROVE  Abstract!Next
  BY <1>3, StopRefines DEF Abstract!Next
<1>4. CASE TickTimer
  BY <1>4, NoticeRefines DEF Abstract!Next
<1>5. CASE Elapse
  BY <1>5, ElapseRefines DEF Abstract!Next
<1>6. CASE TickWakeup \/ TickEnd \/ UNCHANGED vars
  BY <1>6, StutterRefines DEF TickWakeup, TickEnd, vars, timerVars
<1> QED
  BY <1>1, <1>2, <1>3, <1>4, <1>5, <1>6 DEF Next

\* The timers over a clock that wraps, and a driver's timer armed after the event, do
\* what Deadlines promises.
THEOREM TimersImplement == ~Stale => (Spec => Implements)
<1> SUFFICES ASSUME ~Stale PROVE Spec => Implements
  OBVIOUS
<1>1. Init => Inv /\ Abstract!Init
  BY InvInit, InitRefines
<1>2. Inv /\ [Next]_vars => Inv'
  BY InvStep
<1>3. Inv /\ [Next]_vars => [Abstract!Next]_(Abstract!vars)
  BY StepRefines
<1> QED
  BY <1>1, <1>2, <1>3, PTL DEF Spec, Implements, Abstract!Spec
=============================================================================

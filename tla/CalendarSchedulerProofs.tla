---------------------- MODULE CalendarSchedulerProofs ----------------------
(***************************************************************************)
(* Theorems about CalendarScheduler, for every length of the day, the      *)
(* window, the pause and the calls, and every lateness of the timers.      *)
(***************************************************************************)
EXTENDS CalendarScheduler, TLAPS

\* The types the arguments need; the exact ranges of the timers play no part in them.
Types ==
    /\ clock \in Nat
    /\ resetTimer \in Int \cup {None}
    /\ loop \in {"none", "refreshing", "sleeping"}
    /\ due \in Int /\ left \in Nat /\ upFor \in Nat
    /\ stopped \in BOOLEAN /\ up \in BOOLEAN

\* Where the loop waits, and how long upstream can have been back by then.  A call that has
\* met upstream down bounds it by its own length so far; a sleep begins after such a call
\* only; and each tick of upFor is a tick of due.
Waits ==
    /\ ~up => upFor = 0
    /\ loop = "sleeping" => due >= -Late /\ upFor <= CallDelay + Interval - due
    /\ loop = "refreshing" =>
         /\ due \in 0 .. CallDelay
         /\ upFor <= CallDelay + Interval + Late + CallDelay - due
         /\ "down" \in seen => upFor <= CallDelay - due

IInv == Types /\ Waits /\ Alive
-----------------------------------------------------------------------------
\* A timer aligned with the next reset is a number, so it is not null.
LEMMA UntilNextResetIsInt ==
    ASSUME NEW k \in Nat
    PROVE  UntilNextReset(k) \in Int
<1> DEFINE day == k \div DayLen
           target == (day + ((ResetDay - day + 7) % 7)) * DayLen + ResetTime
<1>1. day \in Int
  BY ClockAssumption
<1>2. (ResetDay - day + 7) % 7 \in Int
  BY <1>1, ClockAssumption
<1>3. target \in Int
  <2> HIDE DEF day
  <2> QED BY <1>1, <1>2, ClockAssumption
<1>4. Week \in Int
  BY ClockAssumption DEF Week
<1> QED
  <2> HIDE DEF target
  <2>1. UntilNextReset(k) = (IF target <= k THEN target + Week ELSE target) - k
    BY DEF UntilNextReset, target
  <2> QED BY <2>1, <1>3, <1>4

LEMMA ScheduledTimer ==
    ASSUME clock \in Nat, stopped \in BOOLEAN, ScheduleNextResetAlignment
    PROVE  /\ resetTimer' \in Int \cup {None}
           /\ (resetTimer' = None) <=> stopped
BY UntilNextResetIsInt, ClockAssumption DEF ScheduleNextResetAlignment

LEMMA InitIInv == Init => IInv
<1> SUFFICES ASSUME Init PROVE IInv
  OBVIOUS
<1>1. clock \in Nat
  BY ClockAssumption DEF Init, Week
<1>2. resetTimer \in Int \cup {None} /\ (Enabled(setting) => resetTimer # None)
  BY <1>1, UntilNextResetIsInt, ClockAssumption DEF Init
<1>3. Types
  <2>1. loop \in {"none", "refreshing", "sleeping"} /\ due \in Int /\ left \in Nat /\ upFor \in Nat
    BY DEF Init
  <2>2. stopped \in BOOLEAN /\ up \in BOOLEAN
    BY Zenon DEF Init
  <2>3. resetTimer \in Int \cup {None}
    BY <1>2
  <2> QED BY <1>1, <2>1, <2>2, <2>3, Zenon DEF Types
<1>4. Waits
  <2>1. upFor = 0 /\ loop = "none"
    BY DEF Init
  <2> QED BY <2>1 DEF Waits
<1>5. Alive
  BY <1>2 DEF Init, Alive, Enabled
<1> QED BY <1>3, <1>4, <1>5 DEF IInv
-----------------------------------------------------------------------------
(* One lemma per action.                                                   *)

\* A call that begins has met upstream as it is now.
LEMMA RefreshOnceTyped ==
    ASSUME RefreshOnce
    PROVE  /\ loop' = "refreshing" /\ due' = CallDelay /\ due' \in 0 .. CallDelay
           /\ "down" \in seen' => ~up
<1>1. "down" \in seen' => ~up
  BY Zenon DEF RefreshOnce
<1>. QED BY <1>1, ClockAssumption DEF RefreshOnce

LEMMA OpenWindowIInv == ASSUME IInv, OpenWindow PROVE IInv'
<1>1. loop' = "refreshing" /\ due' = CallDelay /\ due' \in 0 .. CallDelay
  BY RefreshOnceTyped DEF OpenWindow
<1>2. Types' /\ Alive'
  BY <1>1, ClockAssumption DEF IInv, Types, Alive, OpenWindow
<1>3. Waits'
  BY <1>1, ClockAssumption DEF Waits, OpenWindow
<1>. QED BY <1>2, <1>3 DEF IInv

LEMMA RefreshReturnsIInv == ASSUME IInv, RefreshReturns PROVE IInv'
<1>1. CASE "up" \in seen /\ loop' = "none" /\ ScheduleNextResetAlignment /\ UNCHANGED due
  BY <1>1, ScheduledTimer DEF IInv, Types, Waits, Alive, RefreshReturns, Enabled
<1>2. CASE "down" \in seen /\ loop' = "sleeping" /\ due' = Interval /\ UNCHANGED resetTimer
  BY <1>2, ClockAssumption DEF IInv, Types, Waits, Alive, RefreshReturns, Enabled
<1> QED BY <1>1, <1>2 DEF RefreshReturns

LEMMA SleepEndsIInv == ASSUME IInv, SleepEnds PROVE IInv'
<1>1. CASE RefreshOnce /\ UNCHANGED resetTimer
  <2>1. /\ loop' = "refreshing" /\ due' = CallDelay /\ due' \in 0 .. CallDelay
        /\ "down" \in seen' => ~up
    BY <1>1, RefreshOnceTyped
  <2>2. Types' /\ Alive'
    BY <1>1, <2>1 DEF IInv, Types, Alive, SleepEnds, Enabled
  <2>3. Waits'
    BY <2>1, ClockAssumption DEF IInv, Types, Waits, SleepEnds
  <2>. QED BY <2>2, <2>3 DEF IInv
<1>2. CASE loop' = "none" /\ ScheduleNextResetAlignment /\ UNCHANGED <<due, seen>>
  BY <1>2, ScheduledTimer DEF IInv, Types, Waits, Alive, SleepEnds, Enabled
<1> QED BY <1>1, <1>2 DEF SleepEnds

LEMMA StopIInv == ASSUME IInv, Stop PROVE IInv'
BY DEF IInv, Types, Waits, Alive, Stop, Enabled

LEMMA UpstreamChangesIInv == ASSUME IInv, UpstreamChanges PROVE IInv'
<1>1. Types' /\ Alive'
  BY DEF IInv, Types, Alive, UpstreamChanges, Enabled
<1>2. Waits'
  <2>1. upFor' = 0 /\ loop' = loop /\ due' = due
    BY DEF UpstreamChanges
  <2>. QED BY <2>1, ClockAssumption DEF IInv, Types, Waits
<1>. QED BY <1>1, <1>2 DEF IInv

LEMMA TickIInv == ASSUME IInv, Tick PROVE IInv'
<1>1. clock' \in Nat
  BY ClockAssumption DEF IInv, Types, Tick, Week
<1>2. resetTimer' \in Int \cup {None} /\ (resetTimer' = None <=> resetTimer = None)
  BY ClockAssumption DEF IInv, Types, Tick
<1>3. Types' /\ Alive'
  BY <1>1, <1>2 DEF IInv, Types, Alive, Tick, Enabled
<1>4. Waits'
  BY ClockAssumption DEF IInv, Types, Waits, Tick
<1> QED BY <1>3, <1>4 DEF IInv

LEMMA NextIInv == IInv /\ [Next]_vars => IInv'
<1> SUFFICES ASSUME IInv, [Next]_vars PROVE IInv'
  OBVIOUS
<1>1. CASE Scheduler
  BY <1>1, OpenWindowIInv, RefreshReturnsIInv, SleepEndsIInv DEF Scheduler
<1>2. CASE Stop \/ UpstreamChanges \/ Tick
  BY <1>2, StopIInv, UpstreamChangesIInv, TickIInv
<1>3. CASE UNCHANGED vars
  BY <1>3, Zenon DEF IInv, Types, Waits, Alive, vars, Enabled
<1> QED BY <1>1, <1>2, <1>3 DEF Next
-----------------------------------------------------------------------------
\* The strengthening holds in every reachable state.
THEOREM Inductive == Spec => []IInv
BY InitIInv, NextIInv, PTL DEF Spec

\* A started scheduler always has exactly one of a timer and a window: no order of calls,
\* outages and late callbacks kills it or starts a second loop.
THEOREM AliveHolds == Spec => []Alive
<1>1. IInv => Alive
  BY DEF IInv
<1> QED BY <1>1, Inductive, PTL

\* No window stays open with upstream back for longer than one pause and two calls: the one
\* that was sent in the outage and fails late, and the one after the pause.
THEOREM SelfHealsHolds == Spec => []SelfHeals
<1>1. IInv => SelfHeals
  BY ClockAssumption DEF IInv, Types, Waits, SelfHeals
<1> QED BY <1>1, Inductive, PTL

\* A window closes with new data or after its full length, its last call having met upstream
\* down, one call and one pause ago at most.
THEOREM GivesUpLateHolds == Spec => GivesUpLate
<1> DEFINE Justified ==
      loop # "none" /\ loop' = "none" /\ ~stopped /\ ~stopped' =>
          \/ loop = "refreshing" /\ "up" \in seen
          \/ left = 0 /\ upFor <= CallDelay + Interval + Late
<1>1. IInv /\ [Next]_vars => [Justified]_vars
  <2> SUFFICES ASSUME IInv, Next PROVE Justified
    OBVIOUS
  <2>1. CASE OpenWindow
    BY <2>1 DEF OpenWindow, RefreshOnce
  <2>2. CASE RefreshReturns
    BY <2>2 DEF RefreshReturns
  <2>3. CASE SleepEnds
    BY <2>3, ClockAssumption DEF SleepEnds, RefreshOnce, IInv, Types, Waits
  <2>4. CASE Stop \/ UpstreamChanges \/ Tick
    BY <2>4 DEF Stop, UpstreamChanges, Tick, IInv, Types
  <2> QED BY <2>1, <2>2, <2>3, <2>4 DEF Next, Scheduler
<1> QED BY <1>1, Inductive, PTL DEF Spec, GivesUpLate

\* Once stop() has returned, no call of forceRefresh begins.
THEOREM NothingAfterStopHolds == Spec => NothingAfterStop
<1> DEFINE Quiet == stopped => (loop' = "refreshing" => loop = "refreshing")
\* stop() cleared the timer for good, so that no window opens.
<1> DEFINE NoTimer == stopped => resetTimer = None
<1>1. Init => NoTimer
  BY DEF Init
<1>2. IInv /\ NoTimer /\ [Next]_vars => NoTimer'
  BY DEF IInv, Types, Next, Scheduler, OpenWindow, RefreshReturns, SleepEnds, Stop,
         UpstreamChanges, Tick, ScheduleNextResetAlignment, vars
<1>3. NoTimer /\ [Next]_vars => [Quiet]_vars
  BY DEF Next, Scheduler, OpenWindow, RefreshOnce, RefreshReturns, SleepEnds, Stop,
         UpstreamChanges, Tick, vars
<1> QED BY <1>1, <1>2, <1>3, Inductive, PTL DEF Spec, NothingAfterStop
-----------------------------------------------------------------------------
(* The alignment with the reset *)

LEMMA DivMod ==
    ASSUME NEW x \in Int, NEW w \in Nat \ {0}
    PROVE  x \div w \in Int /\ x % w \in 0 .. w - 1 /\ x = w * (x \div w) + (x % w)
OBVIOUS

LEMMA ModUnique ==
    ASSUME NEW w \in Nat \ {0}, NEW q \in Int, NEW r \in 0 .. w - 1
    PROVE  (w * q + r) % w = r
OBVIOUS

LEMMA Times ==
    ASSUME NEW a \in Int, NEW b \in Int, NEW w \in Nat, a <= b PROVE a * w <= b * w
OBVIOUS

LEMMA WeekIsNat == Week \in Nat \ {0} /\ ResetAt \in 0 .. Week - 1
<1>1. ResetDay * DayLen <= 6 * DayLen /\ ResetDay * DayLen \in Nat
  BY ClockAssumption, Times
<1>. QED BY <1>1, ClockAssumption DEF Week, ResetAt

\* A whole number of weeks changes nothing.
LEMMA SameTime ==
    ASSUME NEW x \in Int, NEW n \in Int PROVE (x + n * Week) % Week = x % Week
<1>. DEFINE q == x \div Week
            r == x % Week
<1>1. q \in Int /\ r \in 0 .. Week - 1 /\ x = Week * q + r
  BY WeekIsNat, DivMod
<1>. HIDE DEF q, r
<1>2. Week * (q + n) + r = x + n * Week
  BY <1>1, WeekIsNat
<1>3. (Week * (q + n) + r) % Week = r
  BY <1>1, WeekIsNat, ModUnique
<1>. QED BY <1>2, <1>3 DEF r

\* The time until the next reset ends at one, and is a week at most.
LEMMA NextResetIsAligned ==
    ASSUME NEW k \in 0 .. Week - 1
    PROVE  /\ UntilNextReset(k) \in Int /\ UntilNextReset(k) <= Week
           /\ (k + UntilNextReset(k)) % Week = ResetAt
<1>. DEFINE day == k \div DayLen
            ahead == (ResetDay - day + 7) % 7
            target == (day + ahead) * DayLen + ResetTime
            rest == IF target <= k THEN target + Week ELSE target
<1>1. k \in Nat /\ DayLen \in Nat \ {0} /\ ResetDay \in 0 .. 6 /\ ResetTime \in 0 .. DayLen - 1
      /\ Week = 7 * DayLen
  BY ClockAssumption, WeekIsNat DEF Week
<1>2. day \in Int /\ DayLen * day <= k /\ k < DayLen * day + DayLen
  BY <1>1, DivMod
<1>. HIDE DEF day
<1>3. day \in 0 .. 6
  <2>1. day >= 0
    <3>. SUFFICES ASSUME day <= -1 PROVE FALSE
      BY <1>2
    <3>1. day * DayLen <= (-1) * DayLen
      BY <1>1, <1>2, Times
    <3>. QED BY <1>1, <1>2, <3>1
  <2>2. day <= 6
    <3>. SUFFICES ASSUME 7 <= day PROVE FALSE
      BY <1>2
    <3>1. 7 * DayLen <= day * DayLen
      BY <1>1, <1>2, Times
    <3>. QED BY <1>1, <1>2, <3>1
  <2>. QED BY <1>2, <2>1, <2>2
<1>4. PICK e \in {0, 1} : day + ahead = ResetDay + 7 * e /\ (e = 1 <=> ResetDay < day)
  BY <1>1, <1>3
<1>. HIDE DEF ahead
<1>5. target = ResetAt + e * Week /\ target \in Int
  <2>1. (ResetDay + 7 * e) * DayLen = ResetDay * DayLen + e * (7 * DayLen)
    BY <1>1
  <2>. QED BY <1>1, <1>4, <2>1 DEF ResetAt
<1>6. ResetAt \in Int /\ Week \in Int /\ 0 <= ResetAt /\ ResetAt < Week /\ 0 <= k /\ k < Week
  BY WeekIsNat
<1>7. e = 1 => ResetAt < k
  <2>. SUFFICES ASSUME ResetDay + 1 <= day PROVE ResetAt < k
    BY <1>1, <1>3, <1>4
  <2>1. (ResetDay + 1) * DayLen <= day * DayLen
    BY <1>1, <1>3, Times
  <2>. QED BY <1>1, <1>2, <1>6, <2>1 DEF ResetAt
<1>. HIDE DEF target
<1>8. UntilNextReset(k) = rest - k
  BY DEF UntilNextReset, day, ahead, target
<1>9. PICK n \in {0, 1, 2} : rest = ResetAt + n * Week /\ rest <= k + Week
  <2>1. CASE target <= k
    <3>1. e = 0
      BY <1>4, <1>5, <1>6, <2>1
    <3>. QED BY <1>5, <1>6, <2>1, <3>1
  <2>2. CASE ~(target <= k)
    BY <1>4, <1>5, <1>6, <1>7, <2>2
  <2>. QED BY <2>1, <2>2
<1>. HIDE DEF rest
<1>10. rest \in Int /\ k + (rest - k) = rest
  BY <1>6, <1>9
<1>11. rest % Week = ResetAt
  <2>1. ResetAt % Week = ResetAt
    BY WeekIsNat
  <2>2. (ResetAt + n * Week) % Week = ResetAt % Week
    <3>1. ResetAt \in Int /\ n \in Int
      BY <1>6
    <3>. QED BY <3>1, SameTime, Zenon
  <2>. QED BY <1>9, <2>1, <2>2
<1>. QED BY <1>6, <1>8, <1>9, <1>10, <1>11

\* The clock stays within the week.
AInv == clock \in 0 .. Week - 1 /\ Aligned

LEMMA AInvNext == IInv /\ AInv /\ [Next]_vars => AInv'
<1>. SUFFICES ASSUME IInv, AInv, [Next]_vars PROVE AInv'
  OBVIOUS
<1>1. CASE UNCHANGED clock /\ ScheduleNextResetAlignment
  BY <1>1, NextResetIsAligned DEF ScheduleNextResetAlignment, AInv, Aligned
<1>2. CASE UNCHANGED clock /\ resetTimer' \in {resetTimer, None}
  BY <1>2 DEF AInv, Aligned
<1>3. CASE Tick
  <2>1. clock \in Int /\ clock + 1 \in Int /\ clock' = (clock + 1) % Week
    BY <1>3, WeekIsNat DEF AInv, Tick
  <2>2. PICK n \in Int : clock' = clock + 1 + n * Week
    <3>1. clock + 1 = Week * ((clock + 1) \div Week) + clock' /\ (clock + 1) \div Week \in Int
      BY <2>1, WeekIsNat, DivMod
    <3>. DEFINE q == (clock + 1) \div Week
    <3>. HIDE DEF q
    <3>2. clock' = clock + 1 + (-q) * Week /\ -q \in Int
      <4>1. clock + 1 = Week * q + clock' /\ q \in Int /\ clock' \in Int
        BY <2>1, <3>1, WeekIsNat, DivMod DEF q
      <4>. QED BY <2>1, <4>1, WeekIsNat
    <3>. QED BY <3>2
  <2>3. clock' \in 0 .. Week - 1
    BY <2>1, WeekIsNat, DivMod
  <2>4. ASSUME resetTimer # None
        PROVE  (clock' + resetTimer') % Week = ResetAt /\ resetTimer' <= Week
    <3>1. resetTimer \in Int /\ resetTimer' = resetTimer - 1
          /\ (clock + resetTimer) % Week = ResetAt /\ resetTimer <= Week
      BY <1>3, <2>4 DEF Tick, IInv, Types, AInv, Aligned
    <3>2. clock' + resetTimer' = (clock + resetTimer) + n * Week
      BY <2>1, <2>2, <3>1, WeekIsNat
    <3>3. clock + resetTimer \in Int
      BY <2>1, <3>1
    <3>4. ((clock + resetTimer) + n * Week) % Week = (clock + resetTimer) % Week
      BY <3>3, SameTime
    <3>5. (clock' + resetTimer') % Week = ResetAt
      BY <3>1, <3>2, <3>4
    <3>. QED BY <3>1, <3>5, WeekIsNat
  <2>5. resetTimer = None => resetTimer' = None
    BY <1>3 DEF Tick
  <2>. QED BY <2>3, <2>4, <2>5 DEF AInv, Aligned
<1>. QED BY <1>1, <1>2, <1>3
         DEF Next, Scheduler, OpenWindow, RefreshReturns, SleepEnds, Stop, UpstreamChanges, vars

LEMMA AInvInit == Init => AInv
BY NextResetIsAligned DEF Init, AInv, Aligned

\* The timer is aligned with a reset at all times, and with the next one, whatever the length of the
\* day and the window, and however late the callbacks.
THEOREM AlignedHolds == Spec => []Aligned
<1>1. AInv => Aligned
  BY DEF AInv
<1>. QED BY <1>1, AInvInit, AInvNext, Inductive, PTL DEF Spec
=============================================================================

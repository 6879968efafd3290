------------------------- MODULE CalendarScheduler -------------------------
(***************************************************************************)
(* The scheduler that refreshes gamecontents.calendar after the weekly     *)
(* reset (packages/data-service/src/cache/calendar-refresh-scheduler.ts).  *)
(*                                                                         *)
(* A setTimeout is aligned with the next reset; when it fires, a loop      *)
(* retries forceRefresh (StartRefresh in DomainCache) every Interval until *)
(* one succeeds or the window is over, and the timer is set again.         *)
(*                                                                         *)
(* The clock is the KST time of the week, so the state space is finite     *)
(* without a bound on time.  Timers hold the time that is left; a callback *)
(* may run up to Late units after its time, never before.                  *)
(***************************************************************************)
EXTENDS Integers

CONSTANTS
    DayLen,      \* units of time in a day
    ResetDay, ResetTime,  \* the weekly reset: day of the week, time of the day
    Window,      \* how long a window retries
    Interval,    \* pause between two attempts
    CallDelay,   \* longest time one forceRefresh takes
    Late,        \* longest delay of a timer callback
    None         \* null: no timer

ASSUME ClockAssumption ==
    /\ {DayLen, Window, Interval} \subseteq Nat \ {0}
    /\ {CallDelay, Late} \subseteq Nat
    /\ ResetDay \in 0 .. 6 /\ ResetTime \in 0 .. (DayLen - 1)
    /\ None \notin Int

VARIABLES
    setting,     \* CACHE_GAMECONTENTS_CALENDAR_REFRESH_ENABLED, as the process got it
    clock,       \* KST time of the week
    resetTimer,  \* time left on the timer aligned with the reset
    loop,        \* where runResetWindow is, if it runs
    due,         \* time left on the await of the loop: its sleep, or its call at most
    left,        \* time left until the deadline of the window
    stopped,
    up,          \* upstream answers: no maintenance, no error
    seen,        \* history: what upstream has been during the call under way
    upFor        \* history: how long it has been up during the present window

vars == <<setting, clock, resetTimer, loop, due, left, stopped, up, seen, upFor>>
-----------------------------------------------------------------------------
Week == 7 * DayLen
ResetAt == ResetDay * DayLen + ResetTime
Settings == {"unset", "empty", "true", "false"}

\* z.coerce.boolean().default(true): only the empty string is false.
Enabled(s) == s # "empty"

\* computeMsUntilNextReset
UntilNextReset(kst) ==
    LET day == kst \div DayLen
        target == (day + ((ResetDay - day + 7) % 7)) * DayLen + ResetTime
    IN  (IF target <= kst THEN target + Week ELSE target) - kst

Init ==
    /\ setting \in Settings
    /\ clock \in 0 .. (Week - 1)
    /\ resetTimer = IF Enabled(setting) THEN UntilNextReset(clock) ELSE None
    /\ loop = "none"
    /\ due = 0 /\ left = 0 /\ upFor = 0
    /\ stopped = FALSE
    /\ up \in BOOLEAN /\ seen = {}
-----------------------------------------------------------------------------
\* mutant: a fixed period, measured from the end of the window
ScheduleWeekly == resetTimer' = IF stopped THEN None ELSE Week

\* scheduleNextResetAlignment
ScheduleNextResetAlignment ==
    resetTimer' = IF stopped THEN None ELSE UntilNextReset(clock)

\* refreshOnce, up to its await.
RefreshOnce ==
    /\ loop' = "refreshing" /\ due' = CallDelay
    /\ seen' = IF up THEN {"up"} ELSE {"down"}

\* mutant: the next alignment is scheduled when the window opens, too
OpenWindowRescheduling ==
    /\ resetTimer # None /\ resetTimer <= 0
    /\ ScheduleNextResetAlignment
    /\ RefreshOnce
    /\ left' = Window /\ upFor' = 0
    /\ UNCHANGED <<setting, clock, stopped, up>>

\* The timer fires: runResetWindow up to its first await.
OpenWindow ==
    /\ resetTimer # None /\ resetTimer <= 0
    /\ resetTimer' = None
    /\ RefreshOnce
    /\ left' = Window /\ upFor' = 0
    /\ UNCHANGED <<setting, clock, stopped, up>>

\* mutant: any outcome closes the window
RefreshReturnsClosing ==
    /\ loop = "refreshing"
    /\ loop' = "none" /\ ScheduleNextResetAlignment /\ UNCHANGED due
    /\ seen' = {}
    /\ UNCHANGED <<setting, clock, left, stopped, up, upFor>>

\* mutant: the outcome is not looked at
RefreshReturnsBlindly ==
    /\ loop = "refreshing"
    /\ loop' = "sleeping" /\ due' = Interval
    /\ seen' = {}
    /\ UNCHANGED <<setting, clock, resetTimer, left, stopped, up, upFor>>

\* "refreshed" closes the window early; any other outcome is retried after a sleep,
\* which starts even if stop() was called meanwhile.  The outcome is that of attempts
\* sent earlier: the call can have met upstream as it was at any moment since it began,
\* so that it may fail after upstream's return and succeed after upstream's failure.
RefreshReturns ==
    /\ loop = "refreshing"
    /\ \/ "up" \in seen
          /\ loop' = "none" /\ ScheduleNextResetAlignment /\ UNCHANGED due
       \/ "down" \in seen
          /\ loop' = "sleeping" /\ due' = Interval /\ UNCHANGED resetTimer
    /\ seen' = {}
    /\ UNCHANGED <<setting, clock, left, stopped, up, upFor>>

\* mutant: the loop looks at the deadline only
SleepEndsUnaware ==
    /\ loop = "sleeping" /\ due <= 0
    /\ \/ left > 0 /\ RefreshOnce /\ UNCHANGED resetTimer
       \/ left <= 0 /\ loop' = "none" /\ ScheduleNextResetAlignment
          /\ UNCHANGED <<due, seen>>
    /\ UNCHANGED <<setting, clock, left, stopped, up, upFor>>

\* mutant: an exhausted window does not schedule the next one
SleepEndsOnce ==
    /\ loop = "sleeping" /\ due <= 0
    /\ \/ ~stopped /\ left > 0
          /\ RefreshOnce /\ UNCHANGED resetTimer
       \/ (stopped \/ left <= 0)
          /\ loop' = "none" /\ UNCHANGED <<due, resetTimer, seen>>
    /\ UNCHANGED <<setting, clock, left, stopped, up, upFor>>

\* while (!stopped && Date.now() < deadline)
SleepEnds ==
    /\ loop = "sleeping" /\ due <= 0
    /\ \/ ~stopped /\ left > 0
          /\ RefreshOnce /\ UNCHANGED resetTimer
       \/ (stopped \/ left <= 0)
          /\ loop' = "none" /\ ScheduleNextResetAlignment /\ UNCHANGED <<due, seen>>
    /\ UNCHANGED <<setting, clock, left, stopped, up, upFor>>

\* stop() of the handle; a disabled scheduler returned a handle that does nothing.
\* A sleeping loop is resumed and ends; a call in flight is left alone.
Stop ==
    /\ Enabled(setting)
    /\ stopped' = TRUE
    /\ resetTimer' = None
    /\ loop' = IF loop = "sleeping" THEN "none" ELSE loop
    /\ UNCHANGED <<setting, clock, due, left, up, seen, upFor>>

\* Maintenance or an outage begins or ends.
UpstreamChanges ==
    /\ up' = ~up
    /\ upFor' = 0
    /\ seen' = IF loop = "refreshing" THEN {"up", "down"} ELSE seen
    /\ UNCHANGED <<setting, clock, resetTimer, loop, due, left, stopped>>

Tick ==
    /\ resetTimer # None => resetTimer > -Late
    /\ loop = "refreshing" => due > 0
    /\ loop = "sleeping" => due > -Late
    /\ clock' = (clock + 1) % Week
    /\ resetTimer' = IF resetTimer = None THEN None ELSE resetTimer - 1
    /\ due' = IF loop = "none" THEN due ELSE due - 1
    /\ left' = IF left > 0 THEN left - 1 ELSE 0
    /\ upFor' = IF up /\ loop # "none" THEN upFor + 1 ELSE 0
    /\ UNCHANGED <<setting, loop, stopped, up, seen>>

Scheduler == OpenWindow \/ RefreshReturns \/ SleepEnds

Next == Scheduler \/ Stop \/ UpstreamChanges \/ Tick

Spec == Init /\ [][Next]_vars

\* Node runs the callbacks of timers and settled promises, and time passes.
FairSpec == Spec /\ WF_vars(Scheduler) /\ WF_vars(Tick)
-----------------------------------------------------------------------------
(* Properties.                                                             *)

TypeOK ==
    /\ setting \in Settings
    /\ clock \in 0 .. (Week - 1)
    /\ resetTimer \in (-Late .. Week) \cup {None}
    /\ loop \in {"none", "refreshing", "sleeping"}
    /\ due \in -Late .. (IF Interval > CallDelay THEN Interval ELSE CallDelay)
    /\ left \in 0 .. Window
    /\ stopped \in BOOLEAN /\ up \in BOOLEAN
    /\ seen \subseteq {"up", "down"} /\ upFor \in Nat

\* A scheduler that was started and not stopped is either waiting for the next reset
\* or in a window, never both and never neither: it cannot die or run two loops.
Alive == Enabled(setting) /\ ~stopped => (resetTimer = None <=> loop # "none")

\* The timer is always aligned with a reset, and with the next one: neither the length
\* of a window nor late callbacks make the schedule drift or skip a week.
Aligned == resetTimer # None =>
    (clock + resetTimer) % Week = ResetAt /\ resetTimer <= Week

\* Self-heal: no window stays open with upstream back for longer than one pause and two
\* calls, the one that was sent in the outage and fails late and the one after the pause:
\* it has then closed, with new data or (GivesUpLate) because it was over.
SelfHeals == loop # "none" /\ ~stopped => upFor <= CallDelay + Interval + Late + CallDelay

\* A window closes early only with new data, from a call that met upstream up; otherwise
\* it has lasted its full length, and the last call had met upstream down, so that it has
\* been back for one call and one pause at most.
GivesUpLate ==
    [][ loop # "none" /\ loop' = "none" /\ ~stopped /\ ~stopped' =>
          \/ loop = "refreshing" /\ "up" \in seen
          \/ left = 0 /\ upFor <= CallDelay + Interval + Late ]_vars

\* Once stop() has returned no call of forceRefresh begins, although the loop may
\* still be waiting for a call, and then for a sleep that began after stop().
NothingAfterStop == [][ stopped => (loop' = "refreshing" => loop = "refreshing") ]_vars

\* Until it is stopped, the scheduler never ceases to try: one window per week.
KeepsAttempting == Enabled(setting) => []<>(loop = "refreshing") \/ <>stopped
=============================================================================

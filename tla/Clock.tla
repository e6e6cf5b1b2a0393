------------------------------- MODULE Clock -------------------------------
(***************************************************************************)
(* rtc.c as configured (periodic task, no calendar, no power management):  *)
(* the RTC counter, rtc_isr, and the functions that main calls between its *)
(* interrupts.  A 32-bit number is read as two halves, in the order the    *)
(* compiler chose, and the interrupt may come between them.                *)
(*                                                                         *)
(* RTCCNT is kept as RTCCNT >> 5, a number of quarters of a tick (of ms).  *)
(* rtc_isr lasts for less than a quarter, or for up to Task quarters more  *)
(* when it calls rtc_periodic_task.  Its own RTIF flag is cleared at its   *)
(* end, so that a tick that ends before is lost.                           *)
(***************************************************************************)
EXTENDS Naturals

CONSTANTS
  HZ,        \* ticks in a second
  Half, Tops,  \* values of the low and of the high half of a uint32_t
  Task,      \* quarters of a tick rtc_periodic_task may take
  Delays,    \* arguments of delay_ticks and rtc_set_timeout
  Periods    \* arguments of rtc_set_periodic_task_period

ASSUME ClockAssumption ==
  /\ HZ \in Nat \ {0} /\ Half \in Nat \ {0} /\ Tops \in Nat \ {0}
  /\ Task \in Nat
  /\ Delays \subseteq Nat /\ \E d \in Delays : \A e \in Delays : e <= d
  /\ Periods \subseteq Nat \ {0} /\ \E p \in Periods : \A q \in Periods : q <= p

VARIABLES
  cnt,       \* RTCCNT >> 5
  rtif,      \* RTCSC_RTIF
  inIsr, busy,        \* rtc_isr runs, and for how many quarters more
  ticks, uptime, ms,  \* ticks, uptime, ms_uptime
  tout,      \* wait_for_tout1 of delay_ticks, wait_for_tout2 of rtc_set_timeout
  period, pcnt,       \* ticks_ptask_tout, ticks_ptask_cnt
  at,        \* where main is
  todo, got, \* the halves it has still to read, and what it read
  timer,     \* the countdown it waits for
  ms1,       \* its local of that name
  spent,     \* RTCCNT >> 5 moved while main was reading
  \* What the properties compare with:
  from,      \* the clock when the call began
  asked, age,  \* ticks to wait, and quarters since the wait began
  since      \* ticks since the periodic task ran or was set

readVars == <<todo, got, ms1, from>>
waitVars == <<timer, asked>>
taskVars == <<period, pcnt, since>>
tickVars == <<ticks, uptime, ms>>
rtcVars == <<cnt, rtif, inIsr, busy>>
clockVars == <<at, readVars, spent, tout, waitVars, age, taskVars, tickVars, rtcVars>>

Quarters == 4
Word == Tops * Half
Halves == {"hi", "lo"}
Timers == {1, 2}
Longest == CHOOSE d \in Delays : \A e \in Delays : e <= d
MaxPeriod == CHOOSE p \in Periods : \A q \in Periods : q <= p
MaxWait == Quarters * (Longest + 1) + Task

ClockTypeOK ==
  /\ cnt \in 0 .. Quarters - 1
  /\ rtif \in BOOLEAN /\ inIsr \in BOOLEAN
  /\ busy \in 0 .. Task
  /\ ticks \in 0 .. HZ - 1 /\ uptime \in 0 .. Word - 1 /\ ms \in 0 .. Word - 1
  /\ tout \in [Timers -> 0 .. Longest] /\ timer \in Timers
  /\ asked \in Delays \cup {0} /\ age \in 0 .. MaxWait
  /\ period \in Periods \cup {0}
  /\ pcnt \in 0 .. MaxPeriod - 1 /\ since \in 0 .. MaxPeriod
  /\ at \in {"idle", "uptime", "ms1", "ms", "delay", "period"}
  /\ todo \subseteq Halves
  /\ got \in [Halves -> Nat] /\ got["hi"] < Tops /\ got["lo"] < Half
  /\ ms1 \in 0 .. Quarters - 1
  /\ spent \in BOOLEAN /\ from \in 0 .. Word - 1

ClockInit ==
  /\ cnt = 0 /\ rtif = FALSE /\ inIsr = FALSE /\ busy = 0
  /\ ticks = 0 /\ uptime = 0 /\ ms = 0
  /\ tout = [t \in Timers |-> 0] /\ timer = 1 /\ asked = 0 /\ age = 0
  /\ period = 0 /\ pcnt = 0 /\ since = 0
  /\ at = "idle" /\ todo = {} /\ got = [h \in Halves |-> 0] /\ ms1 = 0
  /\ spent = FALSE /\ from = 0

----------------------------------------------------------------------------
(* The interrupt *)

SecondIsFull == ticks + 1 >= HZ

NewSeconds == (ticks + 1) \div HZ

\* check_clock_and_update
CheckClock ==
  /\ ms' = (ms + 4) % Word
  /\ IF SecondIsFull
     THEN /\ uptime' = (uptime + NewSeconds) % Word
          /\ ticks' = (ticks + 1) % HZ
     ELSE /\ ticks' = ticks + 1
          /\ UNCHANGED uptime

\* check_periodic_task
TaskDue == period # 0 /\ pcnt + 1 >= period

CheckTask ==
  /\ UNCHANGED period
  /\ IF TaskDue
     THEN pcnt' = 0 /\ since' = 0 /\ busy' \in {0, Task}
     ELSE /\ pcnt' = IF period # 0 THEN pcnt + 1 ELSE pcnt
          /\ since' = IF since < period THEN since + 1 ELSE since
          /\ busy' = 0

CountDown(t) == IF t > 0 THEN t - 1 ELSE 0

RtcIsr ==
  /\ rtif /\ ~inIsr
  /\ inIsr' = TRUE
  /\ tout' = [t \in Timers |-> CountDown(tout[t])]
  /\ CheckClock
  /\ CheckTask
  /\ UNCHANGED <<at, readVars, spent, waitVars, age, cnt, rtif>>

\* Its last statement, RTCSC_RTIF = 1.
RtcIsrEnd ==
  /\ inIsr /\ busy = 0
  /\ inIsr' = FALSE /\ rtif' = FALSE
  /\ UNCHANGED <<at, readVars, spent, tout, waitVars, age, taskVars, tickVars, cnt, busy>>

\* A quarter of a tick goes by: while main runs, or within a long periodic task.
\* RTCCNT >> 5 moves once at most in the course of rtc_get_uptime and of one turn
\* of rtc_get_ms_uptime, and not before a wait that is over ends, interruptions aside.
Older == IF at = "delay" /\ age < MaxWait THEN age + 1 ELSE age

Advance ==
  /\ IF inIsr THEN busy > 0 ELSE ~rtif /\ ~spent /\ ~(at = "delay" /\ tout[timer] = 0)
  /\ busy' = IF inIsr THEN busy - 1 ELSE busy
  /\ spent' = (spent \/ (~inIsr /\ at \in {"uptime", "ms1", "ms"}))
  /\ cnt' = (cnt + 1) % Quarters
  /\ rtif' = (rtif \/ cnt' = 0)
  /\ age' = Older
  /\ UNCHANGED <<at, readVars, tout, waitVars, taskVars, tickVars, inIsr>>

----------------------------------------------------------------------------
(* main, between two interrupts *)
Main == ~rtif /\ ~inIsr /\ UNCHANGED <<rtcVars, tickVars>>

Now == (ms + cnt) % Word

\* Faulty: the halves are exchanged.
PartSwapped(n, h) == IF h = "hi" THEN n % Half ELSE n \div Half

Part(n, h) == IF h = "hi" THEN n \div Half ELSE n % Half

Value(g) == g["hi"] * Half + g["lo"]

\* One of the halves that are left, in whichever order.
ReadHalf(n) ==
  \E h \in todo :
    /\ got' = [got EXCEPT ![h] = Part(n, h)]
    /\ todo' = todo \ {h}

NothingRead == todo' = {} /\ got' = [h \in Halves |-> 0] /\ ms1' = 0 /\ from' = 0

\* rtc_get_uptime
GetUptime ==
  /\ Main /\ at = "idle"
  /\ at' = "uptime" /\ todo' = Halves /\ from' = uptime
  /\ UNCHANGED <<got, ms1, spent, tout, waitVars, age, taskVars>>

ReadUptime ==
  /\ Main /\ at = "uptime"
  /\ ReadHalf(uptime)
  /\ UNCHANGED <<at, ms1, from, spent, tout, waitVars, age, taskVars>>

ReturnUptime ==
  /\ Main /\ at = "uptime" /\ todo = {}
  /\ at' = "idle" /\ NothingRead /\ spent' = FALSE
  /\ UNCHANGED <<tout, waitVars, age, taskVars>>

\* rtc_get_ms_uptime: its loop reads RTCCNT, ms_uptime and RTCCNT.
GetMsUptime ==
  /\ Main /\ at = "idle"
  /\ at' = "ms1" /\ from' = Now
  /\ UNCHANGED <<todo, got, ms1, spent, tout, waitVars, age, taskVars>>

ReadMs1 ==
  /\ Main /\ at = "ms1"
  /\ at' = "ms" /\ todo' = Halves
  /\ ms1' = cnt /\ spent' = FALSE
  /\ UNCHANGED <<got, from, tout, waitVars, age, taskVars>>

ReadMs ==
  /\ Main /\ at = "ms"
  /\ ReadHalf(ms)
  /\ UNCHANGED <<at, ms1, from, spent, tout, waitVars, age, taskVars>>

\* Faulty: the loop does not ask RTCCNT again.
NotMovedAlways == TRUE

NotMoved == cnt = ms1

ReadMs2 ==
  /\ Main /\ at = "ms" /\ todo = {}
  /\ \/ NotMoved /\ at' = "idle" /\ NothingRead
     \/ ~NotMoved /\ at' = "ms1" /\ UNCHANGED readVars
  /\ spent' = FALSE
  /\ UNCHANGED <<tout, waitVars, age, taskVars>>

\* delay_ticks, and rtc_set_timeout followed by a loop on rtc_timeout_expired.
Delay ==
  /\ Main /\ at = "idle"
  /\ at' = "delay"
  /\ timer' \in Timers /\ asked' \in Delays /\ age' = 0
  /\ tout' = [tout EXCEPT ![timer'] = asked']
  /\ UNCHANGED <<readVars, spent, taskVars>>

\* Faulty: the wait ends one count early.
ExpiredEarly == tout[timer] <= 1

Expired == tout[timer] = 0

DelayOver ==
  /\ Main /\ at = "delay" /\ Expired
  /\ at' = "idle"
  /\ timer' = 1 /\ asked' = 0 /\ age' = 0
  /\ UNCHANGED <<readVars, spent, tout, taskVars>>

\* rtc_set_periodic_task_period: two assignments.
SetPeriod ==
  /\ Main /\ at = "idle"
  /\ period' \in Periods /\ at' = "period"
  /\ UNCHANGED <<readVars, spent, tout, waitVars, age, pcnt, since>>

\* Faulty: the count goes on from where it was.
RestartNothing ==
  /\ Main /\ at = "period"
  /\ since' = 0 /\ at' = "idle"
  /\ UNCHANGED <<readVars, spent, tout, waitVars, age, period, pcnt>>

RestartCount ==
  /\ Main /\ at = "period"
  /\ pcnt' = 0 /\ since' = 0 /\ at' = "idle"
  /\ UNCHANGED <<readVars, spent, tout, waitVars, age, period>>

\* rtc_cancel_periodic_task
CancelTask ==
  /\ Main /\ at = "idle"
  /\ period' = 0
  /\ UNCHANGED <<at, readVars, spent, tout, waitVars, age, pcnt, since>>

ClockNext ==
  \/ RtcIsr \/ RtcIsrEnd \/ Advance
  \/ GetUptime \/ ReadUptime \/ ReturnUptime
  \/ GetMsUptime \/ ReadMs1 \/ ReadMs \/ ReadMs2
  \/ Delay \/ DelayOver
  \/ SetPeriod \/ RestartCount \/ CancelTask

ClockSpec == ClockInit /\ [][ClockNext]_clockVars

----------------------------------------------------------------------------
Between(a, v, b) == (v + Word - a) % Word <= (b + Word - a) % Word

(***************************************************************************)
(* What rtc_get_ms_uptime returns is a time between that of its call and   *)
(* that of its return, though it reads RTCCNT and the halves of ms_uptime  *)
(* one after the other with interrupts in between; and so is what          *)
(* rtc_get_uptime returns, unless the low half of uptime overflowed in     *)
(* that time.                                                              *)
(***************************************************************************)
TimesAreNow ==
  [][at' = "idle" =>
       /\ at = "ms" => Between(from, (Value(got) + ms1) % Word, Now)
       /\ at = "uptime" =>
            Between(from, Value(got), uptime) \/ Part(from, "hi") # Part(uptime, "hi")]_clockVars

(***************************************************************************)
(* A wait lasts for all of its ticks but the first, which may be nearly    *)
(* over, and no longer than it was asked to and one periodic task.         *)
(***************************************************************************)
DelaysInTime ==
  [][at = "delay" /\ at' = "idle" =>
       Quarters * (asked - 1) <= age /\ age <= Quarters * asked + Task]_clockVars

(***************************************************************************)
(* The periodic task runs exactly a period after it last ran or was set,   *)
(* but for the tick that falls into rtc_set_periodic_task_period.          *)
(***************************************************************************)
TaskOnTime ==
  [][RtcIsr /\ TaskDue /\ at # "period" => since + 1 = period]_clockVars
============================================================================

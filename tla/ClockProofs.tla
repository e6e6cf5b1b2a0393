---------------------------- MODULE ClockProofs ----------------------------
(***************************************************************************)
(* Proofs about the waits, the periodic task and the readings of Clock,    *)
(* for every wait, every period, every rate and width of the clock, and    *)
(* for tasks that take less than a tick: a longer one makes rtc_isr miss   *)
(* ticks.                                                                  *)
(***************************************************************************)
EXTENDS Clock, Integers, TLAPS

\* The task was set, or ran, as many ticks ago as rtc_isr has counted.
TaskInv ==
  /\ period \in Periods \cup {0} /\ pcnt \in Nat /\ since \in Nat
  /\ at # "period" /\ period # 0 => pcnt = since /\ pcnt < period

\* Between a tick and the interrupt that counts it no time passes, and the
\* interrupt ends before the next tick.
IsrInv ==
  /\ cnt \in 0 .. Quarters - 1 /\ busy \in 0 .. Task
  /\ rtif \in BOOLEAN /\ inIsr \in BOOLEAN
  /\ rtif /\ ~inIsr => cnt = 0
  /\ inIsr => rtif /\ cnt + busy <= Task
  /\ ~inIsr => busy = 0

Uncounted == IF rtif /\ ~inIsr THEN 1 ELSE 0
Counted == asked - tout[timer]

\* Quarters of the tick that were over when the wait began.
Before == Quarters * (Counted + Uncounted) + cnt - age

WaitInv ==
  /\ tout \in [Timers -> Nat] /\ timer \in Timers /\ asked \in Nat /\ age \in Nat
  /\ at = "delay" =>
       /\ asked \in Delays /\ tout[timer] <= asked
       /\ Before \in 0 .. Quarters - 1
       /\ tout[timer] = 0 => ~(rtif /\ ~inIsr) /\ (cnt <= Task \/ age = 0)
       /\ tout[timer] = 0 /\ inIsr => cnt + busy <= Task
       /\ asked = 0 => ~rtif /\ age = 0

IInv == IsrInv /\ WaitInv

-----------------------------------------------------------------------------
LEMMA Sorts == Task \in Nat /\ Delays \subseteq Nat /\ Periods \subseteq Nat \ {0}
BY ClockAssumption

LEMMA AtTheTick == ASSUME NEW n \in Nat, NEW c, c = 0, NEW b \in 0 .. n  PROVE c <= n /\ c + b <= n
OBVIOUS

LEMMA NoneCounted == ASSUME NEW n \in Nat, NEW c, c = n  PROVE n - c = 0
OBVIOUS

LEMMA WaitsFit ==
  ASSUME NEW d \in Delays
  PROVE  d \in Nat /\ MaxWait \in Nat /\ Quarters * d + Quarters <= MaxWait
<1>1. Longest \in Delays /\ \A e \in Delays : e <= Longest
  BY ClockAssumption DEF Longest
<1>2. Longest \in Nat /\ d \in Nat /\ d <= Longest /\ Task \in Nat
  BY <1>1, ClockAssumption
<1> QED
  BY <1>2 DEF MaxWait, Quarters

LEMMA Initially == ClockInit => IInv
<1> SUFFICES ASSUME ClockInit  PROVE IInv
  OBVIOUS
<1>2. IsrInv
  <2>1. cnt \in 0 .. Quarters - 1 /\ busy \in 0 .. Task /\ cnt = 0 /\ busy = 0
    BY ClockAssumption DEF ClockInit, Quarters
  <2>2. rtif = FALSE /\ inIsr = FALSE
    BY DEF ClockInit
  <2> QED
    BY <2>1, <2>2, Zenon DEF IsrInv
<1>3. WaitInv
  BY DEF ClockInit, WaitInv, Timers
<1> QED
  BY <1>2, <1>3 DEF IInv

LEMMA RtcIsrKeeps == ASSUME Task < Quarters, IInv, RtcIsr  PROVE IInv'
<1> USE Sorts
<1>1. rtif /\ ~inIsr /\ inIsr' = TRUE /\ UNCHANGED <<at, waitVars, age, cnt, rtif>> /\ cnt = 0
      /\ busy' \in 0 .. Task
  BY DEF RtcIsr, CheckTask, IInv, IsrInv
<1>2. cnt' = 0 /\ busy' \in 0 .. Task /\ Task \in Nat
  BY <1>1
<1>3. IsrInv'
  <2>1. cnt' + busy' <= Task /\ cnt' = 0 /\ busy' \in 0 .. Task
    BY <1>2, AtTheTick
  <2>2. rtif' /\ inIsr' = TRUE /\ rtif' \in BOOLEAN /\ cnt' \in 0 .. Quarters - 1
    BY <1>1 DEF IInv, IsrInv
  <2> QED
    BY <2>1, <2>2, Zenon DEF IsrInv
<1>4. tout' = [t \in Timers |-> CountDown(tout[t])]
  BY DEF RtcIsr
<1>5. tout' \in [Timers -> Nat]
  BY <1>4 DEF IInv, WaitInv, CountDown
<1>6. ASSUME at = "delay"
      PROVE  tout'[timer] = tout[timer] - 1 /\ tout[timer] \in Nat \ {0} /\ asked # 0
  BY <1>1, <1>4, <1>6 DEF IInv, WaitInv, CountDown
<1>7. UNCHANGED <<timer, asked, age, at, cnt>>
  BY <1>1 DEF waitVars
<1>8. WaitInv'
  <2>1. ASSUME at = "delay"
        PROVE  Before' = Before
    <3>1. Counted' = Counted + 1 /\ Counted \in Int
      <4>1. asked \in Nat /\ asked' = asked /\ timer' = timer
        BY <1>7 DEF IInv, WaitInv
      <4>2. tout'[timer] = tout[timer] - 1 /\ tout[timer] \in Nat
        BY <1>6, <2>1
      <4>3. tout'[timer'] = tout[timer] - 1
        BY <4>1, <4>2
      <4> QED
        BY <4>1, <4>2, <4>3 DEF Counted
    <3>2. Uncounted' = 0 /\ Uncounted = 1
      BY <1>1 DEF Uncounted
    <3>3. cnt' = cnt /\ age' = age
      BY <1>7
    <3> QED
      BY <3>1, <3>2, <3>3 DEF Before
  <2>2. busy' <= Task /\ cnt = 0 /\ busy' \in Nat
    BY <1>1
  <2> QED
    <3>0. cnt' <= Task /\ cnt' + busy' <= Task
      BY <1>2, AtTheTick
    <3>1. inIsr' = TRUE /\ rtif' /\ cnt' <= Task /\ cnt' + busy' <= Task
      BY <1>1, <3>0, Zenon
    <3>2. at' = "delay" => asked' \in Delays /\ tout'[timer'] <= asked' /\ Before' \in 0 .. Quarters - 1 /\ asked' # 0
      BY <1>6, <1>7, <2>1 DEF IInv, WaitInv
    <3>3. tout' \in [Timers -> Nat] /\ timer' \in Timers /\ asked' \in Nat /\ age' \in Nat
      BY <1>5, <1>7 DEF IInv, WaitInv
    <3> QED
      BY <3>1, <3>2, <3>3, Zenon DEF WaitInv
<1> QED
  BY <1>3, <1>8 DEF IInv

\* What a step does not touch keeps what is said of it.
LEMMA WaitUntouched ==
  ASSUME IInv, UNCHANGED <<tout, timer, asked, age, cnt, busy, rtif, inIsr>>, at' = "delay" <=> at = "delay"
  PROVE  WaitInv' /\ IsrInv'
BY DEF IInv, WaitInv, IsrInv, Before, Counted, Uncounted

LEMMA RtcIsrEndKeeps == ASSUME Task < Quarters, IInv, RtcIsrEnd  PROVE IInv'
<1> USE Sorts
<1>1. /\ inIsr /\ busy = 0 /\ inIsr' = FALSE /\ rtif' = FALSE
      /\ UNCHANGED <<at, tout, timer, asked, age, cnt, busy>>
  BY DEF RtcIsrEnd, waitVars
<1>2. IsrInv'
  BY <1>1 DEF IInv, IsrInv
<1>3. Uncounted' = Uncounted
  BY <1>1 DEF Uncounted
<1>4. Before' = Before
  BY <1>1, <1>3 DEF Before, Counted
<1>5. cnt <= Task
  BY <1>1 DEF IInv, IsrInv, Quarters
<1>6. WaitInv'
  BY <1>1, <1>4, <1>5 DEF IInv, WaitInv
<1> QED
  BY <1>2, <1>6 DEF IInv

LEMMA AdvanceKeeps == ASSUME Task < Quarters, IInv, Advance  PROVE IInv'
<1> USE Sorts
<1>0. Task \in Nat /\ cnt \in 0 .. 3 /\ busy \in Nat /\ rtif \in BOOLEAN /\ inIsr \in BOOLEAN
  BY DEF IInv, IsrInv, Quarters
<1>1. UNCHANGED <<at, tout, timer, asked, inIsr>>
  BY DEF Advance, waitVars
<1>2. /\ busy' = IF inIsr THEN busy - 1 ELSE busy
      /\ cnt' = (cnt + 1) % 4 /\ (rtif' <=> rtif \/ cnt' = 0)
      /\ inIsr => busy > 0 /\ rtif /\ cnt + busy <= Task
      /\ ~inIsr => ~rtif /\ busy = 0 /\ ~(at = "delay" /\ tout[timer] = 0)
  BY <1>0 DEF Advance, Quarters, IInv, IsrInv
<1>4. cnt' = IF cnt = 3 THEN 0 ELSE cnt + 1
  BY <1>0, <1>2
<1>5. inIsr => cnt < 3
  BY <1>0, <1>2 DEF Quarters
<1>6. IsrInv'
  <2>1. cnt' \in 0 .. Quarters - 1 /\ busy' \in 0 .. Task
    BY <1>0, <1>2, <1>4 DEF Quarters, IInv, IsrInv
  <2>2. rtif' \in BOOLEAN /\ inIsr' \in BOOLEAN
    BY <1>0, <1>1 DEF Advance
  <2>3. inIsr => cnt' + busy' <= Task
    BY <1>0, <1>2, <1>4, <1>5
  <2>4. ~inIsr => busy' = 0 /\ (rtif' => cnt' = 0)
    BY <1>2, Zenon
  <2>5. inIsr => rtif'
    BY <1>2, Zenon
  <2> QED
    BY <1>1, <2>1, <2>2, <2>3, <2>4, <2>5, Zenon DEF IsrInv
<1>7. WaitInv'
  <2>1. CASE at # "delay"
    BY <1>1, <2>1 DEF Advance, Older, IInv, WaitInv
  <2>2. CASE at = "delay"
    <3>0. tout[timer] \in Nat /\ asked \in Nat /\ age \in Nat /\ asked \in Delays
          /\ tout[timer] <= asked /\ Before \in 0 .. 3 /\ Counted \in Nat
      BY <2>2 DEF IInv, WaitInv, Quarters, Counted
    <3>1. age + 1 <= MaxWait /\ MaxWait \in Nat
      <4>1. Counted + Uncounted <= asked /\ Uncounted \in {0, 1}
        <5>1. Uncounted = 1 => tout[timer] > 0
          BY <2>2, <3>0 DEF IInv, WaitInv, Uncounted
        <5>2. Uncounted \in {0, 1}
          BY DEF Uncounted
        <5> QED
          BY <3>0, <5>1, <5>2 DEF Counted
      <4>2. age <= 4 * (Counted + Uncounted) + cnt
        BY <1>0, <3>0, <4>1 DEF Before, Quarters
      <4>3. age + 1 <= 4 * asked + 4
        BY <1>0, <3>0, <4>1, <4>2
      <4>4. 4 * asked + 4 <= MaxWait /\ MaxWait \in Nat
        BY <3>0, WaitsFit DEF Quarters
      <4> QED
        BY <3>0, <4>3, <4>4
    <3>2. age' = age + 1
      BY <2>2, <3>0, <3>1 DEF Advance, Older
    <3>3. Counted' = Counted
      BY <1>1 DEF Counted
    <3>4. Before' = Before
      <4>1. CASE inIsr
        <5>1. Uncounted = 0 /\ Uncounted' = 0 /\ cnt' = cnt + 1
          BY <1>1, <1>4, <1>5, <4>1 DEF Uncounted
        <5> QED
          BY <1>0, <3>0, <3>2, <3>3, <5>1 DEF Before, Quarters
      <4>2. CASE ~inIsr /\ cnt = 3
        <5>1. Uncounted = 0 /\ Uncounted' = 1 /\ cnt' = 0
          BY <1>1, <1>2, <1>4, <4>2 DEF Uncounted
        <5> QED
          BY <1>0, <3>0, <3>2, <3>3, <4>2, <5>1 DEF Before, Quarters
      <4>3. CASE ~inIsr /\ cnt # 3
        <5>1. Uncounted = 0 /\ cnt' = cnt + 1
          BY <1>2, <1>4, <4>3 DEF Uncounted
        <5>2. Uncounted' = 0
          BY <1>0, <1>1, <1>2, <4>3, <5>1 DEF Uncounted
        <5> QED
          BY <1>0, <3>0, <3>2, <3>3, <5>1, <5>2 DEF Before, Quarters
      <4> QED
        BY <1>0, <4>1, <4>2, <4>3
    <3>5. tout[timer] = 0 => inIsr /\ cnt' + busy' <= Task /\ cnt' <= Task
      BY <1>0, <1>2, <1>4, <1>5, <2>2
    <3>6. asked # 0
      BY <1>2, <2>2, <3>0 DEF IInv, WaitInv
    <3> QED
      BY <1>1, <3>0, <3>2, <3>4, <3>5, <3>6 DEF IInv, WaitInv, Quarters
  <2> QED
    BY <2>1, <2>2
<1> QED
  BY <1>6, <1>7 DEF IInv

LEMMA DelayKeeps == ASSUME IInv, Delay  PROVE IInv'
<1> USE Sorts
<1>1. /\ ~rtif /\ ~inIsr /\ at = "idle" /\ at' = "delay" /\ timer' \in Timers /\ asked' \in Delays /\ age' = 0
      /\ tout' = [tout EXCEPT ![timer'] = asked']
      /\ UNCHANGED <<cnt, rtif, inIsr, busy>>
  BY DEF Delay, Main, rtcVars
<1>2. IsrInv'
  BY <1>1 DEF IInv, IsrInv
<1>3. asked' \in Nat
  BY <1>1
<1>4. tout' \in [Timers -> Nat] /\ tout'[timer'] = asked'
  BY <1>1, <1>3 DEF IInv, WaitInv
<1>5. Counted' = 0 /\ Uncounted' = 0
  <2>1. Counted' = 0
    <3>1. asked' - tout'[timer'] = 0
      BY <1>3, <1>4, NoneCounted
    <3> QED
      BY <3>1 DEF Counted
  <2>2. Uncounted' = 0
    BY <1>1, Zenon DEF Uncounted
  <2> QED
    BY <2>1, <2>2
<1>6. Before' = cnt /\ cnt \in 0 .. 3
  BY <1>1, <1>5 DEF Before, IInv, IsrInv, Quarters
<1>7. WaitInv'
  BY <1>1, <1>3, <1>4, <1>6 DEF WaitInv, Quarters
<1> QED
  BY <1>2, <1>7 DEF IInv

LEMMA DelayOverKeeps == ASSUME IInv, DelayOver  PROVE IInv'
<1>1. /\ at' = "idle" /\ timer' = 1 /\ asked' = 0 /\ age' = 0
      /\ UNCHANGED <<tout, cnt, rtif, inIsr, busy>>
  BY DEF DelayOver, Main, rtcVars
<1>2. IsrInv'
  BY <1>1 DEF IInv, IsrInv
<1>3. WaitInv'
  BY <1>1 DEF IInv, WaitInv, Timers
<1> QED
  BY <1>2, <1>3 DEF IInv

\* main and the clock, where no wait begins or ends.
LEMMA OthersKeep ==
  ASSUME IInv,
         \/ GetUptime \/ ReadUptime \/ ReturnUptime \/ GetMsUptime \/ ReadMs1 \/ ReadMs \/ ReadMs2
         \/ SetPeriod \/ RestartCount \/ CancelTask \/ UNCHANGED clockVars
  PROVE  IInv'
<1>1. UNCHANGED <<tout, timer, asked, age, cnt, busy, rtif, inIsr>>
  BY DEF GetUptime, ReadUptime, ReturnUptime, GetMsUptime, ReadMs1, ReadMs, ReadMs2, SetPeriod,
         RestartCount, CancelTask, Main, waitVars, rtcVars, clockVars
<1>2. at' = "delay" <=> at = "delay"
  BY DEF GetUptime, ReadUptime, ReturnUptime, GetMsUptime, ReadMs1, ReadMs, ReadMs2, SetPeriod,
         RestartCount, CancelTask, clockVars
<1> QED
  BY <1>1, <1>2, WaitUntouched DEF IInv

-----------------------------------------------------------------------------
LEMMA TaskKeeps == TaskInv /\ [ClockNext]_clockVars => TaskInv'
<1> USE Sorts
<1> SUFFICES ASSUME TaskInv, [ClockNext]_clockVars  PROVE TaskInv'
  OBVIOUS
<1>1. CASE RtcIsr
  <2>1. CASE TaskDue
    BY <1>1, <2>1 DEF TaskInv, RtcIsr, CheckTask
  <2>2. CASE ~TaskDue
    <3>1. /\ UNCHANGED <<period, at>>
          /\ pcnt' = IF period # 0 THEN pcnt + 1 ELSE pcnt
          /\ since' = IF since < period THEN since + 1 ELSE since
      BY <1>1, <2>2 DEF RtcIsr, CheckTask
    <3>2. period \in Nat /\ pcnt \in Nat /\ since \in Nat
      BY DEF TaskInv
    <3>3. period # 0 => pcnt + 1 < period
      BY <2>2, <3>2 DEF TaskDue
    <3> QED
      BY <3>1, <3>2, <3>3 DEF TaskInv
  <2> QED
    BY <2>1, <2>2
<1>2. CASE RestartCount
  BY <1>2 DEF RestartCount, TaskInv
<1>3. CASE SetPeriod
  BY <1>3 DEF SetPeriod, TaskInv
<1>4. CASE CancelTask
  BY <1>4 DEF CancelTask, TaskInv
<1>5. ASSUME UNCHANGED taskVars, at' # "period", at # "period" \/ at' = at  PROVE TaskInv'
  BY <1>5 DEF TaskInv, taskVars
<1>6. ASSUME UNCHANGED <<taskVars, at>>  PROVE TaskInv'
  BY <1>6 DEF TaskInv, taskVars
<1>7. CASE RtcIsrEnd \/ Advance \/ UNCHANGED clockVars
  BY <1>6, <1>7 DEF RtcIsrEnd, Advance, clockVars
<1>8. CASE GetUptime \/ ReadUptime \/ ReturnUptime \/ GetMsUptime \/ ReadMs1 \/ ReadMs \/ Delay \/ DelayOver
  BY <1>5, <1>8 DEF GetUptime, ReadUptime, ReturnUptime, GetMsUptime, ReadMs1, ReadMs, Delay, DelayOver
<1>9. CASE ReadMs2
  BY <1>5, <1>9 DEF ReadMs2
<1> QED
  BY <1>1, <1>2, <1>3, <1>4, <1>7, <1>8, <1>9 DEF ClockNext

(***************************************************************************)
(* rtc_isr runs the periodic task exactly a period after it last ran or    *)
(* was set, however long it runs and whatever main does meanwhile, except  *)
(* for the tick that falls into rtc_set_periodic_task_period.              *)
(***************************************************************************)
THEOREM TaskRunsOnTime == ClockSpec => TaskOnTime
<1>1. ClockInit => TaskInv
  BY DEF ClockInit, TaskInv
<1>2. TaskInv => [RtcIsr /\ TaskDue /\ at # "period" => since + 1 = period]_clockVars
  <2> SUFFICES ASSUME TaskInv, TaskDue, at # "period"  PROVE since + 1 = period
    OBVIOUS
  <2>1. period \in Nat /\ period # 0 /\ pcnt \in Nat /\ pcnt + 1 >= period /\ pcnt = since /\ pcnt < period
    BY Sorts DEF TaskInv, TaskDue
  <2> QED
    BY <2>1
<1> QED
  BY <1>1, <1>2, TaskKeeps, PTL DEF ClockSpec, TaskOnTime

\* The inductive invariant of the waits.
THEOREM Invariance == ASSUME Task < Quarters  PROVE ClockSpec => []IInv
<1>1. IInv /\ [ClockNext]_clockVars => IInv'
  BY RtcIsrKeeps, RtcIsrEndKeeps, AdvanceKeeps, DelayKeeps, DelayOverKeeps, OthersKeep DEF ClockNext
<1> QED
  BY <1>1, Initially, PTL DEF ClockSpec

(***************************************************************************)
(* Where the periodic task takes less than a tick, delay_ticks and a loop  *)
(* on rtc_timeout_expired end neither more than a tick early nor later     *)
(* than that task makes them.                                              *)
(***************************************************************************)
THEOREM WaitsEndInTime == ASSUME Task < Quarters  PROVE ClockSpec => DelaysInTime
<1>1. IInv /\ [ClockNext]_clockVars =>
        [at = "delay" /\ at' = "idle" =>
           Quarters * (asked - 1) <= age /\ age <= Quarters * asked + Task]_clockVars
  <2> SUFFICES ASSUME IInv, ClockNext, at = "delay", at' = "idle"
               PROVE  Quarters * (asked - 1) <= age /\ age <= Quarters * asked + Task
    OBVIOUS
  <2>1. DelayOver
    BY DEF ClockNext, RtcIsr, RtcIsrEnd, Advance, GetUptime, ReadUptime, ReturnUptime, GetMsUptime, ReadMs1,
           ReadMs, ReadMs2, Delay, SetPeriod, RestartCount, CancelTask
  <2>2. tout[timer] = 0 /\ ~rtif
    BY <2>1 DEF DelayOver, Main, Expired
  <2>3. asked \in Nat /\ age \in Nat /\ cnt \in 0 .. 3 /\ Task \in Nat /\ (cnt <= Task \/ age = 0)
        /\ Before \in 0 .. 3
    BY <2>2, Sorts DEF IInv, IsrInv, WaitInv, Quarters
  <2>4. Counted = asked /\ Uncounted = 0
    BY <2>2, <2>3 DEF Counted, Uncounted
  <2>5. Before = 4 * asked + cnt - age
    BY <2>3, <2>4 DEF Before, Quarters
  <2> QED
    BY <2>3, <2>5 DEF Quarters
<1> QED
  BY <1>1, Invariance, PTL DEF ClockSpec, DelaysInTime

-----------------------------------------------------------------------------
(* Types *)

LEMMA Constants ==
  /\ HZ \in Nat \ {0} /\ Half \in Nat \ {0} /\ Tops \in Nat \ {0} /\ Task \in Nat
  /\ Word \in Nat \ {0}
<1>1. HZ \in Nat \ {0} /\ Half \in Nat \ {0} /\ Tops \in Nat \ {0} /\ Task \in Nat
  BY ClockAssumption
<1>2. Tops * Half \in Nat \ {0}
  BY <1>1
<1> QED
  BY <1>1, <1>2 DEF Word

LEMMA Bounds ==
  /\ Longest \in Delays /\ Longest \in Nat /\ \A d \in Delays : d \in Nat /\ d <= Longest
  /\ MaxPeriod \in Periods /\ MaxPeriod \in Nat \ {0}
  /\ \A p \in Periods : p \in Nat \ {0} /\ p <= MaxPeriod
  /\ MaxWait \in Nat
<1>1. Longest \in Delays /\ \A d \in Delays : d <= Longest
  BY ClockAssumption DEF Longest
<1>2. MaxPeriod \in Periods /\ \A p \in Periods : p <= MaxPeriod
  BY ClockAssumption DEF MaxPeriod
<1>3. Longest \in Nat /\ Task \in Nat
  BY <1>1, ClockAssumption
<1>4. MaxWait \in Nat
  BY <1>3 DEF MaxWait, Quarters
<1> QED
  BY <1>1, <1>2, <1>4, ClockAssumption

LEMMA Remainder ==
  ASSUME NEW a \in Int, NEW n \in Nat \ {0}
  PROVE  a % n \in 0 .. n - 1
OBVIOUS

\* The halves of a number fit their types and make the number up.
LEMMA Parts ==
  ASSUME NEW n \in 0 .. Word - 1
  PROVE  /\ Part(n, "hi") \in 0 .. Tops - 1 /\ Part(n, "lo") \in 0 .. Half - 1
         /\ Part(n, "hi") * Half + Part(n, "lo") = n
<1> DEFINE q == n \div Half  r == n % Half
<1>1. n \in Nat /\ Half \in Nat \ {0} /\ Tops \in Nat \ {0} /\ n < Tops * Half
  BY Constants DEF Word
<1>2. q \in Nat /\ r \in 0 .. Half - 1 /\ n = q * Half + r
  BY <1>1
<1>3. q < Tops
  <2>1. CASE q >= Tops
    <3> HIDE DEF q, r
    <3>1. PICK d \in Nat : q = Tops + d
      <4>1. q - Tops \in Nat /\ q = Tops + (q - Tops)
        BY <1>1, <1>2, <2>1
      <4> QED
        BY <4>1
    <3>2. q * Half = Tops * Half + d * Half /\ d * Half \in Nat /\ Tops * Half \in Nat
      BY <1>1, <3>1
    <3> QED
      BY <1>1, <1>2, <3>2
  <2> QED
    BY <1>1, <1>2, <2>1
<1> QED
  BY <1>1, <1>2, <1>3 DEF Part

\* What a step that reads one half, or none, does to the halves read.
LEMMA ReadTypes ==
  ASSUME NEW n \in 0 .. Word - 1, ClockTypeOK, ReadHalf(n)
  PROVE  /\ todo' \subseteq Halves
         /\ got' \in [Halves -> Nat] /\ got'["hi"] < Tops /\ got'["lo"] < Half
<1>1. PICK h \in todo : got' = [got EXCEPT ![h] = Part(n, h)] /\ todo' = todo \ {h}
  BY DEF ReadHalf
<1>2. h \in Halves /\ got \in [Halves -> Nat] /\ got["hi"] < Tops /\ got["lo"] < Half
  BY DEF ClockTypeOK
<1>3. Part(n, "hi") \in Nat /\ Part(n, "lo") \in Nat /\ Part(n, "hi") < Tops /\ Part(n, "lo") < Half
  BY Parts, Constants
<1> QED
  BY <1>1, <1>2, <1>3 DEF ClockTypeOK, Halves

LEMMA NothingReadTypes ==
  NothingRead => /\ todo' \subseteq Halves /\ ms1' \in 0 .. Quarters - 1 /\ from' \in 0 .. Word - 1
                 /\ got' \in [Halves -> Nat] /\ got'["hi"] < Tops /\ got'["lo"] < Half
BY Constants DEF NothingRead, Halves, Quarters

\* What the parts of the clock's state have for types.
RtcTypes  == /\ cnt \in 0 .. Quarters - 1 /\ rtif \in BOOLEAN /\ inIsr \in BOOLEAN /\ busy \in 0 .. Task
TickTypes == /\ ticks \in 0 .. HZ - 1 /\ uptime \in 0 .. Word - 1 /\ ms \in 0 .. Word - 1
WaitTypes == /\ tout \in [Timers -> 0 .. Longest] /\ timer \in Timers
             /\ asked \in Delays \cup {0} /\ age \in 0 .. MaxWait
TaskTypes == /\ period \in Periods \cup {0} /\ pcnt \in 0 .. MaxPeriod - 1 /\ since \in 0 .. MaxPeriod
ReadTypesOK ==
  /\ at \in {"idle", "uptime", "ms1", "ms", "delay", "period"}
  /\ todo \subseteq Halves
  /\ got \in [Halves -> Nat] /\ got["hi"] < Tops /\ got["lo"] < Half
  /\ ms1 \in 0 .. Quarters - 1 /\ spent \in BOOLEAN /\ from \in 0 .. Word - 1

LEMMA TypesAre ==
  /\ ClockTypeOK <=> RtcTypes /\ TickTypes /\ WaitTypes /\ TaskTypes /\ ReadTypesOK
  /\ ClockTypeOK' <=> RtcTypes' /\ TickTypes' /\ WaitTypes' /\ TaskTypes' /\ ReadTypesOK'
BY DEF ClockTypeOK, RtcTypes, TickTypes, WaitTypes, TaskTypes, ReadTypesOK

LEMMA InitTypes == ClockInit => ClockTypeOK
<1> SUFFICES ASSUME ClockInit  PROVE ClockTypeOK
  OBVIOUS
<1>1. RtcTypes /\ TickTypes
  <2>1. cnt \in 0 .. Quarters - 1 /\ busy \in 0 .. Task
    BY Constants DEF ClockInit, Quarters
  <2>2. rtif \in BOOLEAN /\ inIsr \in BOOLEAN
    BY DEF ClockInit
  <2>3. TickTypes
    BY Constants DEF ClockInit, TickTypes
  <2> QED
    BY <2>1, <2>2, <2>3 DEF RtcTypes
<1>2. WaitTypes
  BY Bounds DEF ClockInit, WaitTypes, Timers
<1>3. TaskTypes
  BY Bounds DEF ClockInit, TaskTypes
<1>4. ReadTypesOK
  <2>1. /\ at = "idle" /\ todo = {} /\ ms1 \in 0 .. Quarters - 1 /\ from \in 0 .. Word - 1
        /\ got = [h \in Halves |-> 0]
    BY Constants DEF ClockInit, Quarters
  <2>2. got \in [Halves -> Nat] /\ got["hi"] < Tops /\ got["lo"] < Half
    BY <2>1, Constants DEF Halves
  <2>3. spent \in BOOLEAN
    BY DEF ClockInit
  <2> QED
    BY <2>1, <2>2, <2>3 DEF ReadTypesOK
<1> QED
  BY <1>1, <1>2, <1>3, <1>4, TypesAre

\* The steps of rtc_isr and of the counter.
LEMMA IsrTypes ==
  ASSUME ClockTypeOK, RtcIsr \/ RtcIsrEnd \/ Advance
  PROVE  ClockTypeOK'
<1>0. RtcTypes /\ TickTypes /\ WaitTypes /\ TaskTypes /\ ReadTypesOK
  BY TypesAre
<1>1. CASE RtcIsr
  <2>1. TickTypes'
    <3>1. ms' = (ms + 4) % Word /\ ms \in Int
      BY <1>0, <1>1 DEF RtcIsr, CheckClock, TickTypes
    <3>2. ms' \in 0 .. Word - 1
      <4>1. ms + 4 \in Int /\ Word \in Nat \ {0}
        BY <3>1, Constants
      <4> QED
        BY ONLY <3>1, <4>1, Remainder
    <3>3. CASE SecondIsFull
      <4>1. uptime' = (uptime + NewSeconds) % Word /\ ticks' = (ticks + 1) % HZ
        BY <1>1, <3>3 DEF RtcIsr, CheckClock
      <4>2. uptime + NewSeconds \in Int /\ ticks + 1 \in Int
        BY <1>0, Constants DEF TickTypes, NewSeconds
      <4>3. uptime' \in 0 .. Word - 1 /\ ticks' \in 0 .. HZ - 1
        BY ONLY <4>1, <4>2, Remainder, Constants
      <4> QED
        BY <3>2, <4>3 DEF TickTypes
    <3>4. CASE ~SecondIsFull
      <4>1. UNCHANGED uptime /\ ticks' = ticks + 1 /\ ~(ticks + 1 >= HZ)
        BY <1>1, <3>4 DEF RtcIsr, CheckClock, SecondIsFull
      <4> QED
        BY <1>0, <3>2, <4>1, Constants DEF TickTypes
    <3> QED
      BY <3>3, <3>4
  <2>2. TaskTypes' /\ busy' \in 0 .. Task
    <3>1. CASE TaskDue
      BY <1>0, <1>1, <3>1, Constants, Bounds DEF RtcIsr, CheckTask, TaskTypes
    <3>2. CASE ~TaskDue
      <4>1. /\ UNCHANGED period /\ busy' = 0
            /\ pcnt' = IF period # 0 THEN pcnt + 1 ELSE pcnt
            /\ since' = IF since < period THEN since + 1 ELSE since
        BY <1>1, <3>2 DEF RtcIsr, CheckTask
      <4>2. /\ period \in Nat /\ period <= MaxPeriod /\ pcnt \in 0 .. MaxPeriod - 1
            /\ since \in 0 .. MaxPeriod /\ MaxPeriod \in Nat \ {0}
        BY <1>0, Bounds DEF TaskTypes
      <4>3. period # 0 => pcnt + 1 < period
        BY <3>2, <4>2 DEF TaskDue
      <4>4. pcnt' \in 0 .. MaxPeriod - 1 /\ since' \in 0 .. MaxPeriod
        BY <4>1, <4>2, <4>3
      <4> QED
        BY <1>0, <4>1, <4>4, Constants DEF TaskTypes
    <3> QED
      BY <3>1, <3>2
  <2>3. /\ UNCHANGED <<at, readVars, spent, waitVars, age, cnt, rtif>> /\ inIsr' = TRUE
        /\ tout' = [t \in Timers |-> CountDown(tout[t])]
    BY <1>1 DEF RtcIsr
  <2>4. WaitTypes'
    <3>1. \A t \in Timers : CountDown(tout[t]) \in 0 .. Longest
      BY <1>0, Bounds DEF WaitTypes, CountDown
    <3> QED
      BY <1>0, <2>3, <3>1 DEF WaitTypes, waitVars
  <2>5. RtcTypes' /\ ReadTypesOK'
    BY <1>0, <2>2, <2>3 DEF RtcTypes, ReadTypesOK, readVars
  <2> QED
    BY <2>1, <2>2, <2>4, <2>5, TypesAre
<1>2. CASE RtcIsrEnd
  <2>1. inIsr' = FALSE /\ rtif' = FALSE
        /\ UNCHANGED <<at, readVars, spent, tout, waitVars, age, taskVars, tickVars, cnt, busy>>
    BY <1>2 DEF RtcIsrEnd
  <2>2. RtcTypes' /\ ReadTypesOK' /\ TickTypes' /\ WaitTypes' /\ TaskTypes'
    BY <1>0, <2>1
    DEF RtcTypes, TickTypes, WaitTypes, TaskTypes, ReadTypesOK, readVars, waitVars, taskVars, tickVars
  <2> QED
    BY <2>2, TypesAre
<1>3. CASE Advance
  <2>1. /\ IF inIsr THEN busy > 0 ELSE TRUE
        /\ busy' = IF inIsr THEN busy - 1 ELSE busy
        /\ spent' \in BOOLEAN /\ cnt' = (cnt + 1) % Quarters /\ rtif' \in BOOLEAN /\ age' = Older
        /\ UNCHANGED <<at, readVars, tout, waitVars, taskVars, tickVars, inIsr>>
    BY <1>0, <1>3 DEF Advance, RtcTypes, ReadTypesOK
  <2>2. busy' \in 0 .. Task
    BY <1>0, <2>1, Constants DEF RtcTypes
  <2>3. age' \in 0 .. MaxWait
    BY <1>0, <2>1, Bounds DEF WaitTypes, Older
  <2>4. cnt' \in 0 .. Quarters - 1
    BY <1>0, <2>1 DEF RtcTypes, Quarters
  <2>5. ReadTypesOK' /\ TickTypes' /\ TaskTypes'
    BY <1>0, <2>1 DEF TickTypes, TaskTypes, ReadTypesOK, readVars, taskVars, tickVars
  <2>6. RtcTypes' /\ WaitTypes'
    BY <1>0, <2>1, <2>2, <2>3, <2>4 DEF RtcTypes, WaitTypes, waitVars
  <2> QED
    BY <2>5, <2>6, TypesAre
<1> QED
  BY <1>1, <1>2, <1>3

\* The steps of main.
LEMMA MainTypes ==
  ASSUME ClockTypeOK, ClockNext, Main
  PROVE  ClockTypeOK'
<1>0. RtcTypes /\ TickTypes /\ WaitTypes /\ TaskTypes /\ ReadTypesOK
  BY TypesAre
<1>1. RtcTypes' /\ TickTypes'
  BY <1>0 DEF RtcTypes, TickTypes, Main, rtcVars, tickVars
<1>2. Main => ~RtcIsr /\ ~RtcIsrEnd
  BY DEF Main, RtcIsr, RtcIsrEnd
<1>3. ~Advance
  BY <1>0 DEF Main, Advance, rtcVars, RtcTypes, Quarters
<1>4. CASE GetUptime
  BY <1>0, <1>1, <1>4, TypesAre DEF GetUptime, WaitTypes, TaskTypes, ReadTypesOK, TickTypes, waitVars, taskVars
<1>5. CASE ReadUptime
  <2>1. /\ todo' \subseteq Halves
        /\ got' \in [Halves -> Nat] /\ got'["hi"] < Tops /\ got'["lo"] < Half
    BY <1>0, <1>5, ReadTypes DEF ReadUptime, TickTypes
  <2> QED
    BY <1>0, <1>1, <1>5, <2>1, TypesAre DEF ReadUptime, WaitTypes, TaskTypes, ReadTypesOK, waitVars, taskVars
<1>6. CASE ReturnUptime
  BY <1>0, <1>1, <1>6, NothingReadTypes, TypesAre
  DEF ReturnUptime, WaitTypes, TaskTypes, ReadTypesOK, waitVars, taskVars
<1>7. CASE GetMsUptime
  <2>1. Now \in 0 .. Word - 1
    <3>1. ms + cnt \in Int /\ Word \in Nat \ {0}
      BY <1>0, Constants DEF TickTypes, RtcTypes
    <3> QED
      BY ONLY <3>1, Remainder DEF Now
  <2> QED
    BY <1>0, <1>1, <1>7, <2>1, TypesAre DEF GetMsUptime, WaitTypes, TaskTypes, ReadTypesOK, waitVars, taskVars
<1>8. CASE ReadMs1
  BY <1>0, <1>1, <1>8, TypesAre DEF ReadMs1, WaitTypes, TaskTypes, ReadTypesOK, RtcTypes, waitVars, taskVars
<1>9. CASE ReadMs
  <2>1. /\ todo' \subseteq Halves
        /\ got' \in [Halves -> Nat] /\ got'["hi"] < Tops /\ got'["lo"] < Half
    BY <1>0, <1>9, ReadTypes DEF ReadMs, TickTypes
  <2> QED
    BY <1>0, <1>1, <1>9, <2>1, TypesAre DEF ReadMs, WaitTypes, TaskTypes, ReadTypesOK, waitVars, taskVars
<1>10. CASE ReadMs2
  <2>1. ReadTypesOK'
    BY <1>0, <1>10, NothingReadTypes DEF ReadMs2, ReadTypesOK, readVars
  <2> QED
    BY <1>0, <1>1, <1>10, <2>1, TypesAre DEF ReadMs2, WaitTypes, TaskTypes, waitVars, taskVars
<1>11. CASE Delay
  <2>1. /\ at' = "delay" /\ timer' \in Timers /\ asked' \in Delays /\ age' = 0
        /\ tout' = [tout EXCEPT ![timer'] = asked'] /\ UNCHANGED <<readVars, spent, taskVars>>
    BY <1>11 DEF Delay
  <2>2. asked' \in 0 .. Longest
    BY <2>1, Bounds
  <2>3. WaitTypes'
    BY <1>0, <2>1, <2>2, Bounds DEF WaitTypes
  <2> QED
    BY <1>0, <1>1, <2>1, <2>3, TypesAre DEF TaskTypes, ReadTypesOK, readVars, taskVars
<1>12. CASE DelayOver
  BY <1>0, <1>1, <1>12, Bounds, TypesAre
  DEF DelayOver, WaitTypes, TaskTypes, ReadTypesOK, readVars, taskVars, Timers
<1>13. CASE SetPeriod \/ CancelTask
  BY <1>0, <1>1, <1>13, TypesAre
  DEF SetPeriod, CancelTask, WaitTypes, TaskTypes, ReadTypesOK, readVars, waitVars
<1>14. CASE RestartCount
  BY <1>0, <1>1, <1>14, Bounds, TypesAre
  DEF RestartCount, WaitTypes, TaskTypes, ReadTypesOK, readVars, waitVars
<1> QED
  BY <1>2, <1>3, <1>4, <1>5, <1>6, <1>7, <1>8, <1>9, <1>10, <1>11, <1>12, <1>13, <1>14 DEF ClockNext

LEMMA StepTypes == ClockTypeOK /\ [ClockNext]_clockVars => ClockTypeOK'
<1> SUFFICES ASSUME ClockTypeOK, [ClockNext]_clockVars  PROVE ClockTypeOK'
  OBVIOUS
<1>1. CASE UNCHANGED clockVars
  BY <1>1 DEF ClockTypeOK, clockVars, readVars, waitVars, taskVars, tickVars, rtcVars
<1>2. CASE Main /\ ClockNext
  BY <1>2, MainTypes
<1>3. CASE RtcIsr \/ RtcIsrEnd \/ Advance
  BY <1>3, IsrTypes
<1>4. ClockNext => Main \/ RtcIsr \/ RtcIsrEnd \/ Advance
  BY DEF ClockNext, GetUptime, ReadUptime, ReturnUptime, GetMsUptime, ReadMs1, ReadMs, ReadMs2,
         Delay, DelayOver, SetPeriod, RestartCount, CancelTask
<1> QED
  BY <1>1, <1>2, <1>3, <1>4

(***************************************************************************)
(* The counts of rtc.c stay within their widths and the count of the       *)
(* periodic task below the longest period, whatever main and rtc_isr do    *)
(* between each other's accesses.                                          *)
(***************************************************************************)
THEOREM TypeCorrect == ClockSpec => []ClockTypeOK
BY InitTypes, StepTypes, PTL DEF ClockSpec

-----------------------------------------------------------------------------
(* Readings of the clock *)

\* While nothing has happened since main began to read, uptime is what it was;
\* after that it is changed by the interrupt of one tick at most.
UptimeInv ==
  at = "uptime" =>
    /\ ~spent => ~rtif /\ ~inIsr
    /\ ~spent \/ (rtif /\ ~inIsr) => uptime = from
    /\ \A h \in Halves \ todo : got[h] \in {Part(from, h), Part(uptime, h)}

\* If RTCCNT >> 5 reads as it did before, no interrupt has come in between.
MsInv ==
  at = "ms" =>
    /\ ~spent => /\ ~rtif /\ ~inIsr /\ cnt = ms1
                 /\ \A h \in Halves \ todo : got[h] = Part(ms, h)
    /\ spent => cnt # ms1 /\ (rtif => ms1 = Quarters - 1)

FreshInv == at \notin {"uptime", "ms1", "ms"} => ~spent

ReadInv == ClockTypeOK /\ IsrInv /\ UptimeInv /\ MsInv /\ FreshInv

LEMMA IsrIn == IInv => IsrInv
BY DEF IInv

\* The interrupt and the counter.
LEMMA IsrReads ==
  ASSUME Task + 1 < Quarters, ReadInv, RtcIsr \/ RtcIsrEnd \/ Advance
  PROVE  UptimeInv' /\ MsInv' /\ FreshInv'
<1>1. CASE RtcIsr
  <2>1. rtif /\ ~inIsr /\ inIsr' = TRUE /\ UNCHANGED <<at, todo, got, ms1, from, spent, cnt, rtif>>
    BY <1>1 DEF RtcIsr, readVars
  <2>2. UptimeInv'
    BY <2>1 DEF ReadInv, UptimeInv
  <2>3. MsInv'
    BY <2>1 DEF ReadInv, MsInv
  <2> QED
    BY <2>1, <2>2, <2>3 DEF ReadInv, FreshInv
<1>2. CASE RtcIsrEnd
  <2>1. inIsr /\ inIsr' = FALSE /\ rtif' = FALSE
        /\ UNCHANGED <<at, todo, got, ms1, from, spent, cnt, uptime, ms>>
    BY <1>2 DEF RtcIsrEnd, readVars, tickVars
  <2> QED
    BY <2>1 DEF ReadInv, UptimeInv, MsInv, FreshInv
<1>3. CASE Advance /\ inIsr
  <2>1. /\ inIsr /\ busy > 0 /\ cnt' = (cnt + 1) % Quarters /\ spent' = spent
        /\ UNCHANGED <<at, todo, got, ms1, from, uptime, ms, inIsr>>
    BY <1>3 DEF Advance, readVars, tickVars, ReadInv, ClockTypeOK
  <2>2. rtif /\ rtif'
    BY <1>3 DEF Advance, ReadInv, IsrInv
  <2>3. cnt' # Quarters - 1
    BY <2>1, ClockAssumption DEF ReadInv, IsrInv, Quarters
  <2> QED
    BY <2>1, <2>2, <2>3 DEF ReadInv, UptimeInv, MsInv, FreshInv
<1>4. CASE Advance /\ ~inIsr
  <2>1. /\ ~inIsr /\ ~rtif /\ ~spent /\ cnt' = (cnt + 1) % Quarters
        /\ spent' = (at \in {"uptime", "ms1", "ms"}) /\ rtif' = (cnt' = 0)
        /\ UNCHANGED <<at, todo, got, ms1, from, uptime, ms, inIsr>>
    BY <1>4 DEF Advance, readVars, tickVars, ReadInv, ClockTypeOK
  <2>2. cnt' # cnt /\ (cnt' = 0 => cnt = Quarters - 1)
    BY <2>1 DEF ReadInv, IsrInv, Quarters
  <2>3. UptimeInv'
    BY <2>1 DEF ReadInv, UptimeInv
  <2>4. MsInv'
    BY <2>1, <2>2 DEF ReadInv, MsInv
  <2> QED
    BY <2>1, <2>3, <2>4 DEF FreshInv
<1> QED
  BY <1>1, <1>2, <1>3, <1>4

\* What main has read so far, when it reads one half more.
LEMMA OneMore ==
  ASSUME ClockTypeOK, NEW n, ReadHalf(n), NEW g \in Halves \ todo'
  PROVE  got'[g] = Part(n, g) \/ (g \in Halves \ todo /\ got'[g] = got[g])
<1>1. PICK h \in todo : got' = [got EXCEPT ![h] = Part(n, h)] /\ todo' = todo \ {h}
  BY DEF ReadHalf
<1> QED
  BY <1>1 DEF ClockTypeOK

LEMMA MainReads ==
  ASSUME ReadInv, ClockNext, Main
  PROVE  UptimeInv' /\ MsInv' /\ FreshInv'
<1>0. ~rtif /\ ~inIsr /\ UNCHANGED <<cnt, rtif, inIsr, busy, ticks, uptime, ms>>
  BY DEF Main, rtcVars, tickVars
<1>1. ~RtcIsr /\ ~RtcIsrEnd /\ ~Advance
  BY <1>0 DEF RtcIsr, RtcIsrEnd, Advance, ReadInv, ClockTypeOK, Quarters
<1>2. CASE GetUptime
  BY <1>0, <1>2 DEF GetUptime, ReadInv, UptimeInv, MsInv, FreshInv
<1>3. CASE ReadUptime
  <2>1. at = "uptime" /\ ReadHalf(uptime) /\ UNCHANGED <<at, from, spent>>
    BY <1>3 DEF ReadUptime
  <2>2. \A h \in Halves \ todo' : got'[h] \in {Part(from, h), Part(uptime, h)}
    BY <2>1, OneMore DEF ReadInv, UptimeInv
  <2> QED
    BY <1>0, <2>1, <2>2 DEF ReadInv, UptimeInv, MsInv, FreshInv
<1>4. CASE ReadMs1
  BY <1>0, <1>4 DEF ReadMs1, UptimeInv, MsInv, FreshInv
<1>5. CASE ReadMs
  <2>1. at = "ms" /\ ReadHalf(ms) /\ UNCHANGED <<at, ms1, spent>>
    BY <1>5 DEF ReadMs
  <2>2. ~spent => \A h \in Halves \ todo' : got'[h] = Part(ms, h)
    BY <2>1, OneMore DEF ReadInv, MsInv
  <2> QED
    BY <1>0, <2>1, <2>2 DEF ReadInv, UptimeInv, MsInv, FreshInv
<1>6. CASE ReturnUptime \/ ReadMs2
  BY <1>6 DEF ReturnUptime, ReadMs2, UptimeInv, MsInv, FreshInv
<1>7. CASE GetMsUptime \/ Delay \/ DelayOver \/ SetPeriod \/ RestartCount \/ CancelTask
  BY <1>7
  DEF GetMsUptime, Delay, DelayOver, SetPeriod, RestartCount, CancelTask, ReadInv, UptimeInv, MsInv, FreshInv
<1> QED
  BY <1>1, <1>2, <1>3, <1>4, <1>5, <1>6, <1>7 DEF ClockNext

LEMMA ReadInvHolds == ASSUME Task + 1 < Quarters  PROVE ClockSpec => []ReadInv
<1>0. Task < Quarters
  BY ClockAssumption DEF Quarters
<1>1. ClockInit => UptimeInv /\ MsInv /\ FreshInv
  BY DEF ClockInit, UptimeInv, MsInv, FreshInv
<1>2. ClockTypeOK /\ IsrInv /\ UptimeInv /\ MsInv /\ FreshInv /\ [ClockNext]_clockVars
        => UptimeInv' /\ MsInv' /\ FreshInv'
  <2> SUFFICES ASSUME ReadInv, [ClockNext]_clockVars  PROVE UptimeInv' /\ MsInv' /\ FreshInv'
    BY DEF ReadInv
  <2>1. CASE UNCHANGED clockVars
    BY <2>1
    DEF ReadInv, UptimeInv, MsInv, FreshInv, clockVars, readVars, waitVars, taskVars, tickVars, rtcVars
  <2>2. CASE RtcIsr \/ RtcIsrEnd \/ Advance
    BY <2>2, IsrReads
  <2>3. CASE Main /\ ClockNext
    BY <2>3, MainReads
  <2>4. ClockNext => Main \/ RtcIsr \/ RtcIsrEnd \/ Advance
    BY DEF ClockNext, GetUptime, ReadUptime, ReturnUptime, GetMsUptime, ReadMs1, ReadMs, ReadMs2,
           Delay, DelayOver, SetPeriod, RestartCount, CancelTask
  <2> QED
    BY <2>1, <2>2, <2>3, <2>4
<1>3. ClockSpec => [](ClockTypeOK /\ IsrInv)
  <2>1. ClockSpec => []IInv
    BY <1>0, Invariance
  <2> QED
    BY <2>1, TypeCorrect, IsrIn, PTL
<1>4. ReadInv <=> ClockTypeOK /\ IsrInv /\ (UptimeInv /\ MsInv /\ FreshInv)
  BY DEF ReadInv
<1> QED
  BY <1>1, <1>2, <1>3, <1>4, PTL DEF ClockSpec

\* A time is between any two it coincides with one of.
LEMMA AtTheEnds ==
  ASSUME NEW a \in 0 .. Word - 1, NEW b \in 0 .. Word - 1
  PROVE  Between(a, a, b) /\ Between(a, b, b)
<1>1. a + Word - a = Word /\ b + Word - a \in Int /\ Word \in Nat \ {0}
  BY Constants
<1>2. Word % Word = 0
  BY <1>1
<1>3. (b + Word - a) % Word \in 0 .. Word - 1
  BY ONLY <1>1, Remainder
<1> QED
  BY <1>1, <1>2, <1>3 DEF Between

(***************************************************************************)
(* rtc_get_ms_uptime and rtc_get_uptime return a time of their call, as    *)
(* TimesAreNow says, for every rate and width of the clock.  The periodic  *)
(* task may take half a tick: after three quarters RTCCNT can read as      *)
(* before with an interrupt in between.                                    *)
(***************************************************************************)
THEOREM ReadingsAreNow == ASSUME Task + 1 < Quarters  PROVE ClockSpec => TimesAreNow
<1>1. ReadInv /\ [ClockNext]_clockVars =>
        [at' = "idle" =>
           /\ at = "ms" => Between(from, (Value(got) + ms1) % Word, Now)
           /\ at = "uptime" =>
                Between(from, Value(got), uptime) \/ Part(from, "hi") # Part(uptime, "hi")]_clockVars
  <2> SUFFICES ASSUME ReadInv, ClockNext, at' = "idle"
               PROVE  /\ at = "ms" => Between(from, (Value(got) + ms1) % Word, Now)
                      /\ at = "uptime" => \/ Between(from, Value(got), uptime)
                                          \/ Part(from, "hi") # Part(uptime, "hi")
    OBVIOUS
  <2>1. /\ ms \in 0 .. Word - 1 /\ uptime \in 0 .. Word - 1 /\ from \in 0 .. Word - 1
        /\ cnt \in 0 .. Quarters - 1
    BY DEF ReadInv, ClockTypeOK
  <2>2. ASSUME at = "ms"  PROVE Between(from, (Value(got) + ms1) % Word, Now)
    <3>1. ReadMs2
      BY <2>2 DEF ClockNext, RtcIsr, RtcIsrEnd, Advance, GetUptime, ReadUptime, ReturnUptime, GetMsUptime,
                  ReadMs1, ReadMs, Delay, DelayOver, SetPeriod, RestartCount, CancelTask
    <3>2. todo = {} /\ cnt = ms1
      BY <3>1 DEF ReadMs2, NotMoved
    <3>3. \A h \in Halves : got[h] = Part(ms, h)
      BY <2>2, <3>2 DEF ReadInv, MsInv, ClockTypeOK
    <3>4. Value(got) = ms
      BY <2>1, <3>3, Parts DEF Value, Halves
    <3>5. (Value(got) + ms1) % Word = Now
      BY <3>2, <3>4 DEF Now
    <3>6. Now \in 0 .. Word - 1
      <4>1. ms + cnt \in Int /\ Word \in Nat \ {0}
        BY <2>1, Constants
      <4> QED
        BY ONLY <4>1, Remainder DEF Now
    <3> QED
      BY <2>1, <3>5, <3>6, AtTheEnds
  <2>3. ASSUME at = "uptime", Part(from, "hi") = Part(uptime, "hi")
        PROVE  Between(from, Value(got), uptime)
    <3>1. ReturnUptime
      BY <2>3 DEF ClockNext, RtcIsr, RtcIsrEnd, Advance, GetUptime, ReadUptime, ReadMs2, GetMsUptime,
                  ReadMs1, ReadMs, Delay, DelayOver, SetPeriod, RestartCount, CancelTask
    <3>2. \A h \in Halves : got[h] \in {Part(from, h), Part(uptime, h)}
      BY <2>3, <3>1 DEF ReturnUptime, ReadInv, UptimeInv
    <3>3. got["hi"] = Part(from, "hi") /\ got["lo"] \in {Part(from, "lo"), Part(uptime, "lo")}
      BY <2>3, <3>2 DEF Halves
    <3>4. Value(got) = from \/ Value(got) = uptime
      BY <2>1, <2>3, <3>3, Parts DEF Value
    <3> QED
      BY <2>1, <3>4, AtTheEnds
  <2> QED
    BY <2>2, <2>3
<1> QED
  BY <1>1, ReadInvHolds, PTL DEF ClockSpec, TimesAreNow
=============================================================================

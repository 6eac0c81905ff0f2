------------------------------ MODULE MainLoop ------------------------------
(* The application's main loop: the task manager's run pool, the watchdog,   *)
(* and the asynchronous timers behind the SysTick interrupt.                 *)
(*                                                                           *)
(* Main is one thread of small steps, at "stage"; Tick is time passing by    *)
(* one count of SysTick->VAL, at any point between two of them.  The         *)
(* interrupt of a reload runs inside Tick: main does nothing before it is    *)
(* served, so nothing can see the moment in between.                         *)
EXTENDS Naturals, Integers, Sequences, Functions

CONSTANTS
  Modulus,       \* 2^31: the millisecond count is cut to 31 bits
  Width,         \* 2^16: delta_ms is an int16_t
  SysPeriod,     \* SysTick counts in a millisecond
  Timer,         \* the asynchronous timers
  Period,        \* [Timer -> milliseconds]
  Adapter,       \* the network adapter's timer, enabled before the tasks exist
  Statistic,     \* the task manager's timer, enabled by its constructor
  CanTimer,      \* the routers' timers, in the order their first run enables them
  MAX_ASYNC_TIME_NUM,
  NTask,         \* tasks in the run pool
  CanTask,       \* place of CanRouterTask in it
  Dog,           \* milliseconds the watchdog allows without service
  StartUp,       \* bound: milliseconds from power-on to the loop
  MaxGap         \* bound: counts that pass from the first to the last read of a sample

ASSUME ClockAssumption ==
  /\ Modulus \in Nat /\ SysPeriod \in Nat \ {0} /\ Width \in Nat \ {0}
  /\ Dog \in Nat /\ StartUp \in Nat /\ MaxGap \in Nat
  /\ 2 * MaxGap < SysPeriod         \* less than half a millisecond: assumed, see the README
  /\ Modulus % Width = 0            \* 2^31 counts are so many times the 2^16 of an int16_t
  /\ 2 * Dog < Width                \* the watchdog's time is no negative int16_t
ASSUME TimerAssumption ==
  /\ Period \in [Timer -> Nat \ {0}]
  /\ \A t \in Timer : Period[t] + 2 * Dog + StartUp + 1 < Modulus
  /\ {Adapter, Statistic} \subseteq Timer /\ CanTimer \in Seq(Timer)
  /\ MAX_ASYNC_TIME_NUM \in Nat
ASSUME TaskAssumption == NTask \in Nat \ {0} /\ CanTask \in 1 .. NTask

VARIABLES
  baseTimer, msFlag,     \* CBaseTimer::_baseTimer, msFlag_
  val,                   \* SysTick->VAL, counting down
  asyncTimerTab,         \* the attached timers
  starttime,             \* CTimer_base::_starttime of each timer
  stage, i,              \* where main is, and the index of its loop
  time0, tick,           \* currTime0, currTick
  prevTime, prevTick,
  dog,                   \* milliseconds since the watchdog was served
  heard,                 \* history: ticks since the timer's start, up to HeardMax
  at,                    \* history: the count at the moment tick was read
  gap,                   \* history: counts since time0 was read
  span, measured         \* history: counts since tick was read, and up to its next read

clockVars  == <<baseTimer, msFlag, val, dog>>
timerVars  == <<asyncTimerTab, starttime>>
sampleVars == <<time0, tick, prevTime, prevTick, at, measured>>
mainVars   == <<baseTimer, msFlag, val, asyncTimerTab, starttime, stage, i, time0,
                tick, prevTime, prevTick, dog, heard, at, gap, span, measured>>

Attached == Range(asyncTimerTab)
Sampling == stage \in {"tick", "time1"}
Pooling  == stage \in {"time0", "tick", "time1", "task"}

(* Mutants: a negative difference is kept, or taken without its sign; the    *)
(* test is = or >; attach does not look; the second read is ignored; the     *)
(* difference is not cut.                                                    *)
Diff_Negative(now, then) == now - then
Diff_Unsigned(now, then) == IF now < then THEN then - now ELSE now - then
attach_Again(tab, t) == IF Len(tab) = MAX_ASYNC_TIME_NUM THEN tab ELSE Append(tab, t)
Sampled_FirstRead(t0, v, t1) == t0
Int16_Uncut(n) == n

(* ++_baseTimer; _baseTimer &= 0x7FFFFFFF                                    *)
NextCount(n) == IF n + 1 = Modulus THEN 0 ELSE n + 1

(* _baseTimer - _starttime, a negative difference cut to 31 bits             *)
Diff(now, then) == IF now - then < 0 THEN now - then + Modulus ELSE now - then

TimeUp_After(t) == Diff(baseTimer, starttime[t]) > Period[t]

TimeUp(t) == Diff(baseTimer, starttime[t]) >= Period[t]

(* CBaseTimer::attach: fixed_vector::find, then push_back                    *)
attach(tab, t) ==
  IF t \in Range(tab) \/ Len(tab) = MAX_ASYNC_TIME_NUM THEN tab ELSE Append(tab, t)

(* The time that belongs to a tick: currTick > (systickPeriod() >> 1) says   *)
(* that the reload between the two reads of the count came before the tick.  *)
Sampled(t0, v, t1) == IF t0 # t1 /\ 2 * v > SysPeriod THEN t0 + 1 ELSE t0

(* A difference of two uint32_t kept in an int16_t                           *)
Int16(n) == LET m == n % Width IN IF 2 * m >= Width THEN m - Width ELSE m

(* delta_ms and delta_tick in counts, with a millisecond borrowed            *)
Cost(time, v) ==
  LET ms == Int16(time - prevTime)
  IN  IF v < prevTick
      THEN ms * SysPeriod + (prevTick - v)
      ELSE (ms - 1) * SysPeriod + (prevTick + SysPeriod - v)
-----------------------------------------------------------------------------
(* Bound of the history heard: more than LateAtMost allows.                  *)
HeardMax(t) == Period[t] + 2 * Dog + StartUp + 1

(* Power-on or a watchdog reset.  Static initialisation makes the command    *)
(* table, which makes the task manager, whose constructor enables its timer. *)
Init ==
  /\ baseTimer = 0 /\ msFlag = FALSE /\ val = SysPeriod - 1
  /\ asyncTimerTab = <<Statistic>> /\ starttime = [t \in Timer |-> 0]
  /\ stage = "init" /\ i = 0
  /\ time0 = 0 /\ tick = 0 /\ prevTime = 0 /\ prevTick = 0
  /\ dog = 0 /\ heard = [t \in Timer |-> 0]
  /\ at = 0 /\ gap = 0 /\ span = 0 /\ measured = 0

(* One count of SysTick->VAL; at the reload, CPUTIMER0_ISR and doUpdate.     *)
Reload ==
  /\ val' = SysPeriod - 1
  /\ baseTimer' = NextCount(baseTimer)
  /\ msFlag' = TRUE
  /\ dog' = dog + 1
  /\ heard' = [t \in Timer |-> IF t \notin Attached THEN 0
                               ELSE IF heard[t] < HeardMax(t) THEN heard[t] + 1 ELSE heard[t]]

Tick ==
  /\ Sampling => gap < MaxGap
  /\ \/ val > 0 /\ val' = val - 1 /\ UNCHANGED <<baseTimer, msFlag, dog, heard>>
     \/ val = 0 /\ dog < (IF stage = "init" THEN StartUp ELSE Dog) /\ Reload
  /\ gap' = IF Sampling THEN gap + 1 ELSE 0
  /\ span' = IF Pooling THEN span + 1 ELSE 0
  /\ UNCHANGED <<timerVars, stage, i, sampleVars>>

(* The independent watchdog: the application starts again.                   *)
DogBites ==
  /\ dog = Dog /\ stage # "init"
  /\ baseTimer' = 0 /\ msFlag' = FALSE /\ val' = SysPeriod - 1
  /\ asyncTimerTab' = <<Statistic>> /\ starttime' = [t \in Timer |-> 0]
  /\ stage' = "init" /\ i' = 0
  /\ time0' = 0 /\ tick' = 0 /\ prevTime' = 0 /\ prevTick' = 0
  /\ dog' = 0 /\ heard' = [t \in Timer |-> 0]
  /\ at' = 0 /\ gap' = 0 /\ span' = 0 /\ measured' = 0

(* CAsyncTimer::enable: reset and attach                                     *)
enable(t) ==
  /\ starttime' = [starttime EXCEPT ![t] = baseTimer]
  /\ heard' = [heard EXCEPT ![t] = 0]
  /\ asyncTimerTab' = attach(asyncTimerTab, t)
-----------------------------------------------------------------------------
(* NetworkAdapter::doInit enables its timer in every try at the PHY; the     *)
(* watchdog is not running yet, and dog counts up to StartUp.                *)
TryAdapter ==
  /\ stage = "init" /\ enable(Adapter)
  /\ UNCHANGED <<clockVars, stage, i, sampleVars, gap, span>>

(* The PHY answers; addTask fills the run pool; InitWatchDog.                *)
EnterLoop ==
  /\ stage = "init" /\ Adapter \in Attached
  /\ dog' = 0 /\ stage' = "time0"
  /\ UNCHANGED <<baseTimer, msFlag, val, timerVars, i, sampleVars, heard, gap, span>>

(* runTasks reads the count, the tick and the count again: before the first  *)
(* task (i = 0) and after each of them.                                      *)
ReadTime0 ==
  /\ stage = "time0"
  /\ time0' = baseTimer /\ gap' = 0
  /\ stage' = "tick"
  /\ UNCHANGED <<clockVars, timerVars, i, tick, prevTime, prevTick, heard, at, span, measured>>

ReadTick ==
  /\ stage = "tick"
  /\ tick' = val /\ at' = baseTimer
  /\ measured' = span /\ span' = 0
  /\ stage' = "time1"
  /\ UNCHANGED <<clockVars, timerVars, i, time0, prevTime, prevTick, heard, gap>>

(* The third read; the task's cost is added up, the sample becomes the start *)
(* of the next, and the loop goes on.                                        *)
ReadTime1 ==
  /\ stage = "time1"
  /\ prevTime' = Sampled(time0, tick, baseTimer) /\ prevTick' = tick
  /\ IF i < NTask THEN stage' = "task" /\ i' = i + 1
                  ELSE stage' = "dog" /\ i' = 0
  /\ time0' = 0 /\ tick' = 0 /\ at' = 0 /\ measured' = 0 /\ gap' = 0
  /\ UNCHANGED <<clockVars, timerVars, heard, span>>

(* CCanRouterTask::doRun, firstIn_: InitCan enables one router's timer.      *)
EnableCanTimer(t) ==
  /\ stage = "task" /\ i = CanTask
  /\ t \in Range(CanTimer) \ Attached
  /\ enable(t)
  /\ UNCHANGED <<clockVars, stage, i, sampleVars, gap, span>>

(* A task's doRun returns                                                    *)
TaskReturns ==
  /\ stage = "task"
  /\ i = CanTask => Range(CanTimer) \subseteq Attached
  /\ stage' = "time0"
  /\ UNCHANGED <<clockVars, timerVars, i, sampleVars, heard, gap, span>>

ServiceDog ==
  /\ stage = "dog"
  /\ dog' = 0 /\ stage' = "flag"
  /\ UNCHANGED <<baseTimer, msFlag, val, timerVars, i, sampleVars, heard, gap, span>>

(* CBaseTimer::doRun: no tick since the last pass, nothing to do             *)
TestFlag ==
  /\ stage = "flag"
  /\ stage' = IF msFlag THEN "clear" ELSE "time0"
  /\ UNCHANGED <<clockVars, timerVars, i, sampleVars, heard, gap, span>>

ClearFlag ==
  /\ stage = "clear"
  /\ msFlag' = FALSE
  /\ stage' = "look" /\ i' = 1
  /\ UNCHANGED <<baseTimer, val, dog, timerVars, sampleVars, heard, gap, span>>

(* isAbsoluteTimeUp of the timer at place i, and its callback                *)
Fires(t) ==
  /\ stage = "look" /\ i <= Len(asyncTimerTab) /\ t = asyncTimerTab[i]
  /\ TimeUp(t)
  /\ starttime' = [starttime EXCEPT ![t] = baseTimer]
  /\ heard' = [heard EXCEPT ![t] = 0]
  /\ i' = i + 1
  /\ UNCHANGED <<clockVars, asyncTimerTab, stage, sampleVars, gap, span>>

\* mutant: the index goes on only behind a callback
NotYet_Stays ==
  /\ stage = "look" /\ i <= Len(asyncTimerTab) /\ ~TimeUp(asyncTimerTab[i])
  /\ UNCHANGED mainVars

NotYet ==
  /\ stage = "look" /\ i <= Len(asyncTimerTab) /\ ~TimeUp(asyncTimerTab[i])
  /\ i' = i + 1
  /\ UNCHANGED <<clockVars, timerVars, stage, sampleVars, heard, gap, span>>

PassEnds ==
  /\ stage = "look" /\ i > Len(asyncTimerTab)
  /\ stage' = "time0" /\ i' = 0
  /\ UNCHANGED <<clockVars, timerVars, sampleVars, heard, gap, span>>

Main ==
  \/ TryAdapter \/ EnterLoop
  \/ ReadTime0 \/ ReadTick \/ ReadTime1
  \/ \E t \in Timer : EnableCanTimer(t)
  \/ TaskReturns \/ ServiceDog \/ TestFlag \/ ClearFlag
  \/ \E t \in Timer : Fires(t)
  \/ NotYet \/ PassEnds

Next == Main \/ Tick \/ DogBites

MainSpec == Init /\ [][Next]_mainVars
-----------------------------------------------------------------------------
(* Main always goes on, time always passes, and the PHY answers in the end.  *)
Fairness == WF_mainVars(Main) /\ WF_mainVars(Tick) /\ WF_mainVars(EnterLoop)

FairMainSpec == MainSpec /\ Fairness

TableOK ==
  /\ asyncTimerTab \in Seq(Timer)
  /\ \A j, k \in 1 .. Len(asyncTimerTab) : asyncTimerTab[j] = asyncTimerTab[k] => j = k

(* Types; no timer is attached twice.                                        *)
MainTypeOK ==
  /\ baseTimer \in 0 .. Modulus - 1 /\ msFlag \in BOOLEAN
  /\ val \in 0 .. SysPeriod - 1
  /\ TableOK /\ starttime \in [Timer -> 0 .. Modulus - 1]
  /\ stage \in {"init", "time0", "tick", "time1", "task", "dog", "flag", "clear", "look"}
  /\ i \in Nat
  /\ time0 \in 0 .. Modulus - 1 /\ tick \in 0 .. SysPeriod - 1
  /\ prevTime \in 0 .. Modulus /\ prevTick \in 0 .. SysPeriod - 1
  /\ dog \in Nat /\ heard \in [Timer -> Nat]
  /\ at \in 0 .. Modulus - 1 /\ gap \in Nat /\ span \in Nat /\ measured \in Nat

(* The interrupt sets the flag doRun clears before it looks at the table, so *)
(* a timer whose period has passed is never left to wait for the next tick:  *)
(* the flag is set, or the pass under way still comes to it.  This needs the *)
(* difference of two counts to be right across the wrap.                     *)
NothingDueForgotten ==
  \A k \in 1 .. Len(asyncTimerTab) :
    heard[asyncTimerTab[k]] >= Period[asyncTimerTab[k]] =>
      msFlag \/ stage = "clear" \/ (stage = "look" /\ i <= k)

(* A callback runs at the earliest a full period of ticks after its timer    *)
(* was enabled or last fired, on whichever side of the wrap that is.         *)
NeverEarly == [][\A t \in Timer : Fires(t) => heard[t] >= Period[t]]_mainVars

(* While the watchdog lets the board run, a timer waits less than its period *)
(* and two watchdog times; only the two enabled before the watchdog is may   *)
(* wait for the start-up in place of their period.                           *)
LateAtMost ==
  \A t \in Attached :
    \/ heard[t] < Period[t] + 2 * Dog
    \/ t \in {Adapter, Statistic} /\ heard[t] <= StartUp + 2 * Dog

(* The two reads of the count around the read of the tick, with the          *)
(* correction between them, give the count at the moment of the tick.        *)
SampleTrue == stage = "time1" => Sampled(time0, tick, baseTimer) \in {at, at + Modulus}

(* Samples are true, and the cost of a task is exactly the time between two  *)
(* of them: through the borrow, the wrap of the count and the cut of the     *)
(* difference to 16 bits.                                                    *)
AccountTrue ==
  /\ SampleTrue
  /\ stage = "time1" /\ i > 0 => Cost(Sampled(time0, tick, baseTimer), tick) = measured

(* Every timer that is ever attached runs its callback again and again,      *)
(* unless the watchdog resets the board again and again.                     *)
KeepsFiring ==
  \A t \in Timer : []<><<DogBites>>_mainVars \/ []<><<Fires(t)>>_mainVars
=============================================================================

----------------------------- MODULE MainProofs -----------------------------
(* MainLoop's safety properties for every clock, timer table and watchdog    *)
(* time.  The inductive invariant ties each timer's history of ticks to the  *)
(* count, bounds it by the place of the loop and the watchdog's count, and   *)
(* says what a sample under way has seen of a reload; AccountInv adds what   *)
(* lies between the ticks of two samples.                                    *)
EXTENDS MainLoop, SequenceTheorems, TLAPS

\* The difference of the counts is the number of ticks a timer has waited
HeardIsDiff ==
  \A k \in 1 .. Len(asyncTimerTab) :
    heard[asyncTimerTab[k]] = Diff(baseTimer, starttime[asyncTimerTab[k]])

\* A timer that waited h ticks waited less than its period, or the start-up, and n ticks
Waited(h, t, n) == h[t] < Period[t] + n \/ (t \in {Adapter, Statistic} /\ h[t] <= StartUp + n)

\* Before the loop only the statistics' and the adapter's timers are attached
StartsUp ==
  stage = "init" =>
    /\ dog <= StartUp
    /\ \A k \in 1 .. Len(asyncTimerTab) :
         asyncTimerTab[k] \in {Adapter, Statistic} /\ heard[asyncTimerTab[k]] <= dog

\* A timer looked at has waited at most since the watchdog was served; one
\* still to be looked at, for one time of the watchdog more
LooksInTime ==
  /\ stage # "init" => dog <= Dog
  /\ stage \in {"time0", "tick", "time1", "task", "dog"} =>
       \A k \in 1 .. Len(asyncTimerTab) : Waited(heard, asyncTimerTab[k], dog)
  /\ stage \in {"flag", "clear"} =>
       \A k \in 1 .. Len(asyncTimerTab) : Waited(heard, asyncTimerTab[k], Dog + dog)
  /\ stage = "look" => i >= 1
  /\ stage = "look" =>
       \A k \in 1 .. Len(asyncTimerTab) :
         Waited(heard, asyncTimerTab[k], IF k < i THEN dog ELSE Dog + dog)

\* Between the reads of a sample there is at most one reload; where it came,
\* the ticks before and after it are few
SampleSeen ==
  /\ Sampling => gap <= MaxGap
  /\ stage = "tick" =>
       \/ baseTimer = time0
       \/ baseTimer = NextCount(time0) /\ val >= SysPeriod - gap
  /\ stage = "time1" =>
       \/ baseTimer = time0 /\ at = time0 /\ tick <= val + gap
       \/ baseTimer = NextCount(time0) /\ at = baseTimer
            /\ tick >= SysPeriod - gap /\ val >= SysPeriod - gap
       \/ baseTimer = NextCount(time0) /\ at = time0 /\ tick < gap /\ val >= SysPeriod - gap

MainInv ==
  /\ MainTypeOK /\ HeardIsDiff /\ NothingDueForgotten
  /\ StartsUp /\ LooksInTime /\ SampleSeen
-----------------------------------------------------------------------------
\* The timers attached are the elements of the table.
LEMMA AttachedAre ==
  ASSUME MainTypeOK
  PROVE  Attached = {asyncTimerTab[k] : k \in 1 .. Len(asyncTimerTab)}
  BY LenProperties DEF MainTypeOK, TableOK, Attached, Range

\* attach keeps what is in the table and adds at most the new timer, once.
LEMMA AttachProperties ==
  ASSUME NEW tab \in Seq(Timer), NEW t \in Timer,
         \A j, k \in 1 .. Len(tab) : tab[j] = tab[k] => j = k
  PROVE  /\ attach(tab, t) \in Seq(Timer)
         /\ \A k \in 1 .. Len(attach(tab, t)) :
              \/ attach(tab, t)[k] = t
              \/ k \in 1 .. Len(tab) /\ attach(tab, t)[k] = tab[k]
         /\ \A j, k \in 1 .. Len(attach(tab, t)) :
              attach(tab, t)[j] = attach(tab, t)[k] => j = k
<1>1. CASE attach(tab, t) = tab
  BY <1>1
<1>2. CASE attach(tab, t) # tab
  <2>1. attach(tab, t) = Append(tab, t) /\ t \notin Range(tab)
    BY <1>2 DEF attach
  <2>2. \A k \in 1 .. Len(tab) : tab[k] # t
    BY <2>1, LenProperties DEF Range
  <2>3. /\ Append(tab, t) \in Seq(Timer)
        /\ Len(Append(tab, t)) = Len(tab) + 1
        /\ \A k \in 1 .. Len(tab) : Append(tab, t)[k] = tab[k]
        /\ Append(tab, t)[Len(tab) + 1] = t
    BY AppendProperties
  <2>4. Len(tab) \in Nat
    BY LenProperties
  <2> QED BY <2>1, <2>2, <2>3, <2>4
<1> QED BY <1>1, <1>2

\* The count goes on and the difference grows, unless it is the largest.
LEMMA DiffNext ==
  ASSUME NEW now \in 0 .. Modulus - 1, NEW then \in 0 .. Modulus - 1,
         Diff(now, then) + 1 < Modulus
  PROVE  Diff(NextCount(now), then) = Diff(now, then) + 1
  BY ClockAssumption DEF Diff, NextCount

\* Who has waited no longer than n has waited no longer than a larger m.
LEMMA WaitedGrows ==
  ASSUME NEW h \in [Timer -> Nat], NEW t \in Timer, NEW n \in Nat, NEW m \in Nat, n <= m,
         Waited(h, t, n)
  PROVE  Waited(h, t, m)
<1>1. h[t] \in Nat /\ Period[t] \in Nat /\ StartUp \in Nat
  BY ClockAssumption, TimerAssumption
<1>2. CASE h[t] < Period[t] + n
  <2>1. h[t] < Period[t] + m
    BY <1>1, <1>2
  <2> QED
    BY <2>1, Zenon DEF Waited
<1>3. CASE t \in {Adapter, Statistic} /\ h[t] <= StartUp + n
  <2>1. h[t] <= StartUp + m
    BY <1>1, <1>3
  <2> QED
    BY <1>3, <2>1, Zenon DEF Waited
<1> QED
  BY <1>2, <1>3, Zenon DEF Waited

LEMMA WaitedSum ==
  ASSUME NEW h \in Nat, NEW p \in Nat \ {0}, NEW s \in Nat, NEW d \in Nat, NEW n \in Nat,
         n <= d, h < p + n \/ h <= s + n \/ h < p + (d + n) \/ h <= s + (d + n)
  PROVE  h < p + d + d + s + 1
  OBVIOUS

\* Every attached timer has waited less than the count can tell.
LEMMA WaitedBound ==
  ASSUME MainInv
  PROVE  \A k \in 1 .. Len(asyncTimerTab) :
           /\ asyncTimerTab[k] \in Timer
           /\ heard[asyncTimerTab[k]] < HeardMax(asyncTimerTab[k])
           /\ HeardMax(asyncTimerTab[k]) < Modulus
<1> TAKE k \in 1 .. Len(asyncTimerTab)
<1> DEFINE t == asyncTimerTab[k]
<1>1. t \in Timer
  BY ElementOfSeq DEF MainInv, MainTypeOK, TableOK
<1> HIDE DEF t
<1>2. Period[t] \in Nat /\ heard[t] \in Nat /\ dog \in Nat /\ i \in Nat /\ k \in Nat
  <2>1. heard \in [Timer -> Nat] /\ dog \in Nat /\ i \in Nat
    BY DEF MainInv, MainTypeOK
  <2>2. Period[t] \in Nat
    BY <1>1, TimerAssumption
  <2> QED BY <1>1, <2>1, <2>2
<1>3. Dog \in Nat /\ StartUp \in Nat /\ Period[t] > 0
  BY <1>1, ClockAssumption, TimerAssumption
<1>6. HeardMax(t) = Period[t] + 2 * Dog + StartUp + 1 /\ HeardMax(t) < Modulus
  <2>1. Period[t] + 2 * Dog + StartUp + 1 < Modulus
    BY <1>1, TimerAssumption, Zenon
  <2> QED BY <2>1 DEF HeardMax
<1>7. ASSUME heard[t] < Period[t] + Dog + Dog + StartUp + 1
      PROVE  heard[t] < HeardMax(t)
  BY <1>2, <1>3, <1>6, <1>7
<1>4. CASE stage = "init"
  <2>1. heard[t] <= StartUp
    BY <1>2, <1>3, <1>4 DEF MainInv, StartsUp, t
  <2> QED BY <1>1, <1>2, <1>3, <1>6, <1>7, <2>1 DEF t
<1>5. CASE stage # "init"
  <2>1. dog <= Dog
    BY <1>5 DEF MainInv, LooksInTime
  <2>2. Waited(heard, t, dog) \/ Waited(heard, t, Dog + dog)
    BY <1>5 DEF MainInv, MainTypeOK, LooksInTime, t
  <2>3. heard[t] < Period[t] + Dog + Dog + StartUp + 1
    <3>1. \/ heard[t] < Period[t] + dog \/ heard[t] <= StartUp + dog
          \/ heard[t] < Period[t] + (Dog + dog) \/ heard[t] <= StartUp + (Dog + dog)
      BY <2>2, Zenon DEF Waited
    <3>2. Period[t] \in Nat \ {0}
      BY <1>2, <1>3
    <3> QED
      BY <1>2, <1>3, <2>1, <3>1, <3>2, WaitedSum, Zenon
  <2> QED BY <1>1, <1>6, <1>7, <2>3 DEF t
<1> QED BY <1>4, <1>5

-----------------------------------------------------------------------------
\* Power-on: one timer is attached, and no sample is under way.
LEMMA MainInit == Init => MainInv
<1> SUFFICES ASSUME Init PROVE MainInv
  OBVIOUS
<1>1. 0 \in 0 .. Modulus - 1 /\ SysPeriod - 1 \in 0 .. SysPeriod - 1
  BY ClockAssumption, TimerAssumption
<1>2. 0 \in 0 .. SysPeriod - 1 /\ 0 \in 0 .. Modulus
  BY ClockAssumption
<1>3. /\ Statistic \in Timer
      /\ asyncTimerTab \in Seq(Timer) /\ Len(asyncTimerTab) = 1 /\ asyncTimerTab[1] = Statistic
  BY TimerAssumption DEF Init
<1>4. \A k \in 1 .. Len(asyncTimerTab) : k = 1 /\ asyncTimerTab[k] = Statistic
  BY <1>3
<1>5. starttime \in [Timer -> 0 .. Modulus - 1] /\ heard \in [Timer -> Nat]
  BY <1>1 DEF Init
<1>6. heard[Statistic] = 0 /\ starttime[Statistic] = 0 /\ baseTimer = 0 /\ dog = 0
  BY <1>3 DEF Init
<1>7. TableOK
  BY <1>3, <1>4 DEF TableOK
<1>8. MainTypeOK
  BY <1>1, <1>2, <1>5, <1>7 DEF Init, MainTypeOK
<1>9. HeardIsDiff
  BY <1>4, <1>6 DEF HeardIsDiff, Diff
<1>10. NothingDueForgotten
  <2>1. ~(heard[Statistic] >= Period[Statistic])
    BY <1>3, <1>6, TimerAssumption
  <2> QED BY <1>4, <2>1 DEF NothingDueForgotten
<1>11. StartsUp /\ LooksInTime
  BY <1>4, <1>6, ClockAssumption DEF Init, StartsUp, LooksInTime
<1>12. SampleSeen
  BY DEF Init, SampleSeen, Sampling
<1> QED BY <1>8, <1>9, <1>10, <1>11, <1>12 DEF MainInv
-----------------------------------------------------------------------------
\* One count of the system timer keeps the types.
LEMMA TickTypes == MainInv /\ Tick => MainTypeOK'
<1> SUFFICES ASSUME MainInv, Tick PROVE MainTypeOK'
  OBVIOUS
<1> USE DEF MainInv, MainTypeOK
<1>1. TableOK' /\ UNCHANGED <<starttime, stage, i, sampleVars>>
  BY DEF Tick, timerVars, TableOK
<1>2. gap' \in Nat /\ span' \in Nat
  BY DEF Tick
<1>3. CASE val > 0 /\ val' = val - 1 /\ UNCHANGED <<baseTimer, msFlag, dog, heard>>
  <2>1. val' \in 0 .. SysPeriod - 1
    BY <1>3, ClockAssumption
  <2> QED BY <1>1, <1>2, <1>3, <2>1 DEF sampleVars
<1>4. CASE Reload
  <2>1. val' \in 0 .. SysPeriod - 1 /\ baseTimer' \in 0 .. Modulus - 1 /\ dog' \in Nat
    BY <1>4, ClockAssumption, TimerAssumption DEF Reload, NextCount
  <2>2. msFlag' \in BOOLEAN /\ heard' \in [Timer -> Nat]
    BY <1>4 DEF Reload
  <2> QED BY <1>1, <1>2, <2>1, <2>2 DEF sampleVars
<1> QED BY <1>3, <1>4 DEF Tick

\* Every timer's difference grows with its history, across the wrap too.
LEMMA TickHeard == MainInv /\ Tick => HeardIsDiff' /\ NothingDueForgotten'
<1> SUFFICES ASSUME MainInv, Tick PROVE HeardIsDiff' /\ NothingDueForgotten'
  OBVIOUS
<1>1. UNCHANGED <<asyncTimerTab, starttime, stage, i>>
  BY DEF Tick, timerVars
<1>2. CASE UNCHANGED <<baseTimer, msFlag, dog, heard>>
  BY <1>1, <1>2 DEF MainInv, HeardIsDiff, NothingDueForgotten
<1>3. CASE Reload
  <2>1. NothingDueForgotten'
    BY <1>3 DEF Reload, NothingDueForgotten
  <2>2. HeardIsDiff'
    <3> SUFFICES ASSUME NEW k \in 1 .. Len(asyncTimerTab)
                 PROVE  heard'[asyncTimerTab[k]] = Diff(baseTimer', starttime[asyncTimerTab[k]])
      BY <1>1 DEF HeardIsDiff
    <3> DEFINE t == asyncTimerTab[k]
    <3>1. t \in Timer /\ t \in Attached
      BY WaitedBound, AttachedAre DEF MainInv
    <3>2. heard[t] < HeardMax(t) /\ heard[t] + 1 < Modulus /\ heard[t] \in Nat
      <4>1. heard[t] \in Nat /\ HeardMax(t) \in Nat /\ Modulus \in Nat
        <5>1. heard[t] \in Nat
          BY <3>1 DEF MainInv, MainTypeOK
        <5>2. Period[t] \in Nat
          BY <3>1, TimerAssumption
        <5> QED BY <5>1, <5>2, ClockAssumption DEF HeardMax
      <4>2. heard[t] < HeardMax(t) /\ HeardMax(t) < Modulus
        BY WaitedBound
      <4> HIDE DEF t
      <4> QED BY <4>1, <4>2
    <3>3. heard'[t] = heard[t] + 1
      BY <1>3, <3>1, <3>2 DEF Reload
    <3>4. heard[t] = Diff(baseTimer, starttime[t])
      BY DEF MainInv, HeardIsDiff
    <3>5. baseTimer \in 0 .. Modulus - 1 /\ starttime[t] \in 0 .. Modulus - 1
      BY <3>1 DEF MainInv, MainTypeOK
    <3>6. baseTimer' = NextCount(baseTimer)
      BY <1>3 DEF Reload
    <3> HIDE DEF t
    <3>7. Diff(baseTimer', starttime[t]) = heard[t] + 1
      BY <3>2, <3>4, <3>5, <3>6, DiffNext
    <3> QED BY <3>3, <3>7 DEF t
  <2> QED BY <2>1, <2>2
<1> QED BY <1>2, <1>3 DEF Tick

\* One tick more in both counts.
LEMMA WaitsOn ==
  ASSUME NEW t, NEW h, NEW g, NEW n \in Nat, NEW m \in Nat, NEW d \in Nat,
         h[t] \in Nat, Period[t] \in Nat, StartUp \in Nat,
         g[t] = h[t] + 1, m = n + 1
  PROVE  /\ Waited(h, t, n) => Waited(g, t, m)
         /\ Waited(h, t, d + n) => Waited(g, t, d + m)
  BY DEF Waited

\* A tick adds one to what the timers waited and to the watchdog's count.
LEMMA TickWaits == MainInv /\ Tick => StartsUp' /\ LooksInTime'
<1> SUFFICES ASSUME MainInv, Tick PROVE StartsUp' /\ LooksInTime'
  OBVIOUS
<1>1. UNCHANGED <<asyncTimerTab, starttime, stage, i>>
  BY DEF Tick, timerVars
<1>2. CASE UNCHANGED <<baseTimer, msFlag, dog, heard>>
  BY <1>1, <1>2 DEF MainInv, StartsUp, LooksInTime, Waited
<1>3. CASE dog < (IF stage = "init" THEN StartUp ELSE Dog) /\ Reload
  <2>1. dog' = dog + 1 /\ dog \in Nat /\ i \in Nat /\ Dog \in Nat /\ StartUp \in Nat
    BY <1>3, ClockAssumption DEF Reload, MainInv, MainTypeOK
  <2>2. \A k \in 1 .. Len(asyncTimerTab) :
          /\ heard'[asyncTimerTab[k]] = heard[asyncTimerTab[k]] + 1
          /\ heard[asyncTimerTab[k]] \in Nat /\ Period[asyncTimerTab[k]] \in Nat
    <3> TAKE k \in 1 .. Len(asyncTimerTab)
    <3>1. asyncTimerTab[k] \in Timer /\ asyncTimerTab[k] \in Attached
      BY WaitedBound, AttachedAre DEF MainInv
    <3>2. heard[asyncTimerTab[k]] < HeardMax(asyncTimerTab[k])
      BY WaitedBound
    <3> QED BY <1>3, <3>1, <3>2, TimerAssumption DEF Reload, MainInv, MainTypeOK
  <2>3. \A k \in 1 .. Len(asyncTimerTab) :
          /\ Waited(heard, asyncTimerTab[k], dog) => Waited(heard', asyncTimerTab[k], dog')
          /\ Waited(heard, asyncTimerTab[k], Dog + dog) =>
               Waited(heard', asyncTimerTab[k], Dog + dog')
    <3> TAKE k \in 1 .. Len(asyncTimerTab)
    <3>1. PICK t : t = asyncTimerTab[k]
      OBVIOUS
    <3>2. heard'[t] = heard[t] + 1 /\ heard[t] \in Nat /\ Period[t] \in Nat
      BY <2>2, <3>1
    <3>3. dog' \in Nat
      BY <2>1
    <3>4. /\ Waited(heard, t, dog) => Waited(heard', t, dog')
          /\ Waited(heard, t, Dog + dog) => Waited(heard', t, Dog + dog')
      BY <2>1, <3>2, <3>3, WaitsOn
    <3> QED BY <3>1, <3>4
  <2>4. StartsUp'
    BY <1>1, <1>3, <2>1, <2>2 DEF StartsUp, MainInv
  <2>5. LooksInTime'
    <3>1. stage # "init" => dog' <= Dog
      BY <1>3, <2>1
    <3>2. stage \in {"time0", "tick", "time1", "task", "dog"} =>
            \A k \in 1 .. Len(asyncTimerTab) : Waited(heard', asyncTimerTab[k], dog')
      BY <2>3 DEF MainInv, LooksInTime
    <3>3. stage \in {"flag", "clear"} =>
            \A k \in 1 .. Len(asyncTimerTab) : Waited(heard', asyncTimerTab[k], Dog + dog')
      BY <2>3 DEF MainInv, LooksInTime
    <3>4. ASSUME stage = "look", NEW k \in 1 .. Len(asyncTimerTab)
          PROVE  Waited(heard', asyncTimerTab[k], IF k < i THEN dog' ELSE Dog + dog')
      <4>1. CASE k < i
        BY <1>1, <2>3, <3>4, <4>1 DEF MainInv, LooksInTime
      <4>2. CASE ~(k < i)
        BY <1>1, <2>3, <3>4, <4>2 DEF MainInv, LooksInTime
      <4> QED BY <4>1, <4>2
    <3>5. stage = "look" => i >= 1
      BY DEF MainInv, LooksInTime
    <3> QED BY <1>1, <3>1, <3>2, <3>3, <3>4, <3>5 DEF LooksInTime
  <2> QED BY <2>4, <2>5
<1> QED BY <1>2, <1>3 DEF Tick

\* At most one reload falls between the reads of a sample.
LEMMA TickSample == MainInv /\ Tick => SampleSeen'
<1> SUFFICES ASSUME MainInv, Tick PROVE SampleSeen'
  OBVIOUS
<1>1. UNCHANGED <<stage, time0, tick, at>>
  BY DEF Tick, sampleVars
<1>2. /\ baseTimer \in 0 .. Modulus - 1 /\ time0 \in 0 .. Modulus - 1 /\ at \in 0 .. Modulus - 1
      /\ val \in 0 .. SysPeriod - 1 /\ tick \in 0 .. SysPeriod - 1 /\ gap \in Nat
  BY DEF MainInv, MainTypeOK
<1>3. CASE ~Sampling
  BY <1>1, <1>3 DEF SampleSeen, Sampling
<1>4. CASE Sampling
  <2>1. gap' = gap + 1 /\ gap < MaxGap
    BY <1>4 DEF Tick
  <2>2. CASE val > 0 /\ val' = val - 1 /\ UNCHANGED baseTimer
    <3>1. stage = "tick" => SampleSeen'
      BY <1>1, <1>2, <2>1, <2>2, ClockAssumption DEF MainInv, SampleSeen, Sampling
    <3>2. stage = "time1" => SampleSeen'
      BY <1>1, <1>2, <2>1, <2>2, ClockAssumption DEF MainInv, SampleSeen, Sampling
    <3> QED BY <1>4, <3>1, <3>2 DEF Sampling
  <2>3. CASE val = 0 /\ val' = SysPeriod - 1 /\ baseTimer' = NextCount(baseTimer)
    <3>1. ~(val >= SysPeriod - gap)
      BY <1>2, <2>1, <2>3, ClockAssumption
    <3>2. baseTimer = time0
      BY <1>4, <3>1 DEF MainInv, SampleSeen, Sampling
    <3>3. val' >= SysPeriod - gap' /\ gap' <= MaxGap
      BY <1>2, <2>1, <2>3, ClockAssumption
    <3>4. CASE stage = "tick"
      BY <1>1, <2>3, <3>2, <3>3, <3>4 DEF SampleSeen, Sampling
    <3>5. CASE stage = "time1"
      <4>1. at = time0 /\ tick <= val + gap
        BY <3>1, <3>5 DEF MainInv, SampleSeen
      <4>2. tick' < gap'
        BY <1>1, <1>2, <2>1, <2>3, <4>1
      <4> QED BY <1>1, <2>3, <3>2, <3>3, <3>5, <4>1, <4>2 DEF SampleSeen, Sampling
    <3> QED BY <1>4, <3>4, <3>5 DEF Sampling
  <2> QED BY <2>2, <2>3 DEF Tick, Reload
<1> QED BY <1>3, <1>4

LEMMA TickKeeps == MainInv /\ Tick => MainInv'
  BY TickTypes, TickHeard, TickWaits, TickSample DEF MainInv

-----------------------------------------------------------------------------
\* A watchdog reset is a power-on.
LEMMA DogBitesKeeps == MainInv /\ DogBites => MainInv'
<1>1. DogBites => Init'
  BY DEF DogBites, Init
<1>2. Init' => MainInv'
  BY MainInit, PTL
<1> QED BY <1>1, <1>2

-----------------------------------------------------------------------------
\* enable: the new timer has waited for nothing, the others as before.
LEMMA EnableTable ==
  ASSUME MainInv, NEW t \in Timer, enable(t), UNCHANGED <<baseTimer, msFlag>>,
         stage \notin {"clear", "look"}
  PROVE  /\ TableOK' /\ HeardIsDiff' /\ NothingDueForgotten'
         /\ starttime' \in [Timer -> 0 .. Modulus - 1] /\ heard' \in [Timer -> Nat]
         /\ heard'[t] = 0
         /\ \A k \in 1 .. Len(asyncTimerTab') :
              \/ asyncTimerTab'[k] = t
              \/ /\ k \in 1 .. Len(asyncTimerTab) /\ asyncTimerTab'[k] = asyncTimerTab[k]
                 /\ heard'[asyncTimerTab'[k]] = heard[asyncTimerTab[k]]
<1> USE DEF MainInv, MainTypeOK
<1>1. asyncTimerTab' = attach(asyncTimerTab, t)
  BY DEF enable
<1>2. TableOK'
  BY <1>1, AttachProperties DEF TableOK
<1>3. starttime' \in [Timer -> 0 .. Modulus - 1] /\ heard' \in [Timer -> Nat]
  BY DEF enable
<1>4. heard'[t] = 0 /\ starttime'[t] = baseTimer
  BY DEF enable
<1>5. ASSUME NEW k \in 1 .. Len(asyncTimerTab')
      PROVE  \/ asyncTimerTab'[k] = t
             \/ /\ asyncTimerTab'[k] # t
                /\ k \in 1 .. Len(asyncTimerTab) /\ asyncTimerTab'[k] = asyncTimerTab[k]
                /\ heard'[asyncTimerTab'[k]] = heard[asyncTimerTab[k]]
                /\ starttime'[asyncTimerTab'[k]] = starttime[asyncTimerTab[k]]
  <2>1. \/ asyncTimerTab'[k] = t
        \/ k \in 1 .. Len(asyncTimerTab) /\ asyncTimerTab'[k] = asyncTimerTab[k]
    BY <1>1, AttachProperties DEF TableOK
  <2>2. k \in 1 .. Len(asyncTimerTab) => asyncTimerTab[k] \in Timer
    BY WaitedBound
  <2> QED BY <2>1, <2>2 DEF enable
<1>6. HeardIsDiff'
  <2> SUFFICES ASSUME NEW k \in 1 .. Len(asyncTimerTab')
               PROVE  heard'[asyncTimerTab'[k]] = Diff(baseTimer, starttime'[asyncTimerTab'[k]])
    BY DEF HeardIsDiff
  <2>1. CASE asyncTimerTab'[k] = t
    <3>1. Diff(baseTimer, baseTimer) = 0
      BY DEF Diff
    <3> QED BY <1>4, <2>1, <3>1
  <2>2. CASE asyncTimerTab'[k] # t
    BY <1>5, <2>2 DEF HeardIsDiff
  <2> QED BY <2>1, <2>2
<1>7. NothingDueForgotten'
  <2> SUFFICES ASSUME NEW k \in 1 .. Len(asyncTimerTab'),
                      heard'[asyncTimerTab'[k]] >= Period[asyncTimerTab'[k]]
               PROVE  msFlag
    BY DEF NothingDueForgotten
  <2>1. asyncTimerTab'[k] # t
    <3>1. Period[t] \in Nat \ {0}
      BY TimerAssumption
    <3>2. ~(heard'[t] >= Period[t])
      BY <1>4, <3>1
    <3> QED BY <3>2
  <2>2. k \in 1 .. Len(asyncTimerTab) /\ heard[asyncTimerTab[k]] >= Period[asyncTimerTab[k]]
    BY <1>5, <2>1
  <2> QED BY <2>2 DEF NothingDueForgotten
<1> QED BY <1>2, <1>3, <1>4, <1>5, <1>6, <1>7

\* The adapter's timer, before the loop.
LEMMA TryAdapterKeeps == MainInv /\ TryAdapter => MainInv'
<1> SUFFICES ASSUME MainInv, TryAdapter PROVE MainInv'
  OBVIOUS
<1>1. /\ stage = "init" /\ enable(Adapter) /\ Adapter \in Timer
      /\ UNCHANGED <<baseTimer, msFlag, val, dog, stage, i, sampleVars, gap, span>>
  BY TimerAssumption DEF TryAdapter, clockVars
<1>2. TableOK' /\ HeardIsDiff' /\ NothingDueForgotten' /\ heard'[Adapter] = 0
  BY <1>1, EnableTable
<1>3. MainTypeOK'
  BY <1>1, EnableTable DEF MainInv, MainTypeOK, sampleVars
<1>4. dog \in Nat /\ dog <= StartUp
  BY <1>1 DEF MainInv, MainTypeOK, StartsUp
<1>5. ASSUME NEW k \in 1 .. Len(asyncTimerTab')
      PROVE  asyncTimerTab'[k] \in {Adapter, Statistic} /\ heard'[asyncTimerTab'[k]] <= dog
  <2>1. CASE asyncTimerTab'[k] = Adapter
    BY <1>2, <1>4, <2>1
  <2>2. CASE asyncTimerTab'[k] # Adapter
    BY <1>1, <2>2, EnableTable DEF MainInv, StartsUp
  <2> QED BY <2>1, <2>2
<1>6. StartsUp' /\ LooksInTime'
  BY <1>1, <1>4, <1>5 DEF StartsUp, LooksInTime
<1>7. SampleSeen'
  BY <1>1 DEF SampleSeen, Sampling
<1> QED BY <1>2, <1>3, <1>6, <1>7 DEF MainInv

\* Into the loop: the start-up counts like a period.
LEMMA EnterLoopKeeps == MainInv /\ EnterLoop => MainInv'
<1> SUFFICES ASSUME MainInv, EnterLoop PROVE MainInv'
  OBVIOUS
<1>1. /\ stage = "init" /\ dog' = 0 /\ stage' = "time0"
      /\ UNCHANGED <<baseTimer, msFlag, val, asyncTimerTab, starttime, i, sampleVars, heard, gap, span>>
  BY DEF EnterLoop, timerVars
<1>2. TableOK'
  BY <1>1 DEF MainInv, MainTypeOK, TableOK
<1>3. MainTypeOK'
  BY <1>1, <1>2 DEF MainInv, MainTypeOK, sampleVars
<1>4. HeardIsDiff' /\ NothingDueForgotten'
  BY <1>1 DEF MainInv, HeardIsDiff, NothingDueForgotten
<1>5. ASSUME NEW k \in 1 .. Len(asyncTimerTab)
      PROVE  Waited(heard, asyncTimerTab[k], 0)
  <2>1. PICK t \in Timer : t = asyncTimerTab[k]
    BY WaitedBound
  <2>2. t \in {Adapter, Statistic} /\ heard[t] <= dog /\ dog <= StartUp
    BY <1>1, <2>1 DEF MainInv, StartsUp
  <2>3. heard[t] \in Nat /\ dog \in Nat /\ StartUp \in Nat
    BY ClockAssumption DEF MainInv, MainTypeOK
  <2> QED BY <2>1, <2>2, <2>3 DEF Waited
<1>6. StartsUp' /\ LooksInTime'
  BY <1>1, <1>5, ClockAssumption DEF StartsUp, LooksInTime
<1>7. SampleSeen'
  BY <1>1 DEF SampleSeen, Sampling
<1> QED BY <1>3, <1>4, <1>6, <1>7 DEF MainInv

\* A router's timer, in the middle of a pass.
LEMMA EnableCanTimerKeeps ==
  ASSUME MainInv, NEW t \in Timer, EnableCanTimer(t) PROVE MainInv'
<1>1. /\ stage = "task" /\ enable(t)
      /\ UNCHANGED <<baseTimer, msFlag, val, dog, stage, i, sampleVars, gap, span>>
  BY DEF EnableCanTimer, clockVars
<1>2. TableOK' /\ HeardIsDiff' /\ NothingDueForgotten' /\ heard'[t] = 0
  BY <1>1, EnableTable
<1>3. MainTypeOK'
  BY <1>1, EnableTable DEF MainInv, MainTypeOK, sampleVars
<1>4. ASSUME NEW k \in 1 .. Len(asyncTimerTab')
      PROVE  Waited(heard', asyncTimerTab'[k], dog)
  <2>1. CASE asyncTimerTab'[k] = t
    <3>1. Period[t] \in Nat \ {0} /\ dog \in Nat
      BY TimerAssumption DEF MainInv, MainTypeOK
    <3> QED BY <1>2, <2>1, <3>1 DEF Waited
  <2>2. CASE asyncTimerTab'[k] # t
    <3>1. /\ k \in 1 .. Len(asyncTimerTab) /\ asyncTimerTab'[k] = asyncTimerTab[k]
          /\ heard'[asyncTimerTab'[k]] = heard[asyncTimerTab[k]]
      BY <1>1, <2>2, EnableTable
    <3>2. Waited(heard, asyncTimerTab[k], dog)
      BY <1>1, <3>1 DEF MainInv, LooksInTime
    <3> QED BY <3>1, <3>2 DEF Waited
  <2> QED BY <2>1, <2>2
<1>5. StartsUp'
  BY <1>1 DEF StartsUp
<1>6. LooksInTime'
  BY <1>1, <1>4 DEF LooksInTime, MainInv
<1>7. SampleSeen'
  BY <1>1 DEF SampleSeen, Sampling
<1> QED BY <1>2, <1>3, <1>5, <1>6, <1>7 DEF MainInv

-----------------------------------------------------------------------------
\* The steps of main that touch neither the table nor the count.
LEMMA SampleStepsKeep ==
  ASSUME MainInv, ReadTime0 \/ ReadTick \/ ReadTime1 \/ TaskReturns PROVE MainInv'
<1> USE DEF MainInv
<1>1. /\ UNCHANGED <<clockVars, timerVars, heard>>
      /\ stage' \in {"time0", "tick", "time1", "task", "dog"}
      /\ stage \in {"time0", "tick", "time1", "task"}
  BY DEF ReadTime0, ReadTick, ReadTime1, TaskReturns
<1>2. MainTypeOK'
  <2>1. TableOK'
    BY <1>1 DEF MainTypeOK, TableOK, timerVars
  <2>2. CASE ReadTime0
    BY <1>1, <2>1, <2>2 DEF MainTypeOK, ReadTime0, clockVars, timerVars
  <2>3. CASE ReadTick
    BY <1>1, <2>1, <2>3 DEF MainTypeOK, ReadTick, clockVars, timerVars
  <2>4. CASE ReadTime1
    <3>1. prevTime' \in 0 .. Modulus
      BY <2>4, ClockAssumption DEF MainTypeOK, ReadTime1, Sampled
    <3>2. i' \in Nat /\ stage' \in {"task", "dog"}
      BY <2>4 DEF MainTypeOK, ReadTime1
    <3>3. 0 \in 0 .. Modulus - 1 /\ 0 \in 0 .. SysPeriod - 1
      BY ClockAssumption, TimerAssumption
    <3>4. /\ time0' = 0 /\ tick' = 0 /\ at' = 0 /\ measured' = 0 /\ gap' = 0
          /\ prevTick' = tick /\ span' = span
      BY <2>4 DEF ReadTime1
    <3> QED BY <1>1, <2>1, <3>1, <3>2, <3>3, <3>4 DEF MainTypeOK, clockVars, timerVars
  <2>5. CASE TaskReturns
    BY <1>1, <2>1, <2>5 DEF MainTypeOK, TaskReturns, clockVars, timerVars, sampleVars
  <2> QED BY <2>2, <2>3, <2>4, <2>5
<1>3. HeardIsDiff'
  BY <1>1 DEF HeardIsDiff, clockVars, timerVars
<1>4. NothingDueForgotten'
  BY <1>1 DEF NothingDueForgotten, clockVars, timerVars
<1>5. StartsUp' /\ LooksInTime'
  BY <1>1 DEF StartsUp, LooksInTime, clockVars, timerVars
<1>6. SampleSeen'
  <2>1. baseTimer \in Nat /\ val \in Nat /\ gap \in Nat /\ MaxGap \in Nat
    BY ClockAssumption DEF MainTypeOK
  <2>2. CASE ReadTime0
    BY <2>1, <2>2 DEF SampleSeen, Sampling, ReadTime0, clockVars
  <2>3. CASE ReadTick
    BY <2>1, <2>3 DEF SampleSeen, Sampling, ReadTick, clockVars
  <2>4. CASE ReadTime1
    BY <2>1, <2>4 DEF SampleSeen, Sampling, ReadTime1
  <2>5. CASE TaskReturns
    BY <2>5 DEF SampleSeen, Sampling, TaskReturns
  <2> QED BY <2>2, <2>3, <2>4, <2>5
<1> QED BY <1>2, <1>3, <1>4, <1>5, <1>6

\* The watchdog is served: what the timers waited now counts from there.
LEMMA ServiceDogKeeps == MainInv /\ ServiceDog => MainInv'
<1> SUFFICES ASSUME MainInv, ServiceDog PROVE MainInv'
  OBVIOUS
<1>1. /\ stage = "dog" /\ dog' = 0 /\ stage' = "flag"
      /\ UNCHANGED <<baseTimer, msFlag, val, asyncTimerTab, starttime, i, sampleVars, heard, gap, span>>
  BY DEF ServiceDog, timerVars
<1>2. TableOK'
  BY <1>1 DEF MainInv, MainTypeOK, TableOK
<1>3. MainTypeOK'
  BY <1>1, <1>2 DEF MainInv, MainTypeOK, sampleVars
<1>4. HeardIsDiff' /\ NothingDueForgotten'
  BY <1>1 DEF MainInv, HeardIsDiff, NothingDueForgotten
<1>5. ASSUME NEW k \in 1 .. Len(asyncTimerTab)
      PROVE  Waited(heard, asyncTimerTab[k], Dog + 0)
  <2>1. PICK t \in Timer : t = asyncTimerTab[k]
    BY WaitedBound
  <2>2. Waited(heard, t, dog) /\ dog <= Dog
    BY <1>1, <2>1 DEF MainInv, LooksInTime
  <2>3. heard \in [Timer -> Nat] /\ dog \in Nat
    BY DEF MainInv, MainTypeOK
  <2>4. Dog + 0 \in Nat /\ dog <= Dog + 0
    BY <2>2, <2>3, ClockAssumption
  <2>5. Waited(heard, t, Dog + 0)
    BY <2>2, <2>3, <2>4, WaitedGrows, Zenon
  <2> QED BY <2>1, <2>5, Zenon
<1>6. StartsUp' /\ LooksInTime'
  BY <1>1, <1>5, ClockAssumption DEF StartsUp, LooksInTime
<1>7. SampleSeen'
  BY <1>1 DEF SampleSeen, Sampling
<1> QED BY <1>3, <1>4, <1>6, <1>7 DEF MainInv

\* A timer not due has waited less than its period.
LEMMA NotDueWaited ==
  ASSUME MainInv, NEW k \in 1 .. Len(asyncTimerTab),
         heard[asyncTimerTab[k]] < Period[asyncTimerTab[k]]
  PROVE  Waited(heard, asyncTimerTab[k], dog)
<1>1. PICK t \in Timer : t = asyncTimerTab[k]
  BY WaitedBound
<1>2. heard[t] \in Nat /\ Period[t] \in Nat /\ dog \in Nat
  BY TimerAssumption DEF MainInv, MainTypeOK
<1> QED BY <1>1, <1>2 DEF Waited

\* TestFlag, ClearFlag and PassEnds change the stage, the index and the flag.
\* Without the flag no timer is due.
LEMMA FlagStepsKeep ==
  ASSUME MainInv, TestFlag \/ ClearFlag \/ PassEnds PROVE MainInv'
<1> USE DEF MainInv
<1>1. UNCHANGED <<baseTimer, val, dog, asyncTimerTab, starttime, sampleVars, heard, gap, span>>
  BY DEF TestFlag, ClearFlag, PassEnds, clockVars, timerVars
<1>2. TableOK'
  BY <1>1 DEF MainTypeOK, TableOK
<1>3. stage' \in {"time0", "clear", "look"} /\ i' \in Nat /\ msFlag' \in BOOLEAN
  <2>1. CASE TestFlag
    BY <2>1 DEF TestFlag, clockVars, MainTypeOK
  <2>2. CASE ClearFlag
    BY <2>2 DEF ClearFlag
  <2>3. CASE PassEnds
    BY <2>3 DEF PassEnds, clockVars, MainTypeOK
  <2> QED BY <2>1, <2>2, <2>3
<1>4. MainTypeOK'
  BY <1>1, <1>2, <1>3 DEF MainTypeOK, sampleVars
<1>5. HeardIsDiff'
  BY <1>1 DEF HeardIsDiff
<1>6. \A k \in 1 .. Len(asyncTimerTab) :
        heard[asyncTimerTab[k]] \in Nat /\ Period[asyncTimerTab[k]] \in Nat
  BY WaitedBound, TimerAssumption DEF MainTypeOK
<1>7. NothingDueForgotten'
  <2>1. CASE TestFlag
    BY <1>1, <2>1 DEF TestFlag, NothingDueForgotten, clockVars
  <2>2. CASE ClearFlag
    BY <1>1, <2>2 DEF ClearFlag, NothingDueForgotten
  <2>3. CASE PassEnds
    <3>1. Len(asyncTimerTab) \in Nat /\ i \in Nat
      BY LenProperties DEF MainTypeOK, TableOK
    <3> QED BY <1>1, <2>3, <3>1 DEF PassEnds, NothingDueForgotten, clockVars
  <2> QED BY <2>1, <2>2, <2>3
<1>8. StartsUp'
  BY <1>3 DEF StartsUp
<1>9. LooksInTime'
  <2>1. dog' <= Dog
    BY <1>1 DEF LooksInTime, TestFlag, ClearFlag, PassEnds
  <2>2. CASE TestFlag /\ ~msFlag
    <3>1. \A k \in 1 .. Len(asyncTimerTab) : Waited(heard, asyncTimerTab[k], dog)
      BY <1>6, <2>2, NotDueWaited DEF TestFlag, NothingDueForgotten
    <3> QED BY <1>1, <2>1, <2>2, <3>1 DEF TestFlag, LooksInTime
  <2>3. CASE TestFlag /\ msFlag
    BY <1>1, <2>1, <2>3 DEF TestFlag, LooksInTime
  <2>4. CASE ClearFlag
    <3>1. \A k \in 1 .. Len(asyncTimerTab) : ~(k < 1)
      OBVIOUS
    <3> QED BY <1>1, <2>1, <2>4, <3>1 DEF ClearFlag, LooksInTime
  <2>5. CASE PassEnds
    <3>1. Len(asyncTimerTab) \in Nat /\ i \in Nat
      BY LenProperties DEF MainTypeOK, TableOK
    <3>2. \A k \in 1 .. Len(asyncTimerTab) : k < i
      BY <2>5, <3>1 DEF PassEnds
    <3>3. \A k \in 1 .. Len(asyncTimerTab) : Waited(heard, asyncTimerTab[k], dog)
      BY <2>5, <3>2 DEF PassEnds, LooksInTime
    <3> QED BY <1>1, <2>1, <2>5, <3>3 DEF PassEnds, LooksInTime
  <2> QED BY <2>2, <2>3, <2>4, <2>5
<1>10. SampleSeen'
  BY <1>3 DEF SampleSeen, Sampling
<1> QED BY <1>4, <1>5, <1>7, <1>8, <1>9, <1>10

\* What a timer's test finds is what it has waited.
LEMMA TimeUpIsDue ==
  ASSUME MainInv, NEW k \in 1 .. Len(asyncTimerTab)
  PROVE  TimeUp(asyncTimerTab[k]) <=> heard[asyncTimerTab[k]] >= Period[asyncTimerTab[k]]
  BY DEF MainInv, HeardIsDiff, TimeUp

LEMMA NotYetKeeps == MainInv /\ NotYet => MainInv'
<1> SUFFICES ASSUME MainInv, NotYet PROVE MainInv'
  OBVIOUS
<1> USE DEF MainInv
<1>1. /\ stage = "look" /\ i' = i + 1 /\ i \in Nat
      /\ UNCHANGED <<clockVars, asyncTimerTab, starttime, stage, sampleVars, heard, gap, span>>
  BY DEF NotYet, timerVars, MainTypeOK
<1>2. TableOK'
  BY <1>1 DEF MainTypeOK, TableOK
<1>3. MainTypeOK'
  BY <1>1, <1>2 DEF MainTypeOK, sampleVars, clockVars
<1>4. HeardIsDiff'
  BY <1>1 DEF HeardIsDiff, clockVars
<1>5. ASSUME NEW k \in 1 .. Len(asyncTimerTab), k = i
      PROVE  heard[asyncTimerTab[k]] < Period[asyncTimerTab[k]]
  <2>1. ~(heard[asyncTimerTab[k]] >= Period[asyncTimerTab[k]])
    BY <1>5, TimeUpIsDue DEF NotYet
  <2>2. heard[asyncTimerTab[k]] \in Nat /\ Period[asyncTimerTab[k]] \in Nat
    BY WaitedBound, TimerAssumption DEF MainTypeOK
  <2> QED BY <2>1, <2>2
<1>6. NothingDueForgotten'
  <2> SUFFICES ASSUME NEW k \in 1 .. Len(asyncTimerTab),
                      heard[asyncTimerTab[k]] >= Period[asyncTimerTab[k]]
               PROVE  msFlag \/ i + 1 <= k
    BY <1>1 DEF NothingDueForgotten, clockVars
  <2>1. k # i
    <3>1. heard[asyncTimerTab[k]] \in Nat /\ Period[asyncTimerTab[k]] \in Nat
      BY WaitedBound, TimerAssumption DEF MainTypeOK
    <3> QED BY <1>5, <3>1
  <2> QED BY <1>1, <2>1 DEF NothingDueForgotten
<1>7. StartsUp' /\ SampleSeen'
  BY <1>1 DEF StartsUp, SampleSeen, Sampling
<1>8. ASSUME NEW k \in 1 .. Len(asyncTimerTab)
      PROVE  Waited(heard, asyncTimerTab[k], IF k < i + 1 THEN dog ELSE Dog + dog)
  <2>1. CASE k = i
    BY <1>1, <1>5, <2>1, NotDueWaited
  <2>2. CASE k < i
    BY <1>1, <2>2 DEF LooksInTime
  <2>3. CASE k > i
    BY <1>1, <2>3 DEF LooksInTime
  <2> QED BY <1>1, <2>1, <2>2, <2>3
<1>9. LooksInTime'
  BY <1>1, <1>8 DEF LooksInTime, clockVars
<1> QED BY <1>3, <1>4, <1>6, <1>7, <1>9

\* A callback: its timer starts again, the others wait as before.
LEMMA FiresKeeps ==
  ASSUME MainInv, NEW t \in Timer, Fires(t) PROVE MainInv'
<1> USE DEF MainInv
<1>1. /\ stage = "look" /\ i' = i + 1 /\ i \in Nat
      /\ UNCHANGED <<clockVars, asyncTimerTab, stage, sampleVars, gap, span>>
      /\ starttime' = [starttime EXCEPT ![t] = baseTimer]
      /\ heard' = [heard EXCEPT ![t] = 0] /\ t = asyncTimerTab[i]
  BY DEF Fires, MainTypeOK
<1>2. TableOK'
  BY <1>1 DEF MainTypeOK, TableOK
<1>3. MainTypeOK'
  <2>1. starttime' \in [Timer -> 0 .. Modulus - 1] /\ heard' \in [Timer -> Nat]
    BY <1>1 DEF MainTypeOK
  <2> QED BY <1>1, <1>2, <2>1 DEF MainTypeOK, sampleVars, clockVars
<1>4. ASSUME NEW k \in 1 .. Len(asyncTimerTab)
      PROVE  \/ /\ asyncTimerTab[k] = t /\ heard'[t] = 0 /\ starttime'[t] = baseTimer
             \/ /\ asyncTimerTab[k] # t /\ k # i
                /\ heard'[asyncTimerTab[k]] = heard[asyncTimerTab[k]]
                /\ starttime'[asyncTimerTab[k]] = starttime[asyncTimerTab[k]]
  <2>1. asyncTimerTab[k] \in Timer
    BY WaitedBound
  <2> QED BY <1>1, <2>1 DEF MainTypeOK
<1>5. HeardIsDiff'
  <2>1. Diff(baseTimer, baseTimer) = 0
    BY DEF Diff, MainTypeOK
  <2> QED BY <1>1, <1>4, <2>1 DEF HeardIsDiff, clockVars
<1>6. Period[t] \in Nat \ {0} /\ dog \in Nat /\ Dog \in Nat
  BY ClockAssumption, TimerAssumption DEF MainTypeOK
<1>7. NothingDueForgotten'
  <2> SUFFICES ASSUME NEW k \in 1 .. Len(asyncTimerTab),
                      heard'[asyncTimerTab[k]] >= Period[asyncTimerTab[k]]
               PROVE  msFlag \/ i + 1 <= k
    BY <1>1 DEF NothingDueForgotten, clockVars
  <2>1. k # i /\ heard[asyncTimerTab[k]] >= Period[asyncTimerTab[k]]
    BY <1>4, <1>6
  <2> QED BY <1>1, <2>1 DEF NothingDueForgotten
<1>8. StartsUp' /\ SampleSeen'
  BY <1>1 DEF StartsUp, SampleSeen, Sampling
<1>9. ASSUME NEW k \in 1 .. Len(asyncTimerTab)
      PROVE  Waited(heard', asyncTimerTab[k], IF k < i + 1 THEN dog ELSE Dog + dog)
  <2>1. CASE asyncTimerTab[k] = t
    BY <1>4, <1>6, <2>1 DEF Waited
  <2>2. CASE asyncTimerTab[k] # t
    <3>1. k # i /\ heard'[asyncTimerTab[k]] = heard[asyncTimerTab[k]]
      BY <1>4, <2>2
    <3>2. Waited(heard, asyncTimerTab[k], IF k < i THEN dog ELSE Dog + dog)
      BY <1>1 DEF LooksInTime
    <3>3. (k < i + 1) <=> (k < i)
      BY <1>1, <3>1
    <3> QED BY <3>1, <3>2, <3>3 DEF Waited
  <2> QED BY <2>1, <2>2
<1>10. LooksInTime'
  <2>1. dog <= Dog /\ i + 1 >= 1
    BY <1>1 DEF LooksInTime
  <2> QED BY <1>1, <1>9, <2>1 DEF LooksInTime, clockVars
<1> QED BY <1>3, <1>5, <1>7, <1>8, <1>10

-----------------------------------------------------------------------------
LEMMA StutterKeeps == MainInv /\ UNCHANGED mainVars => MainInv'
<1> SUFFICES ASSUME MainInv, UNCHANGED mainVars PROVE MainInv'
  OBVIOUS
<1> USE DEF mainVars, MainInv
<1>1. MainTypeOK'
  BY DEF MainTypeOK, TableOK
<1>2. HeardIsDiff' /\ NothingDueForgotten'
  BY DEF HeardIsDiff, NothingDueForgotten
<1>3. StartsUp' /\ LooksInTime' /\ SampleSeen'
  BY DEF StartsUp, LooksInTime, SampleSeen, Sampling
<1> QED BY <1>1, <1>2, <1>3

\* The two reads and the correction give the count at the moment of the tick.
LEMMA SampleIsTrue ==
  ASSUME MainInv, stage = "time1"
  PROVE  Sampled(time0, tick, baseTimer) \in {at, at + Modulus}
<1>1. /\ time0 \in 0 .. Modulus - 1 /\ baseTimer \in 0 .. Modulus - 1 /\ at \in 0 .. Modulus - 1
      /\ tick \in 0 .. SysPeriod - 1 /\ gap \in Nat /\ gap <= MaxGap /\ Modulus > 1
  <2>1. /\ time0 \in 0 .. Modulus - 1 /\ baseTimer \in 0 .. Modulus - 1 /\ at \in 0 .. Modulus - 1
        /\ tick \in 0 .. SysPeriod - 1 /\ gap \in Nat
    BY DEF MainInv, MainTypeOK
  <2>2. gap <= MaxGap
    BY Zenon DEF MainInv, SampleSeen, Sampling
  <2>3. Modulus > 1
    <3>1. PICK t \in Timer : t = Adapter
      BY TimerAssumption
    <3>2. Period[t] \in Nat \ {0} /\ Period[t] + 2 * Dog + StartUp + 1 < Modulus
      BY <3>1, TimerAssumption
    <3> QED
      BY <3>2, ClockAssumption
  <2> QED
    BY <2>1, <2>2, <2>3, Zenon
<1>2. CASE baseTimer = time0 /\ at = time0
  BY <1>2 DEF Sampled
<1>3. CASE baseTimer = NextCount(time0) /\ at = baseTimer /\ tick >= SysPeriod - gap
  BY <1>1, <1>3, ClockAssumption DEF Sampled, NextCount
<1>4. CASE baseTimer = NextCount(time0) /\ at = time0 /\ tick < gap
  BY <1>1, <1>4, ClockAssumption DEF Sampled, NextCount
<1> QED BY <1>2, <1>3, <1>4 DEF MainInv, SampleSeen

\* The inductive invariant of the main loop.
THEOREM MainInvariant == MainSpec => []MainInv
<1>1. MainInv /\ [Next]_mainVars => MainInv'
  <2> SUFFICES ASSUME MainInv, [Next]_mainVars PROVE MainInv'
    OBVIOUS
  <2>1. CASE Main
    BY <2>1, TryAdapterKeeps, EnterLoopKeeps, SampleStepsKeep, EnableCanTimerKeeps,
       ServiceDogKeeps, FlagStepsKeep, FiresKeeps, NotYetKeeps DEF Main
  <2>2. CASE Tick
    BY <2>2, TickKeeps
  <2>3. CASE DogBites
    BY <2>3, DogBitesKeeps
  <2>4. CASE UNCHANGED mainVars
    BY <2>4, StutterKeeps
  <2> QED BY <2>1, <2>2, <2>3, <2>4 DEF Next
<1> QED BY MainInit, <1>1, PTL DEF MainSpec

\* Count, table and loop keep their types, and no timer is attached twice, for
\* every modulus, table and watchdog time.
THEOREM MainTypeCorrect == MainSpec => []MainTypeOK
<1>1. MainInv => MainTypeOK
  BY DEF MainInv
<1> QED BY MainInvariant, <1>1, PTL

\* The flag and the pass of doRun together lose no tick: no due timer is left
\* to wait for another one.
THEOREM NoTimerForgotten == MainSpec => []NothingDueForgotten
<1>1. MainInv => NothingDueForgotten
  BY DEF MainInv
<1> QED BY MainInvariant, <1>1, PTL

\* The watchdog bounds how late a timer is looked at.
THEOREM TimersLateAtMost == MainSpec => []LateAtMost
<1>1. MainInv => LateAtMost
  <2> SUFFICES ASSUME MainInv, NEW t \in Attached
               PROVE  \/ heard[t] < Period[t] + 2 * Dog
                      \/ t \in {Adapter, Statistic} /\ heard[t] <= StartUp + 2 * Dog
    BY DEF LateAtMost
  <2>1. PICK k \in 1 .. Len(asyncTimerTab) : t = asyncTimerTab[k]
    BY AttachedAre DEF MainInv
  <2>2. heard[t] \in Nat /\ Period[t] \in Nat /\ dog \in Nat /\ i \in Nat
    BY <2>1, WaitedBound, TimerAssumption DEF MainInv, MainTypeOK
  <2>3. Dog \in Nat /\ StartUp \in Nat
    BY ClockAssumption
  <2>4. CASE stage = "init"
    BY <2>1, <2>2, <2>3, <2>4 DEF MainInv, StartsUp
  <2>5. CASE stage # "init"
    <3>1. dog <= Dog
      BY <2>5 DEF MainInv, LooksInTime
    <3>2. Waited(heard, t, dog) \/ Waited(heard, t, Dog + dog)
      BY <2>1, <2>5 DEF MainInv, MainTypeOK, LooksInTime
    <3> QED BY <2>2, <2>3, <3>1, <3>2 DEF Waited
  <2> QED BY <2>4, <2>5
<1> QED BY MainInvariant, <1>1, PTL

\* A callback never comes before its period is over, on either side of the wrap.
THEOREM TimersNeverEarly == MainSpec => NeverEarly
<1>1. MainInv => [\A t \in Timer : Fires(t) => heard[t] >= Period[t]]_mainVars
  <2> SUFFICES ASSUME MainInv, NEW t \in Timer, Fires(t) PROVE heard[t] >= Period[t]
    OBVIOUS
  <2>1. i \in 1 .. Len(asyncTimerTab)
    BY LenProperties DEF MainInv, MainTypeOK, TableOK, LooksInTime, Fires
  <2> QED BY <2>1, TimeUpIsDue DEF Fires
<1> QED BY MainInvariant, <1>1, PTL DEF NeverEarly

\* The corrected count belongs to the tick, wherever a reload fell.
THEOREM SamplesTrue == MainSpec => []SampleTrue
<1>1. MainInv => SampleTrue
  BY SampleIsTrue DEF SampleTrue
<1> QED BY MainInvariant, <1>1, PTL

-----------------------------------------------------------------------------
\* The cost of a task.

\* From tick tk of millisecond time to tick v of millisecond now it is n counts,
\* by r reloads and w turns of the millisecond count.
Apart(time, tk, now, v, n) ==
  \E r \in 0 .. dog, w \in Int :
    /\ now = time + r - w * Modulus
    /\ n = r * SysPeriod + tk - v

\* The counts since a tick was read, and those between the last two, are what
\* the samples say; the first sample of a pass has none before it.
AccountInv ==
  /\ stage \in {"init", "dog", "flag", "clear"} => i = 0
  /\ stage = "task" => i > 0
  /\ stage \in {"task", "time0", "tick"} /\ i > 0 =>
       Apart(prevTime, prevTick, baseTimer, val, span)
  /\ stage = "time1" =>
       /\ Apart(at, tick, baseTimer, val, span)
       /\ i > 0 => Apart(prevTime, prevTick, at, tick, measured)

\* One count of the clock, with a reload or without, goes on from any tick.
LEMMA TickApart ==
  ASSUME MainInv, Tick, NEW time \in Int, NEW tk \in Int, NEW n \in Int,
         Apart(time, tk, baseTimer, val, n)
  PROVE  \E r \in 0 .. dog', w \in Int :
           /\ baseTimer' = time + r - w * Modulus
           /\ n + 1 = r * SysPeriod + tk - val'
<1>0. /\ baseTimer \in 0 .. Modulus - 1 /\ val \in 0 .. SysPeriod - 1 /\ dog \in Nat
      /\ SysPeriod \in Nat /\ Modulus \in Nat
  BY ClockAssumption DEF MainInv, MainTypeOK
<1>1. PICK r \in 0 .. dog, w \in Int :
        baseTimer = time + r - w * Modulus /\ n = r * SysPeriod + tk - val
  BY DEF Apart
<1>2. CASE val > 0 /\ val' = val - 1 /\ UNCHANGED <<baseTimer, dog>>
  <2>1. n + 1 = r * SysPeriod + tk - val'
    <3> DEFINE c == r * SysPeriod
    <3>1. c \in Int
      BY <1>0, <1>1
    <3> HIDE DEF c
    <3>2. n + 1 = c + tk - val'
      BY <1>0, <1>1, <1>2, <3>1 DEF c
    <3> QED BY <3>2 DEF c
  <2> QED BY <1>1, <1>2, <2>1
<1>3. CASE val = 0 /\ Reload
  <2>1. /\ val' = SysPeriod - 1 /\ dog' = dog + 1 /\ r + 1 \in 0 .. dog'
        /\ baseTimer' = NextCount(baseTimer)
    BY <1>0, <1>1, <1>3 DEF Reload
  <2>2. n + 1 = (r + 1) * SysPeriod + tk - val'
    <3> DEFINE c == r * SysPeriod
    <3>1. c \in Int /\ (r + 1) * SysPeriod = c + SysPeriod
      BY <1>0, <1>1
    <3> HIDE DEF c
    <3>2. n = c + tk
      BY <1>1, <1>3, <1>0, <3>1 DEF c
    <3> QED BY <1>0, <2>1, <3>1, <3>2
  <2>3. \E u \in Int : baseTimer' = time + (r + 1) - u * Modulus
    <3> DEFINE c == w * Modulus
    <3>1. c \in Int /\ (w + 1) * Modulus = c + Modulus
      BY <1>0, <1>1
    <3> HIDE DEF c
    <3>2. baseTimer = time + r - c
      BY <1>1 DEF c
    <3>3. CASE baseTimer + 1 = Modulus
      <4>1. baseTimer' = time + (r + 1) - (w + 1) * Modulus
        BY <1>0, <2>1, <3>1, <3>2, <3>3 DEF NextCount
      <4> QED BY <1>1, <4>1
    <3>4. CASE baseTimer + 1 # Modulus
      <4>1. baseTimer' = time + (r + 1) - w * Modulus
        BY <1>0, <2>1, <3>1, <3>2, <3>4 DEF NextCount, c
      <4> QED BY <1>1, <4>1
    <3> QED BY <3>3, <3>4
  <2> QED BY <2>1, <2>2, <2>3
<1> QED BY <1>2, <1>3 DEF Tick

\* An interval that is over stays as long when the watchdog's count goes on.
LEMMA ApartKeeps ==
  ASSUME NEW time, NEW tk, NEW now, NEW v, NEW n, Apart(time, tk, now, v, n),
         dog \in Nat, dog' \in Nat, dog' >= dog
  PROVE  \E r \in 0 .. dog', w \in Int :
           now = time + r - w * Modulus /\ n = r * SysPeriod + tk - v
BY DEF Apart

LEMMA TickAccounts == MainInv /\ AccountInv /\ Tick => AccountInv'
<1> SUFFICES ASSUME MainInv, AccountInv, Tick PROVE AccountInv'
  OBVIOUS
<1>1. /\ UNCHANGED <<stage, i, time0, tick, prevTime, prevTick, at, measured>>
      /\ dog \in Nat /\ dog' \in Nat /\ dog' >= dog
      /\ {prevTime, prevTick, span, at, tick} \subseteq Int
      /\ stage \in {"time0", "tick", "time1", "task"} => span' = span + 1
  BY DEF Tick, Reload, sampleVars, Pooling, MainInv, MainTypeOK
<1>2. ASSUME stage \in {"task", "time0", "tick"}, i > 0
      PROVE  Apart(prevTime, prevTick, baseTimer, val, span)'
  <2>1. Apart(prevTime, prevTick, baseTimer, val, span) /\ prevTime \in Int /\ prevTick \in Int /\ span \in Int
    BY <1>1, <1>2 DEF AccountInv
  <2>2. \E r \in 0 .. dog', w \in Int :
          baseTimer' = prevTime + r - w * Modulus /\ span + 1 = r * SysPeriod + prevTick - val'
    BY <2>1, TickApart
  <2>3. span' = span + 1 /\ prevTime' = prevTime /\ prevTick' = prevTick
    BY <1>1, <1>2
  <2> QED BY <2>2, <2>3 DEF Apart
<1>3. ASSUME stage = "time1" PROVE Apart(at, tick, baseTimer, val, span)'
  <2>1. Apart(at, tick, baseTimer, val, span) /\ at \in Int /\ tick \in Int /\ span \in Int
    BY <1>1, <1>3 DEF AccountInv
  <2>2. \E r \in 0 .. dog', w \in Int :
          baseTimer' = at + r - w * Modulus /\ span + 1 = r * SysPeriod + tick - val'
    BY <2>1, TickApart
  <2>3. span' = span + 1 /\ at' = at /\ tick' = tick
    BY <1>1, <1>3
  <2> QED BY <2>2, <2>3 DEF Apart
<1>4. ASSUME stage = "time1", i > 0 PROVE Apart(prevTime, prevTick, at, tick, measured)'
  BY <1>1, <1>4, ApartKeeps DEF AccountInv, Apart
<1> QED BY <1>1, <1>2, <1>3, <1>4 DEF AccountInv

LEMMA MainAccounts == MainInv /\ AccountInv /\ Main => AccountInv'
<1> SUFFICES ASSUME MainInv, AccountInv, Main PROVE AccountInv'
  OBVIOUS
<1>0. /\ dog \in Nat /\ i \in Nat /\ val \in Int /\ Modulus \in Nat /\ SysPeriod \in Nat
      /\ at \in Int /\ baseTimer \in Int
  BY ClockAssumption DEF MainInv, MainTypeOK
<1>1. CASE ReadTick
  <2>1. /\ tick' = val /\ at' = baseTimer /\ measured' = span /\ span' = 0
        /\ stage = "tick" /\ stage' = "time1"
        /\ UNCHANGED <<i, prevTime, prevTick, baseTimer, val, dog>>
    BY <1>1 DEF ReadTick, clockVars
  <2>2. Apart(at, tick, baseTimer, val, span)'
    <3>1. 0 \in 0 .. dog /\ 0 \in Int /\ 0 * Modulus = 0 /\ 0 * SysPeriod = 0
      BY <1>0
    <3>2. baseTimer = baseTimer + 0 - 0 * Modulus /\ 0 = 0 * SysPeriod + val - val
      BY <1>0, <3>1
    <3> QED BY <2>1, <3>1, <3>2 DEF Apart
  <2>3. i > 0 => Apart(prevTime, prevTick, at, tick, measured)'
    BY <2>1 DEF AccountInv, Apart
  <2> QED BY <2>1, <2>2, <2>3 DEF AccountInv
<1>2. CASE ReadTime1
  <2>1. /\ stage = "time1" /\ prevTime' \in {at, at + Modulus} /\ prevTick' = tick
        /\ UNCHANGED <<baseTimer, val, dog, span>>
        /\ \/ stage' = "task" /\ i' = i + 1
           \/ stage' = "dog" /\ i' = 0
    BY <1>2, SampleIsTrue DEF ReadTime1, clockVars
  <2>2. Apart(prevTime, prevTick, baseTimer, val, span)'
    <3>1. PICK r \in 0 .. dog, w \in Int :
            baseTimer = at + r - w * Modulus /\ span = r * SysPeriod + tick - val
      BY <2>1 DEF AccountInv, Apart
    <3>2. \E u \in Int : baseTimer = prevTime' + r - u * Modulus
      <4>1. (w + 1) * Modulus = w * Modulus + Modulus /\ w * Modulus \in Int
        BY <1>0
      <4> DEFINE c == w * Modulus
      <4>2. prevTime' = at + Modulus => baseTimer = prevTime' + r - (w + 1) * Modulus
        <5> HIDE DEF c
        <5>1. c \in Int /\ (w + 1) * Modulus = c + Modulus /\ baseTimer = at + r - c
          BY <3>1, <4>1 DEF c
        <5> QED BY <1>0, <5>1
      <4>3. prevTime' = at => baseTimer = prevTime' + r - w * Modulus
        BY <3>1
      <4> QED BY <2>1, <4>2, <4>3
    <3> QED BY <2>1, <3>1, <3>2 DEF Apart
  <2> QED BY <1>0, <2>1, <2>2 DEF AccountInv
<1>3. CASE \/ TryAdapter \/ EnterLoop \/ ServiceDog \/ TestFlag \/ ClearFlag
           \/ (\E t \in Timer : Fires(t)) \/ NotYet \/ PassEnds
  <2>1. \/ stage' \in {"init", "flag", "clear"} /\ i' = 0
        \/ stage' = "time0" /\ i' = 0
        \/ stage' = "look"
    BY <1>3 DEF AccountInv, TryAdapter, EnterLoop, ServiceDog, TestFlag, ClearFlag, Fires,
       NotYet, PassEnds
  <2> QED BY <2>1 DEF AccountInv
<1>4. CASE ReadTime0 \/ (\E t \in Timer : EnableCanTimer(t)) \/ TaskReturns
  <2>1. /\ UNCHANGED <<baseTimer, val, dog, i, prevTime, prevTick, span>>
        /\ stage \in {"time0", "task"} /\ stage' \in {"task", "time0", "tick"}
        /\ stage' = "task" => stage = "task"
    BY <1>4 DEF ReadTime0, EnableCanTimer, TaskReturns, clockVars, sampleVars
  <2> QED BY <2>1 DEF AccountInv, Apart
<1> QED BY <1>1, <1>2, <1>3, <1>4 DEF Main

LEMMA AccountInductive == MainSpec => []AccountInv
<1>1. Init => AccountInv
  BY DEF Init, AccountInv
<1>2. MainInv /\ AccountInv /\ [Next]_mainVars => AccountInv'
  <2>1. DogBites => AccountInv'
    BY DEF DogBites, AccountInv
  <2>2. UNCHANGED mainVars /\ AccountInv => AccountInv'
    BY DEF mainVars, AccountInv, Apart
  <2> QED BY <2>1, <2>2, TickAccounts, MainAccounts DEF Next
<1> QED BY <1>1, <1>2, MainInvariant, PTL DEF MainSpec

\* A number less than the modulus is the remainder of what differs from it by
\* multiples of the modulus.
LEMMA Remainder ==
  ASSUME NEW m \in Nat \ {0}, NEW r \in 0 .. m - 1, NEW k \in Int
  PROVE  (r + k * m) % m = r
<1> DEFINE n == r + k * m
           d == n \div m
           s == n % m
<1>1. n \in Int /\ s \in 0 .. m - 1 /\ d \in Int /\ n = d * m + s
  OBVIOUS
<1> HIDE DEF s, d
<1>2. (k - d) * m = s - r
  BY <1>1
<1>3. ASSUME k - d >= 1 PROVE FALSE
  <2>1. (k - d) * m >= m
    BY <1>1, <1>3
  <2> QED BY <1>1, <1>2, <2>1
<1>4. ASSUME k - d <= -1 PROVE FALSE
  <2>1. (k - d) * m <= -m
    BY <1>1, <1>4
  <2> QED BY <1>1, <1>2, <2>1
<1>5. k = d
  BY <1>1, <1>3, <1>4
<1> QED BY <1>1, <1>2, <1>5 DEF s

LEMMA SmallInt16 ==
  ASSUME NEW n, NEW r, n % Width = r, ~(2 * r >= Width)
  PROVE  Int16(n) = r
  BY DEF Int16

\* Between two ticks, with fewer reloads than the watchdog allows, the difference
\* kept in an int16_t is the number of reloads.
LEMMA CostIsTime ==
  ASSUME MainInv, dog <= Dog, NEW time \in Int, Apart(prevTime, prevTick, time, tick, measured)
  PROVE  Cost(time, tick) = measured
<1>0. /\ Modulus \in Nat /\ SysPeriod \in Nat /\ Width \in Nat \ {0} /\ Dog \in Nat
      /\ 2 * Dog < Width /\ Modulus % Width = 0 /\ dog \in Nat
      /\ prevTime \in Int /\ prevTick \in Int /\ tick \in Int
  BY ClockAssumption DEF MainInv, MainTypeOK
<1>1. PICK r \in 0 .. dog, w \in Int :
        time = prevTime + r - w * Modulus /\ measured = r * SysPeriod + prevTick - tick
  BY DEF Apart
<1>2. Int16(time - prevTime) = r
  <2> DEFINE q == Modulus \div Width
  <2>1. q \in Int /\ Modulus = q * Width
    BY <1>0
  <2> HIDE DEF q
  <2>2. w * Modulus = (w * q) * Width /\ w * q \in Int
    BY <1>0, <1>1, <2>1
  <2>3. PICK k \in Int : k = -(w * q)
    BY <2>2
  <2>4. k * Width = -(w * Modulus) /\ w * Modulus \in Int
    BY <1>0, <2>2, <2>3
  <2>5. time - prevTime = r + k * Width
    BY <1>0, <1>1, <2>4
  <2>6. r \in 0 .. Width - 1 /\ 2 * r < Width
    BY <1>0, <1>1
  <2>7. (time - prevTime) % Width = r
    <3>1. (r + k * Width) % Width = r
      BY <1>0, <2>6, Remainder, Zenon
    <3> QED BY <2>5, <3>1, Zenon
  <2>8. ~(2 * r >= Width)
    BY <1>0, <1>1, <2>6
  <2> QED BY <2>7, <2>8, SmallInt16, Zenon
<1>3. (r - 1) * SysPeriod = r * SysPeriod - SysPeriod /\ r * SysPeriod \in Int
  BY <1>0
<1> QED BY <1>0, <1>1, <1>2, <1>3 DEF Cost

\* The cost added up for a task is the time between the ticks of its two samples,
\* to the count.
THEOREM CostsTrue == MainSpec => []AccountTrue
<1>1. MainInv /\ AccountInv => AccountTrue
  <2> SUFFICES ASSUME MainInv, AccountInv, stage = "time1"
               PROVE  /\ Sampled(time0, tick, baseTimer) \in {at, at + Modulus}
                      /\ i > 0 => Cost(Sampled(time0, tick, baseTimer), tick) = measured
    BY DEF AccountTrue, SampleTrue
  <2> DEFINE time == Sampled(time0, tick, baseTimer)
  <2>1. time \in {at, at + Modulus}
    BY SampleIsTrue
  <2>2. at \in Int /\ Modulus \in Nat /\ dog <= Dog
    BY ClockAssumption DEF MainInv, MainTypeOK, LooksInTime
  <2> HIDE DEF time
  <2>3. ASSUME i > 0 PROVE Apart(prevTime, prevTick, time, tick, measured)
    <3>1. PICK r \in 0 .. dog, w \in Int :
            at = prevTime + r - w * Modulus /\ measured = r * SysPeriod + prevTick - tick
      BY <2>3 DEF AccountInv, Apart
    <3>2. (w - 1) * Modulus = w * Modulus - Modulus /\ w * Modulus \in Int
      BY <2>2
    <3>3. prevTime \in Int
      BY DEF MainInv, MainTypeOK
    <3>4. time = at \/ time = prevTime + r - (w - 1) * Modulus
      BY <2>1, <2>2, <3>1, <3>2, <3>3
    <3> QED BY <3>1, <3>4 DEF Apart
  <2> QED BY <2>1, <2>2, <2>3, CostIsTime DEF time
<1> QED BY <1>1, MainInvariant, AccountInductive, PTL
=============================================================================

---------------------------- MODULE CsTimerProofs ----------------------------
(* Proofs about the timer service model CsTimer.                           *)
EXTENDS CsTimer, SequenceTheorems, TLAPS

(* Erasing one element of a sequence of timers leaves a sequence of timers *)
(* (the vector::erase in csThreadTimer::RemoveTimer).                      *)
LEMMA EraseType ==
    ASSUME NEW S, NEW s \in Seq(S), NEW k \in 1..Len(s)
    PROVE  Erase(s, k) \in Seq(S)
BY SubSeqProperties, ConcatProperties DEF Erase

LEMMA EraseFirstType ==
    ASSUME NEW S, NEW s \in Seq(S), NEW t
    PROVE  EraseFirst(s, t) \in Seq(S)
<1>1. CASE \E k \in 1..Len(s) : IsFirst(s, t, k)
  <2> DEFINE k == CHOOSE k \in 1..Len(s) : IsFirst(s, t, k)
  <2>1. k \in 1..Len(s) BY <1>1
  <2>2. QED BY <1>1, <2>1, EraseType DEF EraseFirst
<1>2. CASE ~\E k \in 1..Len(s) : IsFirst(s, t, k)
  BY <1>2 DEF EraseFirst
<1>3. QED BY <1>1, <1>2

(* TypeOK is not inductive by itself: TickEnd increments now, so the tick  *)
(* it ends must have begun below the bound.                                *)
TickBound == ticker = "tick" => now < MaxTicks

TypeInv == TypeOK /\ TickBound

LEMMA InitTypeInv == Init => TypeInv
<1> SUFFICES ASSUME Init PROVE TypeInv
  OBVIOUS
<1>1. NoSched \in SchedRec BY DEF NoSched, SchedRec
<1>2. << >> \in Seq(Timers) BY EmptySeq
<1>3. life \in [Timers -> {"none", "live", "dying", "gone"}] /\ running \in [Timers -> BOOLEAN]
  BY DEF Init
<1>4. value \in [Timers -> -1..MaxValue] /\ interval \in [Timers -> Values]
  BY MaxValueAssumption DEF Init, Values
<1>5. now \in 0..MaxTicks BY MaxTicksAssumption DEF Init
<1>6. sched \in [Timers -> SchedRec] BY <1>1 DEF Init
<1>7. visits \in [Timers -> Nat] BY DEF Init
<1>8. clean \in [Timers -> BOOLEAN] BY DEF Init
<1>9. ticker = "start" /\ armed = FALSE /\ pos = 1 /\ quit = FALSE /\ timerVec = << >> BY DEF Init
<1>10. timerVec \in Seq(Timers) /\ ticker \in {"start", "pop", "wait", "tick", "exited"}
       /\ armed \in BOOLEAN
       /\ pos \in Nat \ {0} /\ quit \in BOOLEAN
  <2>1. timerVec \in Seq(Timers) BY <1>2, <1>9, Zenon
  <2>2. ticker \in {"start", "pop", "wait", "tick", "exited"} /\ armed \in BOOLEAN
         /\ quit \in BOOLEAN
    BY <1>9, Zenon
  <2>3. pos \in Nat \ {0} BY <1>9
  <2>4. QED BY <2>1, <2>2, <2>3
<1>11. TypeOK BY <1>3, <1>4, <1>5, <1>6, <1>7, <1>8, <1>10 DEF TypeOK
<1>12. TickBound BY <1>9 DEF TickBound
<1>13. QED BY <1>11, <1>12 DEF TypeInv

LEMMA NextTypeInv == TypeInv /\ [Next]_vars => TypeInv'
<1> SUFFICES ASSUME TypeOK, TickBound, [Next]_vars
             PROVE  TypeOK' /\ TickBound'
  BY DEF TypeInv
<1>1. ASSUME NEW t \in Timers, NEW n \in Values, NEW m \in Values, Create(t, n, m)
      PROVE TypeOK' /\ TickBound'
  <2>1. life' \in [Timers -> {"none", "live", "dying", "gone"}] BY <1>1 DEF Create, TypeOK
  <2>2. value' \in [Timers -> -1..MaxValue] BY <1>1 DEF Create, TypeOK, Values
  <2>3. interval' \in [Timers -> Values] BY <1>1 DEF Create, TypeOK
  <2>4. timerVec' \in Seq(Timers) BY <1>1, AppendProperties DEF Create, AddTimer, TypeOK
  <2>5. UNCHANGED <<running, ticker, armed, pos, quit, now, visits, clean, sched>>
    BY <1>1 DEF Create, TickerVars
  <2>6. QED BY <2>1, <2>2, <2>3, <2>4, <2>5 DEF TypeOK, TickBound
<1>2. ASSUME NEW t \in Timers, Start(t) PROVE TypeOK' /\ TickBound'
  <2>1. running' \in [Timers -> BOOLEAN] BY <1>2 DEF Start, TypeOK
  <2>2. clean' \in [Timers -> BOOLEAN] BY <1>2 DEF Start, TypeOK
  <2>3. sched' \in [Timers -> SchedRec]
    <3>1. [v |-> value[t], i |-> interval[t], dec |-> 0, fires |-> 0] \in SchedRec
      BY DEF TypeOK, SchedRec, Values
    <3>2. QED BY <1>2, <3>1 DEF Start, TypeOK
  <2>4. UNCHANGED <<life, value, interval, timerVec, ticker, armed, pos, quit, now, visits>>
    BY <1>2 DEF Start, TickerVars
  <2>5. QED BY <2>1, <2>2, <2>3, <2>4 DEF TypeOK, TickBound
<1>3. ASSUME NEW t \in Timers, Stop(t) PROVE TypeOK' /\ TickBound'
  <2>1. running' \in [Timers -> BOOLEAN] BY <1>3 DEF Stop, TypeOK
  <2>2. clean' \in [Timers -> BOOLEAN] BY <1>3 DEF Stop, TypeOK
  <2>3. sched' \in [Timers -> SchedRec] BY <1>3 DEF Stop, TypeOK, SchedRec, NoSched
  <2>4. UNCHANGED <<life, value, interval, timerVec, ticker, armed, pos, quit, now, visits>>
    BY <1>3 DEF Stop, TickerVars
  <2>5. QED BY <2>1, <2>2, <2>3, <2>4 DEF TypeOK, TickBound
<1>4. ASSUME NEW t \in Timers, NEW n \in Values, SetValue(t, n) PROVE TypeOK' /\ TickBound'
  <2>1. value' \in [Timers -> -1..MaxValue] BY <1>4 DEF SetValue, TypeOK, Values
  <2>2. clean' \in [Timers -> BOOLEAN] BY <1>4 DEF SetValue, TypeOK
  <2>3. sched' \in [Timers -> SchedRec] BY <1>4 DEF SetValue, TypeOK, SchedRec, NoSched
  <2>4. UNCHANGED <<life, running, interval, timerVec, ticker, armed, pos, quit, now, visits>>
    BY <1>4 DEF SetValue, TickerVars
  <2>5. QED BY <2>1, <2>2, <2>3, <2>4 DEF TypeOK, TickBound
<1>5. ASSUME NEW t \in Timers, NEW n \in Values, SetInterval(t, n) PROVE TypeOK' /\ TickBound'
  <2>1. interval' \in [Timers -> Values] BY <1>5 DEF SetInterval, TypeOK
  <2>2. clean' \in [Timers -> BOOLEAN] BY <1>5 DEF SetInterval, TypeOK
  <2>3. sched' \in [Timers -> SchedRec] BY <1>5 DEF SetInterval, TypeOK, SchedRec, NoSched
  <2>4. UNCHANGED <<life, running, value, timerVec, ticker, armed, pos, quit, now, visits>>
    BY <1>5 DEF SetInterval, TickerVars
  <2>5. QED BY <2>1, <2>2, <2>3, <2>4 DEF TypeOK, TickBound
<1>6. ASSUME NEW t \in Timers, NEW n \in Values, Extend(t, n) PROVE TypeOK' /\ TickBound'
  <2>1. value' \in [Timers -> -1..MaxValue] BY <1>6 DEF Extend, TypeOK, Values
  <2>2. clean' \in [Timers -> BOOLEAN] BY <1>6 DEF Extend, TypeOK
  <2>3. sched' \in [Timers -> SchedRec] BY <1>6 DEF Extend, TypeOK, SchedRec, NoSched
  <2>4. UNCHANGED <<life, running, interval, timerVec, ticker, armed, pos, quit, now, visits>>
    BY <1>6 DEF Extend, TickerVars
  <2>5. QED BY <2>1, <2>2, <2>3, <2>4 DEF TypeOK, TickBound
<1>7. ASSUME NEW t \in Timers, DestroyStop(t) PROVE TypeOK' /\ TickBound'
  <2>1. life' \in [Timers -> {"none", "live", "dying", "gone"}] BY <1>7 DEF DestroyStop, TypeOK
  <2>2. running' \in [Timers -> BOOLEAN] BY <1>7 DEF DestroyStop, TypeOK
  <2>3. clean' \in [Timers -> BOOLEAN] BY <1>7 DEF DestroyStop, TypeOK
  <2>4. sched' \in [Timers -> SchedRec] BY <1>7 DEF DestroyStop, TypeOK, SchedRec, NoSched
  <2>5. UNCHANGED <<value, interval, timerVec, ticker, armed, pos, quit, now, visits>>
    BY <1>7 DEF DestroyStop, TickerVars
  <2>6. QED BY <2>1, <2>2, <2>3, <2>4, <2>5 DEF TypeOK, TickBound
<1>8. ASSUME NEW t \in Timers, RemoveTimer(t) PROVE TypeOK' /\ TickBound'
  <2>1. life' \in [Timers -> {"none", "live", "dying", "gone"}] BY <1>8 DEF RemoveTimer, TypeOK
  <2>2. timerVec' \in Seq(Timers) BY <1>8, EraseFirstType DEF RemoveTimer, TypeOK
  <2>3. UNCHANGED <<running, value, interval, ticker, armed, pos, quit, now, visits, clean, sched>>
    BY <1>8 DEF RemoveTimer, TickerVars
  <2>4. QED BY <2>1, <2>2, <2>3 DEF TypeOK, TickBound
<1>9. CASE PopQuit \/ PopNone \/ WaitAgain \/ WaitFail \/ QuitArrives
  <2>1. UNCHANGED <<life, running, value, interval, timerVec, armed, pos, now, visits, clean, sched>>
    BY <1>9 DEF PopQuit, PopNone, WaitAgain, WaitFail, QuitArrives
  <2>2. ticker' \in {"pop", "wait", "exited"} \/ UNCHANGED ticker
    BY <1>9 DEF PopQuit, PopNone, WaitAgain, WaitFail, QuitArrives
  <2>3. quit' \in BOOLEAN BY <1>9 DEF PopQuit, PopNone, WaitAgain, WaitFail, QuitArrives, TypeOK
  <2>4. QED BY <2>1, <2>2, <2>3 DEF TypeOK, TickBound
<1>15. CASE ArmTick
  <2>1. ticker' = "pop" /\ armed' \in BOOLEAN BY <1>15 DEF ArmTick
  <2>2. UNCHANGED <<life, running, value, interval, timerVec, pos, quit, now, visits, clean, sched>>
    BY <1>15 DEF ArmTick
  <2>3. QED BY <2>1, <2>2 DEF TypeOK, TickBound
<1>10. CASE TickBegin
  <2>1. now < MaxTicks BY <1>10 DEF TickBegin
  <2>2. QED BY <1>10, <2>1 DEF TickBegin, TypeOK, TickBound
<1>11. CASE TickEnd
  <2>1. now' \in 0..MaxTicks BY <1>11, MaxTicksAssumption DEF TickEnd, TypeOK, TickBound
  <2>2. visits' \in [Timers -> Nat] BY <1>11 DEF TickEnd
  <2>3. ticker' = "pop" /\ pos' = 1 BY <1>11 DEF TickEnd
  <2>4. UNCHANGED <<life, running, value, interval, timerVec, armed, quit, clean, sched>>
    BY <1>11 DEF TickEnd
  <2>5. QED BY <2>1, <2>2, <2>3, <2>4 DEF TypeOK, TickBound
<1>12. CASE TickStep
  <2> DEFINE cur == timerVec[pos]
  <2>1. cur \in Timers
    <3>1. pos \in 1..Len(timerVec) BY <1>12 DEF TickStep, TypeOK
    <3>2. QED BY <3>1, ElementOfSeq DEF TypeOK
  <2>2. Reload(cur) \in -1..MaxValue
    <3>0. value[cur] \in -1..MaxValue /\ interval[cur] \in 0..MaxValue BY <2>1 DEF TypeOK, Values
    <3>1. CASE Fires(cur) BY <3>0, <3>1 DEF Reload
    <3>2. CASE ~Fires(cur) BY <3>0, <3>2, MaxValueAssumption DEF Reload, Fires
    <3>3. QED BY <3>1, <3>2
  <2>3. value' \in [Timers -> -1..MaxValue] BY <1>12, <2>1, <2>2 DEF TickStep, TypeOK
  <2>4. running' \in [Timers -> BOOLEAN] BY <1>12, <2>1 DEF TickStep, Rearm, TypeOK
  <2>5. sched' \in [Timers -> SchedRec]
    <3>0. sched[cur] \in SchedRec BY <2>1 DEF TypeOK
    <3>1. \A f \in BOOLEAN : Counted(sched[cur], f) \in SchedRec
      <4> TAKE f \in BOOLEAN
      <4>1. sched[cur].v \in Int /\ sched[cur].i \in Int BY <3>0 DEF SchedRec
      <4>2. sched[cur].dec + 1 \in Nat BY <3>0 DEF SchedRec
      <4>3. (IF f THEN sched[cur].fires + 1 ELSE sched[cur].fires) \in Nat BY <3>0 DEF SchedRec
      <4>4. QED BY <4>1, <4>2, <4>3 DEF Counted, SchedRec
    <3>2. Fires(cur) \in BOOLEAN BY DEF Fires
    <3>3. QED BY <1>12, <2>1, <3>1, <3>2 DEF TickStep, TypeOK
  <2>6. visits' \in [Timers -> Nat] /\ pos' \in Nat \ {0}
    <3>1. visits' = [visits EXCEPT ![cur] = visits[cur] + 1] /\ pos' = pos + 1
      BY <1>12 DEF TickStep
    <3>2. QED BY <2>1, <3>1 DEF TypeOK
  <2>7. UNCHANGED <<life, interval, timerVec, ticker, armed, quit, now, clean>> BY <1>12 DEF TickStep
  <2>8. QED BY <2>3, <2>4, <2>5, <2>6, <2>7 DEF TypeOK, TickBound
<1>13. CASE UNCHANGED vars
  BY <1>13 DEF vars, TypeOK, TickBound
<1>14. QED
  BY <1>1, <1>2, <1>3, <1>4, <1>5, <1>6, <1>7, <1>8, <1>9, <1>10, <1>11, <1>12, <1>13, <1>15
     DEF Next, Ticker, Owner

(* Type correctness of the timer service: in every reachable state the     *)
(* timers, timer_vector, the timer thread's pc and the ghosts have their   *)
(* types, and a time_t value never drops below -1 (csTimer, Tick()).       *)
THEOREM TypeCorrect == Spec => []TypeOK
<1>1. TypeInv => TypeOK BY DEF TypeInv
<1>2. QED BY InitTypeInv, NextTypeInv, <1>1, PTL DEF Spec

-----------------------------------------------------------------------------
(* The schedule of a timer left alone since Start().  Before its first     *)
(* firing a timer started with value v has value v - dec after dec ticks;  *)
(* from then on value lies in 1..i, and the decrements since the first     *)
(* firing plus the remaining value are exactly fires whole intervals.      *)
OnSchedule(s, val) ==
    IF s.dec < FirstDue(s.v)
    THEN val = s.v - s.dec /\ s.fires = 0
    ELSE /\ val \in 1..s.i
         /\ s.dec - FirstDue(s.v) + val = s.fires * s.i
(* Euclidean division has one quotient: the \\div of Tick's schedule.      *)
LEMMA DivUnique ==
    ASSUME NEW n \in Int, NEW q \in Int, NEW i \in Nat \ {0}, NEW r \in 0..i - 1,
           n = q * i + r
    PROVE  n \div i = q
BY SMT
(* On schedule, the TIMER events dispatched are those the spec expects.    *)
LEMMA OnScheduleExpected ==
    ASSUME NEW s \in SchedRec, s.i \in Nat \ {0}, NEW val \in Int, OnSchedule(s, val)
    PROVE  s.fires = ExpectedFires(s)
<1>1. CASE s.dec < FirstDue(s.v) BY <1>1 DEF OnSchedule, ExpectedFires
<1>2. CASE s.dec >= FirstDue(s.v)
  <2> DEFINE n == s.dec - FirstDue(s.v)
  <2>1. n \in Nat /\ val \in 1..s.i /\ n + val = s.fires * s.i
    BY <1>2 DEF OnSchedule, FirstDue, SchedRec
  <2>2. s.fires \in Nat \ {0} BY <2>1 DEF SchedRec
  <2>3. n = (s.fires - 1) * s.i + (s.i - val)
    <3>1. (s.fires - 1) * s.i = s.fires * s.i - s.i BY <2>2
    <3>2. QED BY <2>1, <3>1
  <2>4. n \div s.i = s.fires - 1 BY <2>1, <2>2, <2>3, DivUnique
  <2>5. QED BY <1>2, <2>2, <2>4 DEF ExpectedFires, FirstDue, SchedRec
<1>3. QED BY <1>1, <1>2 DEF SchedRec, FirstDue
(* One decrement of Tick() ("--value <= 0", dispatch, reload from         *)
(* interval) keeps a timer on schedule.                                    *)
LEMMA OnScheduleStep ==
    ASSUME NEW s \in SchedRec, s.i \in Nat \ {0}, NEW val \in Int, OnSchedule(s, val)
    PROVE  OnSchedule(Counted(s, val - 1 <= 0), IF val - 1 <= 0 THEN s.i ELSE val - 1)
<1> DEFINE fd == FirstDue(s.v)
<1>1. fd \in Nat \ {0} /\ s.v \in Int /\ s.dec \in Nat /\ s.fires \in Nat
  BY DEF FirstDue, SchedRec
<1>2. /\ Counted(s, val - 1 <= 0).v = s.v
      /\ Counted(s, val - 1 <= 0).i = s.i
      /\ Counted(s, val - 1 <= 0).dec = s.dec + 1
      /\ Counted(s, val - 1 <= 0).fires = IF val - 1 <= 0 THEN s.fires + 1 ELSE s.fires
  BY DEF Counted
<1>3. CASE s.dec + 1 < fd
  <2>1. val = s.v - s.dec /\ s.fires = 0 BY <1>1, <1>3 DEF OnSchedule
  <2>2. s.v >= 1 /\ fd = s.v BY <1>1, <1>3 DEF FirstDue
  <2>3. ~(val - 1 <= 0) BY <1>1, <1>3, <2>1, <2>2
  <2>4. QED BY <1>1, <1>2, <1>3, <2>1, <2>3 DEF OnSchedule
<1>4. CASE s.dec + 1 = fd
  <2>1. val = s.v - s.dec /\ s.fires = 0 BY <1>1, <1>4 DEF OnSchedule
  <2>2. val - 1 <= 0 BY <1>1, <1>4, <2>1 DEF FirstDue
  <2>3. QED BY <1>1, <1>2, <1>4, <2>1, <2>2 DEF OnSchedule
<1>5. CASE s.dec >= fd
  <2>1. val \in 1..s.i /\ s.dec - fd + val = s.fires * s.i BY <1>1, <1>5 DEF OnSchedule
  <2>2. CASE val = 1
    <3>0. (s.fires + 1) * s.i = s.fires * s.i + s.i BY <1>1
    <3>1. s.dec + 1 - fd + s.i = (s.fires + 1) * s.i BY <1>1, <2>1, <2>2, <3>0
    <3>2. QED BY <1>1, <1>2, <1>5, <2>2, <3>1 DEF OnSchedule
  <2>3. CASE val # 1
    BY <1>1, <1>2, <1>5, <2>1, <2>3 DEF OnSchedule
  <2>4. QED BY <2>2, <2>3
<1>6. QED BY <1>1, <1>3, <1>4, <1>5

(* Start() puts a timer on schedule.                                       *)
LEMMA OnScheduleStart ==
    ASSUME NEW v \in Int, NEW i
    PROVE  OnSchedule([v |-> v, i |-> i, dec |-> 0, fires |-> 0], v)
BY DEF OnSchedule, FirstDue

(* What csTimer guarantees of a timer left alone since Start(): it is live *)
(* and running (Tick() never clears running), its interval is the one it   *)
(* started with, and a periodic one is on schedule.                        *)
SchedOK(t) ==
    clean[t] => /\ life[t] = "live"
                /\ running[t]
                /\ interval[t] = sched[t].i
                /\ sched[t].i > 0 => OnSchedule(sched[t], value[t])

SchedInv == \A t \in Timers : SchedOK(t)

LEMMA InitSchedInv == Init => SchedInv
BY DEF Init, SchedInv, SchedOK

(* A step that touches only timer t and leaves it dirty keeps every other  *)
(* timer's schedule.                                                       *)
LEMMA DirtyStep ==
    ASSUME SchedInv, NEW t \in Timers, NEW u \in Timers,
           clean' = [clean EXCEPT ![t] = FALSE] \/ (UNCHANGED clean /\ ~clean[t]),
           u # t => /\ life'[u] = life[u] /\ running'[u] = running[u]
                    /\ interval'[u] = interval[u] /\ value'[u] = value[u]
                    /\ sched'[u] = sched[u],
           clean \in [Timers -> BOOLEAN]
    PROVE  SchedOK(u)'
<1>1. CASE u = t BY <1>1 DEF SchedOK
<1>2. CASE u # t BY <1>2 DEF SchedInv, SchedOK
<1>3. QED BY <1>1, <1>2

LEMMA NextSchedInv == TypeOK /\ SchedInv /\ [Next]_vars => SchedInv'
<1> SUFFICES ASSUME TypeOK, SchedInv, [Next]_vars, NEW u \in Timers
             PROVE  SchedOK(u)'
  BY DEF SchedInv
<1>1. ASSUME NEW t \in Timers, NEW n \in Values, NEW m \in Values, Create(t, n, m)
      PROVE SchedOK(u)'
  <2>1. ~clean[t] BY <1>1 DEF Create, SchedInv, SchedOK
  <2>2. QED BY <1>1, <2>1, DirtyStep DEF Create, TypeOK
<1>2. ASSUME NEW t \in Timers, Start(t) PROVE SchedOK(u)'
  <2>1. CASE u # t BY <1>2, <2>1 DEF Start, SchedInv, SchedOK
  <2>2. CASE u = t /\ running[t] /\ clean[t]
    BY <1>2, <2>2 DEF Start, SchedInv, SchedOK, TypeOK
  <2>3. CASE u = t /\ ~(running[t] /\ clean[t])
    <3> DEFINE fresh == [v |-> value[t], i |-> interval[t], dec |-> 0, fires |-> 0]
    <3>1. sched'[t] = fresh BY <1>2, <2>3 DEF Start, TypeOK
    <3>2. OnSchedule(fresh, value[t]) BY OnScheduleStart DEF TypeOK
    <3>3. QED BY <1>2, <2>3, <3>1, <3>2 DEF Start, SchedOK, TypeOK
  <2>4. QED BY <2>1, <2>2, <2>3
<1>3. ASSUME NEW t \in Timers, Stop(t) PROVE SchedOK(u)'
  BY <1>3, DirtyStep DEF Stop, TypeOK
<1>4. ASSUME NEW t \in Timers, NEW n \in Values, SetValue(t, n) PROVE SchedOK(u)'
  BY <1>4, DirtyStep DEF SetValue, TypeOK
<1>5. ASSUME NEW t \in Timers, NEW n \in Values, SetInterval(t, n) PROVE SchedOK(u)'
  BY <1>5, DirtyStep DEF SetInterval, TypeOK
<1>6. ASSUME NEW t \in Timers, NEW n \in Values, Extend(t, n) PROVE SchedOK(u)'
  BY <1>6, DirtyStep DEF Extend, TypeOK
<1>7. ASSUME NEW t \in Timers, DestroyStop(t) PROVE SchedOK(u)'
  BY <1>7, DirtyStep DEF DestroyStop, TypeOK
<1>8. ASSUME NEW t \in Timers, RemoveTimer(t) PROVE SchedOK(u)'
  <2>1. ~clean[t] BY <1>8 DEF RemoveTimer, SchedInv, SchedOK
  <2>2. QED BY <1>8, <2>1, DirtyStep DEF RemoveTimer, TypeOK
<1>9. CASE ArmTick \/ PopQuit \/ PopNone \/ TickBegin \/ WaitAgain \/ WaitFail
           \/ TickEnd \/ QuitArrives
  <2>1. UNCHANGED <<life, running, value, interval, clean, sched>>
    BY <1>9 DEF ArmTick, PopQuit, PopNone, TickBegin, WaitAgain, WaitFail, TickEnd,
                QuitArrives
  <2>2. QED BY <2>1 DEF SchedInv, SchedOK
<1>10. CASE TickStep
  <2> DEFINE cur == timerVec[pos]
  <2>1. cur \in Timers
    <3>1. pos \in 1..Len(timerVec) BY <1>10 DEF TickStep, TypeOK
    <3>2. QED BY <3>1, ElementOfSeq DEF TypeOK
  <2>2. UNCHANGED <<life, interval, clean>> BY <1>10 DEF TickStep
  <2>3. CASE ~running[cur]
    <3>1. UNCHANGED <<value, running, sched>> BY <1>10, <2>3 DEF TickStep
    <3>2. QED BY <2>2, <3>1 DEF SchedInv, SchedOK
  <2>4. CASE running[cur] /\ u # cur
    <3>1. value'[u] = value[u] /\ running'[u] = running[u] /\ sched'[u] = sched[u]
      BY <1>10, <2>1, <2>4 DEF TickStep, TypeOK
    <3>2. QED BY <2>2, <3>1 DEF SchedInv, SchedOK
  <2>5. CASE running[cur] /\ u = cur /\ ~clean[cur]
    BY <2>2, <2>5 DEF SchedOK
  <2>6. CASE running[cur] /\ u = cur /\ clean[cur]
    <3>1. value'[cur] = Reload(cur) /\ running'[cur] = Rearm(cur)
          /\ sched'[cur] = Counted(sched[cur], Fires(cur))
      BY <1>10, <2>1, <2>6 DEF TickStep, TypeOK
    <3>2. running'[cur] BY <2>6, <3>1 DEF Rearm
    <3>3. interval[cur] = sched[cur].i /\ life[cur] = "live"
      BY <2>1, <2>6 DEF SchedInv, SchedOK
    <3>4. Counted(sched[cur], Fires(cur)).i = sched[cur].i BY DEF Counted
    <3>5. ASSUME sched[cur].i > 0 PROVE OnSchedule(sched'[cur], value'[cur])
      <4>1. OnSchedule(sched[cur], value[cur]) BY <2>1, <2>6, <3>5 DEF SchedInv, SchedOK
      <4>2. value[cur] \in Int /\ sched[cur] \in SchedRec /\ sched[cur].i \in Nat \ {0}
        <5>1. value[cur] \in Int /\ sched[cur] \in SchedRec BY <2>1 DEF TypeOK
        <5>2. sched[cur].i \in Int BY <5>1 DEF SchedRec
        <5>3. QED BY <5>1, <5>2, <3>5
      <4>3. Reload(cur) = IF value[cur] - 1 <= 0 THEN sched[cur].i ELSE value[cur] - 1
        BY <3>3 DEF Reload, Fires
      <4>4. QED BY <3>1, <4>1, <4>2, <4>3, OnScheduleStep DEF Fires
    <3>6. QED BY <2>2, <2>6, <3>1, <3>2, <3>3, <3>4, <3>5 DEF SchedOK
  <2>7. QED BY <2>3, <2>4, <2>5, <2>6
<1>11. CASE UNCHANGED vars
  BY <1>11 DEF vars, SchedInv, SchedOK
<1>12. QED
  BY <1>1, <1>2, <1>3, <1>4, <1>5, <1>6, <1>7, <1>8, <1>9, <1>10, <1>11
     DEF Next, Ticker, Owner

(* Periodic timers keep their schedule for every number of timers, every   *)
(* bound on the arguments and every number of ticks: csThreadTimer::Tick's *)
(* "--value <= 0" test and reload from interval dispatch the TIMER events  *)
(* of a timer left alone since Start() exactly at decrement v and then     *)
(* every i decrements.                                                     *)
THEOREM ScheduleCorrect == Spec => []ScheduleKept
<1>1. TypeInv /\ SchedInv => ScheduleKept
  <2> SUFFICES ASSUME TypeInv, SchedInv, NEW t \in Timers, clean[t], sched[t].i > 0
               PROVE  sched[t].fires = ExpectedFires(sched[t])
    BY DEF ScheduleKept
  <2>1. OnSchedule(sched[t], value[t]) BY DEF SchedInv, SchedOK
  <2>2. sched[t] \in SchedRec /\ value[t] \in Int /\ sched[t].i \in Nat \ {0}
    BY DEF TypeInv, TypeOK, SchedRec
  <2>3. QED BY <2>1, <2>2, OnScheduleExpected
<1>2. TypeInv /\ SchedInv /\ [Next]_vars => TypeInv' /\ SchedInv'
  BY NextTypeInv, NextSchedInv DEF TypeInv
<1>3. QED BY InitTypeInv, InitSchedInv, <1>1, <1>2, PTL DEF Spec

-----------------------------------------------------------------------------
(* timer_vector holds each timer at most once, and only between its        *)
(* constructor's AddTimer and its destructor's RemoveTimer.                *)
VecHeld ==
    /\ \A k \in 1..Len(timerVec) : life[timerVec[k]] \in {"live", "dying"}
    /\ \A i, j \in 1..Len(timerVec) : timerVec[i] = timerVec[j] => i = j

(* While Tick() holds vector_mutex its loop has visited exactly the        *)
(* elements before its iterator; otherwise no visit is counted.            *)
Visited ==
    IF ticker = "tick"
    THEN /\ pos \in 1..Len(timerVec) + 1
         /\ \A k \in 1..Len(timerVec) : visits[timerVec[k]] = IF k < pos THEN 1 ELSE 0
    ELSE pos = 1 /\ \A t \in Timers : visits[t] = 0

VisitInv == VecHeld /\ Visited

(* vector::erase of the k-th element shifts the later ones down by one.    *)
LEMMA EraseProps ==
    ASSUME NEW S, NEW s \in Seq(S), NEW k \in 1..Len(s)
    PROVE  /\ Erase(s, k) \in Seq(S)
           /\ Len(Erase(s, k)) = Len(s) - 1
           /\ \A i \in 1..Len(s) - 1 : Erase(s, k)[i] = IF i < k THEN s[i] ELSE s[i + 1]
<1> DEFINE a == SubSeq(s, 1, k - 1)
           b == SubSeq(s, k + 1, Len(s))
<1>1. /\ a \in Seq(S) /\ Len(a) = k - 1 /\ \A i \in 1..k - 1 : a[i] = s[i]
  BY SubSeqProperties
<1>2. /\ b \in Seq(S) /\ Len(b) = Len(s) - k
      /\ \A i \in 1..Len(s) - k : b[i] = s[k + i]
  BY SubSeqProperties
<1> HIDE DEF a, b
<1>3. /\ a \o b \in Seq(S)
      /\ Len(a \o b) = Len(a) + Len(b)
      /\ \A i \in 1..Len(a) + Len(b) :
            (a \o b)[i] = IF i <= Len(a) THEN a[i] ELSE b[i - Len(a)]
  BY <1>1, <1>2, ConcatProperties
<1>4. ASSUME NEW i \in 1..Len(s) - 1
      PROVE  (a \o b)[i] = IF i < k THEN s[i] ELSE s[i + 1]
  <2>1. CASE i < k BY <1>1, <1>2, <1>3, <2>1
  <2>2. CASE ~(i < k)
    <3>1. i - Len(a) \in 1..Len(s) - k /\ k + (i - Len(a)) = i + 1 BY <1>1, <2>2
    <3>2. i \in 1..Len(a) + Len(b) /\ ~(i <= Len(a)) BY <1>1, <1>2, <2>2
    <3>3. QED BY <1>2, <1>3, <3>1, <3>2
  <2>3. QED BY <2>1, <2>2
<1>5. Erase(s, k) = a \o b BY DEF Erase, a, b
<1>6. Len(a \o b) = Len(s) - 1 BY <1>1, <1>2, <1>3
<1>7. QED BY <1>3, <1>4, <1>5, <1>6

(* RemoveTimer on a vector that holds t once erases exactly t.             *)
LEMMA EraseFirstHeld ==
    ASSUME NEW S, NEW s \in Seq(S), NEW t,
           \A i, j \in 1..Len(s) : s[i] = s[j] => i = j
    PROVE  /\ EraseFirst(s, t) \in Seq(S)
           /\ \A i, j \in 1..Len(EraseFirst(s, t)) :
                 EraseFirst(s, t)[i] = EraseFirst(s, t)[j] => i = j
           /\ \A i \in 1..Len(EraseFirst(s, t)) :
                 EraseFirst(s, t)[i] # t
                 /\ \E j \in 1..Len(s) : EraseFirst(s, t)[i] = s[j]
<1>1. CASE \E k \in 1..Len(s) : IsFirst(s, t, k)
  <2>1. PICK k \in 1..Len(s) : k = CHOOSE m \in 1..Len(s) : IsFirst(s, t, m) BY <1>1
  <2>2. IsFirst(s, t, k) /\ EraseFirst(s, t) = Erase(s, k) BY <1>1, <2>1 DEF EraseFirst
  <2>3. s[k] = t BY <2>2 DEF IsFirst
  <2>4. /\ Erase(s, k) \in Seq(S)
        /\ Len(Erase(s, k)) = Len(s) - 1
        /\ \A i \in 1..Len(s) - 1 : Erase(s, k)[i] = IF i < k THEN s[i] ELSE s[i + 1]
    BY EraseProps
  <2> DEFINE at(i) == IF i < k THEN i ELSE i + 1
  <2>5. \A i \in 1..Len(s) - 1 : at(i) \in 1..Len(s) /\ at(i) # k /\ Erase(s, k)[i] = s[at(i)]
    BY <2>4
  <2>6. \A i, j \in 1..Len(s) - 1 : at(i) = at(j) => i = j OBVIOUS
  <2> DEFINE e == Erase(s, k)
  <2>7. \A i, j \in 1..Len(e) : e[i] = e[j] => i = j
    <3> TAKE i, j \in 1..Len(e)
    <3>1. i \in 1..Len(s) - 1 /\ j \in 1..Len(s) - 1 BY <2>4
    <3>2. e[i] = s[at(i)] /\ e[j] = s[at(j)] /\ at(i) \in 1..Len(s) /\ at(j) \in 1..Len(s)
      BY <2>5, <3>1
    <3> HIDE DEF at
    <3>3. QED BY <2>6, <3>1, <3>2
  <2>8. \A i \in 1..Len(e) : e[i] # t /\ \E j \in 1..Len(s) : e[i] = s[j]
    <3> TAKE i \in 1..Len(e)
    <3>1. i \in 1..Len(s) - 1 BY <2>4
    <3>2. e[i] = s[at(i)] /\ at(i) \in 1..Len(s) /\ at(i) # k BY <2>5, <3>1
    <3> HIDE DEF at
    <3>3. QED BY <2>3, <3>2
  <2>9. QED BY <2>2, <2>4, <2>7, <2>8
<1>2. CASE ~\E k \in 1..Len(s) : IsFirst(s, t, k)
  <2>1. EraseFirst(s, t) = s BY <1>2 DEF EraseFirst
  <2>2. \A i \in 1..Len(s) : s[i] # t BY <1>2 DEF IsFirst
  <2>3. QED BY <2>1, <2>2
<1>3. QED BY <1>1, <1>2

LEMMA InitVisitInv == Init => VisitInv
BY EmptySeq DEF Init, VisitInv, VecHeld, Visited

LEMMA NextVisitInv == TypeOK /\ VisitInv /\ [Next]_vars => VisitInv'
<1> SUFFICES ASSUME TypeOK, VisitInv, [Next]_vars PROVE VisitInv'
  OBVIOUS
<1>0. timerVec \in Seq(Timers) BY DEF TypeOK
<1>1. ASSUME NEW t \in Timers, NEW n \in Values, NEW m \in Values, Create(t, n, m)
      PROVE VisitInv'
  <2>1. \A k \in 1..Len(timerVec) : timerVec[k] # t BY <1>1 DEF Create, VisitInv, VecHeld
  <2>2. /\ Len(timerVec') = Len(timerVec) + 1
        /\ \A k \in 1..Len(timerVec) : timerVec'[k] = timerVec[k]
        /\ timerVec'[Len(timerVec) + 1] = t
    BY <1>0, <1>1, AppendProperties DEF Create, AddTimer
  <2>3. \A k \in 1..Len(timerVec') : life'[timerVec'[k]] \in {"live", "dying"}
    <3> TAKE k \in 1..Len(timerVec')
    <3>1. life' = [life EXCEPT ![t] = "live"] BY <1>1 DEF Create
    <3>2. CASE k \in 1..Len(timerVec)
      <4>1. timerVec'[k] = timerVec[k] /\ timerVec[k] \in Timers /\ timerVec[k] # t
        BY <1>0, <2>1, <2>2, <3>2, ElementOfSeq
      <4>2. QED BY <3>1, <3>2, <4>1 DEF TypeOK, VisitInv, VecHeld
    <3>3. CASE k = Len(timerVec) + 1 BY <2>2, <3>1, <3>3 DEF TypeOK
    <3>4. QED BY <2>2, <3>2, <3>3
  <2>4. \A i, j \in 1..Len(timerVec') : timerVec'[i] = timerVec'[j] => i = j
    BY <2>1, <2>2 DEF VisitInv, VecHeld
  <2>5. Visited' BY <1>1 DEF Create, AddTimer, VectorFree, TickerVars, VisitInv, Visited
  <2>6. QED BY <2>3, <2>4, <2>5 DEF VisitInv, VecHeld
<1>2. ASSUME NEW t \in Timers,
             \/ Start(t) \/ Stop(t)
             \/ \E v \in Values : SetValue(t, v) \/ SetInterval(t, v) \/ Extend(t, v)
      PROVE VisitInv'
  <2>1. UNCHANGED <<life, timerVec, ticker, pos, visits>>
    BY <1>2 DEF Start, Stop, SetValue, SetInterval, Extend, TickerVars
  <2>2. QED BY <2>1 DEF VisitInv, VecHeld, Visited
<1>3. ASSUME NEW t \in Timers, DestroyStop(t) PROVE VisitInv'
  <2>1. UNCHANGED <<timerVec, ticker, pos, visits>> BY <1>3 DEF DestroyStop, TickerVars
  <2>2. life' = [life EXCEPT ![t] = "dying"] BY <1>3 DEF DestroyStop
  <2>3. QED BY <1>0, <2>1, <2>2, ElementOfSeq DEF TypeOK, VisitInv, VecHeld, Visited
<1>4. ASSUME NEW t \in Timers, RemoveTimer(t) PROVE VisitInv'
  <2>1. /\ timerVec' \in Seq(Timers)
        /\ \A i, j \in 1..Len(timerVec') : timerVec'[i] = timerVec'[j] => i = j
        /\ \A i \in 1..Len(timerVec') :
              timerVec'[i] # t /\ \E j \in 1..Len(timerVec) : timerVec'[i] = timerVec[j]
    BY <1>0, <1>4, EraseFirstHeld DEF RemoveTimer, VisitInv, VecHeld
  <2>2. life' = [life EXCEPT ![t] = "gone"] BY <1>4 DEF RemoveTimer
  <2>3. \A i \in 1..Len(timerVec') : life'[timerVec'[i]] \in {"live", "dying"}
    <3> TAKE i \in 1..Len(timerVec')
    <3>1. PICK j \in 1..Len(timerVec) : timerVec'[i] = timerVec[j] BY <2>1
    <3>2. timerVec[j] \in Timers /\ timerVec[j] # t BY <1>0, <2>1, <3>1, ElementOfSeq
    <3>3. QED BY <2>2, <3>1, <3>2 DEF TypeOK, VisitInv, VecHeld
  <2>4. ticker # "tick" /\ UNCHANGED <<ticker, pos, visits>>
    BY <1>4 DEF RemoveTimer, VectorFree, TickerVars
  <2>5. QED BY <2>1, <2>3, <2>4 DEF VisitInv, VecHeld, Visited
<1>5. CASE ArmTick \/ PopQuit \/ PopNone \/ WaitAgain \/ WaitFail
  <2>1. ticker # "tick" /\ ticker' # "tick" /\ UNCHANGED <<life, timerVec, pos, visits>>
    BY <1>5 DEF ArmTick, PopQuit, PopNone, WaitAgain, WaitFail
  <2>2. QED BY <2>1 DEF VisitInv, VecHeld, Visited
<1>6. CASE QuitArrives
  <2>1. UNCHANGED <<life, timerVec, ticker, pos, visits>> BY <1>6 DEF QuitArrives
  <2>2. QED BY <2>1 DEF VisitInv, VecHeld, Visited
<1>7. CASE TickBegin
  <2>1. ticker # "tick" /\ ticker' = "tick" /\ UNCHANGED <<life, timerVec, pos, visits>>
    BY <1>7 DEF TickBegin
  <2>2. pos = 1 /\ \A t \in Timers : visits[t] = 0 BY <2>1 DEF VisitInv, Visited
  <2>3. QED BY <1>0, <2>1, <2>2, ElementOfSeq DEF VisitInv, VecHeld, Visited
<1>8. CASE TickEnd
  <2>1. ticker' = "pop" /\ pos' = 1 /\ visits' = [t \in Timers |-> 0]
        /\ UNCHANGED <<life, timerVec>>
    BY <1>8 DEF TickEnd
  <2>2. QED BY <2>1 DEF VisitInv, VecHeld, Visited
<1>9. CASE TickStep
  <2> DEFINE cur == timerVec[pos]
  <2>1. ticker = "tick" /\ pos \in 1..Len(timerVec) BY <1>9 DEF TickStep, TypeOK
  <2>2. cur \in Timers BY <1>0, <2>1, ElementOfSeq
  <2>3. /\ visits' = [visits EXCEPT ![cur] = @ + 1] /\ pos' = pos + 1
        /\ UNCHANGED <<life, timerVec, ticker>>
    BY <1>9 DEF TickStep
  <2>4. visits[cur] = 0 BY <2>1 DEF VisitInv, Visited
  <2>5. \A k \in 1..Len(timerVec) : k # pos => timerVec[k] # cur
    BY <2>1 DEF VisitInv, VecHeld
  <2>6. \A k \in 1..Len(timerVec) :
           visits'[timerVec[k]] = IF k < pos + 1 THEN 1 ELSE 0
    <3> TAKE k \in 1..Len(timerVec)
    <3>1. timerVec[k] \in Timers BY <1>0, ElementOfSeq
    <3>2. CASE k = pos BY <2>2, <2>3, <2>4, <3>2 DEF TypeOK
    <3>3. CASE k # pos
      <4>1. visits'[timerVec[k]] = visits[timerVec[k]] BY <2>3, <2>5, <3>1, <3>3 DEF TypeOK
      <4>2. QED BY <2>1, <3>3, <4>1 DEF VisitInv, Visited
    <3>4. QED BY <3>2, <3>3
  <2>7. QED BY <2>1, <2>3, <2>6 DEF VisitInv, VecHeld, Visited
<1>10. CASE UNCHANGED vars
  BY <1>10 DEF vars, VisitInv, VecHeld, Visited
<1>11. QED
  BY <1>1, <1>2, <1>3, <1>4, <1>5, <1>6, <1>7, <1>8, <1>9, <1>10 DEF Next, Ticker, Owner

(* Only the end of the loop of Tick() takes the timer thread from the      *)
(* locked tick back to EventPop().                                         *)
LEMMA TickReleases ==
    ASSUME [Next]_vars, ticker = "tick", ticker' = "pop"
    PROVE  TickEnd
BY DEF Next, Ticker, Owner, vars, ArmTick, PopQuit, PopNone, TickBegin, WaitAgain, WaitFail,
       TickStep, QuitArrives, Create, AddTimer, VectorFree, Start, Stop, SetValue,
       SetInterval, Extend, DestroyStop, RemoveTimer, TickerVars

(* Every tick processes every registered timer exactly once, for every     *)
(* number of timers and ticks: when Tick() releases vector_mutex each      *)
(* timer in timer_vector was visited once by its loop, whatever            *)
(* constructors and destructors were waiting on the lock.                  *)
THEOREM TickVisitsAllCorrect == Spec => TickVisitsAll
<1>1. TypeInv /\ VisitInv /\ [Next]_vars
        => [ticker = "tick" /\ ticker' = "pop" =>
              \A k \in 1..Len(timerVec) : visits[timerVec[k]] = 1]_vars
  <2> SUFFICES ASSUME TypeInv, VisitInv, [Next]_vars, ticker = "tick", ticker' = "pop"
               PROVE  \A k \in 1..Len(timerVec) : visits[timerVec[k]] = 1
    OBVIOUS
  <2>1. pos > Len(timerVec) BY TickReleases DEF TickEnd
  <2>2. QED BY <2>1 DEF VisitInv, Visited
<1>2. Spec => [](TypeInv /\ VisitInv)
  <2>1. TypeInv /\ VisitInv /\ [Next]_vars => TypeInv' /\ VisitInv'
    BY NextTypeInv, NextVisitInv DEF TypeInv
  <2>2. QED BY InitTypeInv, InitVisitInv, <2>1, PTL DEF Spec
<1>3. QED BY <1>1, <1>2, PTL DEF Spec, TickVisitsAll

=============================================================================

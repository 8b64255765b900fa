------------------------------- MODULE CsTimer -------------------------------
(***************************************************************************)
(* The timer service of src/cstimer.cpp: the csTimer objects (value,       *)
(* interval, running flag, each behind its own timer_mutex), the shared    *)
(* timer_vector behind vector_mutex, and the csThreadTimer thread whose    *)
(* Entry loop pops its inbox, waits for the SIGRTMIN tick and runs Tick(). *)
(*                                                                         *)
(* Every csTimer method holds timer_mutex for one assignment, so each is   *)
(* one atomic action.  Tick() holds vector_mutex for the whole loop and    *)
(* timer_mutex for one element at a time, so it is split into TickBegin,   *)
(* one TickStep per element, and TickEnd; the vector lock is held exactly  *)
(* while ticker = "tick".  The TIMER event a firing dispatches is counted  *)
(* in the ghost sched[t].fires; the event's target is abstracted away.     *)
(***************************************************************************)
EXTENDS Integers, Sequences

CONSTANTS
    Timers,     \* the csTimer objects that may be constructed
    MaxValue,   \* bound on the time_t arguments of the csTimer methods
    MaxTicks    \* bound on the number of SIGRTMIN ticks

ASSUME TimersAssumption == Timers # {}
ASSUME MaxValueAssumption == MaxValue \in Nat \ {0}
ASSUME MaxTicksAssumption == MaxTicks \in Nat

VARIABLES
    life,       \* "none" before the constructor, "live", "dying" inside ~csTimer, "gone"
    running,    \* csTimer::running
    value,      \* csTimer::value (seconds remaining, time_t)
    interval,   \* csTimer::interval
    timerVec,   \* csThreadTimer::timer_vector
    ticker,     \* pc of csThreadTimer::Entry: "start", "pop", "wait", "tick", "exited"
    armed,      \* timer_settime armed the one-second SIGRTMIN timer
    pos,        \* index of the iterator of Tick() into timer_vector
    quit,       \* a QUIT event is queued in the timer thread's inbox
    now,        \* number of completed ticks
    visits,     \* ghost: how often the current Tick() processed each timer
    clean,      \* ghost: no Stop/SetValue/SetInterval/Extend since the last Start
    sched       \* ghost: value and interval at that Start, decrements and fires since

vars == <<life, running, value, interval, timerVec, ticker, armed, pos, quit,
          now, visits, clean, sched>>

Values == 0..MaxValue

SchedRec == [v : Int, i : Int, dec : Nat, fires : Nat]

NoSched == [v |-> 0, i |-> 0, dec |-> 0, fires |-> 0]

TypeOK ==
    /\ life \in [Timers -> {"none", "live", "dying", "gone"}]
    /\ running \in [Timers -> BOOLEAN]
    /\ value \in [Timers -> -1..MaxValue]
    /\ interval \in [Timers -> Values]
    /\ timerVec \in Seq(Timers)
    /\ ticker \in {"start", "pop", "wait", "tick", "exited"}
    /\ armed \in BOOLEAN
    /\ pos \in Nat \ {0}
    /\ quit \in BOOLEAN
    /\ now \in 0..MaxTicks
    /\ visits \in [Timers -> Nat]
    /\ clean \in [Timers -> BOOLEAN]
    /\ sched \in [Timers -> SchedRec]

Init ==
    /\ life = [t \in Timers |-> "none"]
    /\ running = [t \in Timers |-> FALSE]
    /\ value = [t \in Timers |-> 0]
    /\ interval = [t \in Timers |-> 0]
    /\ timerVec = << >>
    /\ ticker = "start"
    /\ armed = FALSE
    /\ pos = 1
    /\ quit = FALSE
    /\ now = 0
    /\ visits = [t \in Timers |-> 0]
    /\ clean = [t \in Timers |-> FALSE]
    /\ sched = [t \in Timers |-> NoSched]

TickerVars == <<ticker, armed, pos, quit, now, visits>>

(* The vector lock is free unless Tick() is running.                       *)
VectorFree == ticker # "tick"

-----------------------------------------------------------------------------
(* csTimer methods, called by the thread that owns the timer.              *)

(* csThreadTimer::AddTimer: append under vector_mutex.                     *)
AddTimer(t) ==
    /\ VectorFree
    /\ timerVec' = Append(timerVec, t)

(* csTimer::csTimer: set the fields, then AddTimer.                        *)
Create(t, v, i) ==
    /\ life[t] = "none"
    /\ AddTimer(t)
    /\ life' = [life EXCEPT ![t] = "live"]
    /\ value' = [value EXCEPT ![t] = v]
    /\ interval' = [interval EXCEPT ![t] = i]
    /\ UNCHANGED <<running, TickerVars, clean, sched>>

Start(t) ==
    /\ life[t] = "live"
    /\ running' = [running EXCEPT ![t] = TRUE]
    /\ clean' = [clean EXCEPT ![t] = TRUE]
    /\ sched' = IF running[t] /\ clean[t] THEN sched
                ELSE [sched EXCEPT ![t] = [v |-> value[t], i |-> interval[t],
                                           dec |-> 0, fires |-> 0]]
    /\ UNCHANGED <<life, value, interval, timerVec, TickerVars>>

Stop(t) ==
    /\ life[t] = "live"
    /\ running' = [running EXCEPT ![t] = FALSE]
    /\ clean' = [clean EXCEPT ![t] = FALSE]
    /\ sched' = [sched EXCEPT ![t] = NoSched]
    /\ UNCHANGED <<life, value, interval, timerVec, TickerVars>>

SetValue(t, v) ==
    /\ life[t] = "live"
    /\ value' = [value EXCEPT ![t] = v]
    /\ clean' = [clean EXCEPT ![t] = FALSE]
    /\ sched' = [sched EXCEPT ![t] = NoSched]
    /\ UNCHANGED <<life, running, interval, timerVec, TickerVars>>

SetInterval(t, i) ==
    /\ life[t] = "live"
    /\ interval' = [interval EXCEPT ![t] = i]
    /\ clean' = [clean EXCEPT ![t] = FALSE]
    /\ sched' = [sched EXCEPT ![t] = NoSched]
    /\ UNCHANGED <<life, running, value, timerVec, TickerVars>>

Extend(t, v) ==
    /\ life[t] = "live"
    /\ value[t] + v <= MaxValue
    /\ value' = [value EXCEPT ![t] = @ + v]
    /\ clean' = [clean EXCEPT ![t] = FALSE]
    /\ sched' = [sched EXCEPT ![t] = NoSched]
    /\ UNCHANGED <<life, running, interval, timerVec, TickerVars>>

(* csTimer::~csTimer, first half: Stop().                                  *)
DestroyStop(t) ==
    /\ life[t] = "live"
    /\ life' = [life EXCEPT ![t] = "dying"]
    /\ running' = [running EXCEPT ![t] = FALSE]
    /\ clean' = [clean EXCEPT ![t] = FALSE]
    /\ sched' = [sched EXCEPT ![t] = NoSched]
    /\ UNCHANGED <<value, interval, timerVec, TickerVars>>

(* vector::erase of the element at index k.                               *)
Erase(s, k) == SubSeq(s, 1, k - 1) \o SubSeq(s, k + 1, Len(s))

(* k is the first index of t in s.                                         *)
IsFirst(s, t, k) == s[k] = t /\ \A j \in 1..k - 1 : s[j] # t

(* The loop of RemoveTimer: erase the first element equal to t, if any.    *)
EraseFirst(s, t) ==
    IF \E k \in 1..Len(s) : IsFirst(s, t, k)
    THEN Erase(s, CHOOSE k \in 1..Len(s) : IsFirst(s, t, k))
    ELSE s

(* Mutant of RemoveTimer: the erase does not wait for vector_mutex.        *)
RemoveTimerUnlocked(t) ==
    /\ life[t] = "dying"
    /\ life' = [life EXCEPT ![t] = "gone"]
    /\ timerVec' = EraseFirst(timerVec, t)
    /\ UNCHANGED <<running, value, interval, TickerVars, clean, sched>>

(* csTimer::~csTimer, second half: RemoveTimer() under vector_mutex.       *)
RemoveTimer(t) ==
    /\ life[t] = "dying"
    /\ VectorFree
    /\ life' = [life EXCEPT ![t] = "gone"]
    /\ timerVec' = EraseFirst(timerVec, t)
    /\ UNCHANGED <<running, value, interval, TickerVars, clean, sched>>

-----------------------------------------------------------------------------
(* csThreadTimer::Entry and Tick.                                          *)

(* Entry, lines 171-172: timer_settime arms the one-second timer.  The     *)
(* test "timer_settime(...) , 0" is the comma operator, always false, so   *)
(* the loop starts whether or not the timer was armed.                     *)
ArmTick ==
    /\ ticker = "start"
    /\ ticker' = "pop"
    /\ armed' \in BOOLEAN
    /\ UNCHANGED <<life, running, value, interval, timerVec, pos, quit, now,
                   visits, clean, sched>>

(* EventPop() at the top of the loop returns the queued QUIT.              *)
PopQuit ==
    /\ ticker = "pop"
    /\ quit
    /\ ticker' = "exited"
    /\ UNCHANGED <<armed, life, running, value, interval, timerVec, pos, quit, now,
                   visits, clean, sched>>

(* Mutant of PopNone: QUIT falls into the "unhandled event" branch and is  *)
(* deleted.                                                                *)
PopDropsQuit ==
    /\ ticker = "pop"
    /\ ticker' = "wait"
    /\ quit' = FALSE
    /\ UNCHANGED <<armed, life, running, value, interval, timerVec, pos, now,
                   visits, clean, sched>>

(* EventPop() returns no event (or an unhandled one): go to sigtimedwait.  *)
PopNone ==
    /\ ticker = "pop"
    /\ ~quit
    /\ ticker' = "wait"
    /\ UNCHANGED <<armed, life, running, value, interval, timerVec, pos, quit, now,
                   visits, clean, sched>>

(* sigtimedwait returns SIGRTMIN, which only an armed timer raises:        *)
(* Tick() takes vector_mutex.                                              *)
TickBegin ==
    /\ ticker = "wait"
    /\ armed
    /\ now < MaxTicks
    /\ ticker' = "tick"
    /\ UNCHANGED <<armed, life, running, value, interval, timerVec, pos, quit, now,
                   visits, clean, sched>>

(* sigtimedwait times out or fails with EINTR/EAGAIN, or returns another   *)
(* signal: continue the loop.                                              *)
WaitAgain ==
    /\ ticker = "wait"
    /\ ticker' = "pop"
    /\ UNCHANGED <<armed, life, running, value, interval, timerVec, pos, quit, now,
                   visits, clean, sched>>

(* sigtimedwait fails otherwise: broadcast QUIT and return.                *)
WaitFail ==
    /\ ticker = "wait"
    /\ ticker' = "exited"
    /\ quit' = TRUE
    /\ UNCHANGED <<armed, life, running, value, interval, timerVec, pos, now,
                   visits, clean, sched>>

(* The value of a running timer after the decrement of one tick step:      *)
(* --value <= 0 dispatches a TIMER event and reloads value from interval.  *)
(* FiresLate is the mutant that tests --value < 0.                         *)
FiresLate(t) == value[t] - 1 < 0

Fires(t) == value[t] - 1 <= 0

(* ReloadMissing is the mutant that forgets to reload value from interval. *)
ReloadMissing(t) == value[t] - 1

Reload(t) == IF Fires(t) THEN interval[t] ELSE value[t] - 1

(* The running flag after the step: the code sets it TRUE when the         *)
(* reloaded value is positive and never clears it.                         *)
Rearm(t) == IF Fires(t) /\ interval[t] > 0 THEN TRUE ELSE running[t]

(* Ghost bookkeeping of one decrement, and of the event if it fires.       *)
Counted(s, fire) ==
    [v |-> s.v, i |-> s.i, dec |-> s.dec + 1,
     fires |-> IF fire THEN s.fires + 1 ELSE s.fires]

(* One iteration of the loop of Tick() on timer_vector[pos], under its     *)
(* timer_mutex.                                                            *)
TickStep ==
    /\ ticker = "tick"
    /\ pos <= Len(timerVec)
    /\ LET t == timerVec[pos] IN
       /\ visits' = [visits EXCEPT ![t] = @ + 1]
       /\ pos' = pos + 1
       /\ IF running[t]
          THEN /\ value' = [value EXCEPT ![t] = Reload(t)]
               /\ running' = [running EXCEPT ![t] = Rearm(t)]
               /\ sched' = IF clean[t]
                           THEN [sched EXCEPT ![t] = Counted(@, Fires(t))]
                           ELSE sched
          ELSE UNCHANGED <<value, running, sched>>
    /\ UNCHANGED <<life, interval, timerVec, ticker, armed, quit, now, clean>>

(* The loop of Tick() ends: vector_mutex is released.  The iterator and    *)
(* the ghost visit counts are reset for the next Tick().                   *)
TickEnd ==
    /\ ticker = "tick"
    /\ pos > Len(timerVec)
    /\ ticker' = "pop"
    /\ now' = now + 1
    /\ pos' = 1
    /\ visits' = [t \in Timers |-> 0]
    /\ UNCHANGED <<armed, life, running, value, interval, timerVec, quit,
                   clean, sched>>

(* Another thread (the signal handler, or a failing service) broadcasts    *)
(* QUIT, which lands in the timer thread's inbox.                          *)
QuitArrives ==
    /\ ~quit
    /\ quit' = TRUE
    /\ UNCHANGED <<armed, life, running, value, interval, timerVec, ticker, pos, now,
                   visits, clean, sched>>

Ticker == ArmTick \/ PopQuit \/ PopNone \/ TickBegin \/ WaitAgain \/ WaitFail
          \/ TickStep \/ TickEnd

Owner ==
    \E t \in Timers :
        \/ \E v, i \in Values : Create(t, v, i)
        \/ Start(t) \/ Stop(t)
        \/ \E v \in Values : SetValue(t, v) \/ SetInterval(t, v) \/ Extend(t, v)
        \/ DestroyStop(t) \/ RemoveTimer(t)

Next == Ticker \/ Owner \/ QuitArrives

(* The timer thread is an OS thread whose sigtimedwait returns within one  *)
(* second, so it keeps taking steps.                                       *)
Spec == Init /\ [][Next]_vars /\ WF_vars(Ticker)

-----------------------------------------------------------------------------
(* Properties.                                                             *)

(* The decrement at which a timer started with value v first fires: a      *)
(* value <= 0 fires at the first decrement.                                *)
FirstDue(v) == IF v < 1 THEN 1 ELSE v

(* TIMER events a timer started with (v, i) has dispatched after dec ticks *)
(* according to the spec: the first after v, then one every i.             *)
ExpectedFires(s) ==
    IF s.dec < FirstDue(s.v) THEN 0
    ELSE 1 + (s.dec - FirstDue(s.v)) \div s.i

(* Periodic timers keep their schedule: a timer started with value v and  *)
(* interval i > 0 and left alone since has fired, after its d-th          *)
(* decrement by Tick(), exactly once at d = v and then every i decrements *)
(* (csThreadTimer::Tick's "--value <= 0" test and reload from interval).  *)
ScheduleKept ==
    \A t \in Timers :
        clean[t] /\ sched[t].i > 0 => sched[t].fires = ExpectedFires(sched[t])

(* One-shot timers fire once: a timer started with interval 0 and left     *)
(* alone since dispatches at most one TIMER event (spec section 3, Timer). *)
OneShotFiresOnce ==
    \A t \in Timers :
        clean[t] /\ sched[t].i = 0 => sched[t].fires <= 1

(* Every tick processes every registered timer exactly once: when Tick()  *)
(* releases vector_mutex each timer still in timer_vector was visited once *)
(* by its loop, whatever constructors and destructors ran meanwhile.       *)
TickVisitsAll ==
    [][ticker = "tick" /\ ticker' = "pop" =>
         \A k \in 1..Len(timerVec) : visits[timerVec[k]] = 1]_vars

(* The timer thread honours QUIT: once QUIT is queued, Entry returns.      *)
QuitHonoured == quit ~> (ticker = "exited")


(* A broken clock is not lost silently (spec, error handling design:       *)
(* "unrecoverable task failure (... clock broken) is surfaced by           *)
(* broadcasting QUIT"): once Entry has tried timer_settime and the         *)
(* one-second timer is not armed, QUIT is eventually broadcast.            *)
ClockFailureSurfaced == (ticker # "start" /\ ~armed) ~> quit

=============================================================================
